------------------------------ MODULE PipeProofs -----------------------------
(***************************************************************************)
(* Proofs about BoundedBuffer, for any number of cores and clients, any     *)
(* values and any capacity, and about Pipe, which uses it.                  *)
(***************************************************************************)
EXTENDS Pipe, QueueFacts, FiniteSetTheorems, TLAPS

USE Zenon

(* The closures that wait or are ready, and those that cores run.           *)
Pending == Range(n_full.waiting) \cup Range(n_empty.waiting) \cup Range(ready)
Busy(c) == job[c].at # "idle"

(* Readers wait for n_full, writers for n_empty.                            *)
Kinds ==
  /\ \A e \in Range(n_full.waiting) : e.op = "get"
  /\ \A e \in Range(n_empty.waiting) : e.op = "put"

(* A closure is in one place.                                               *)
Apart ==
  /\ IsInjective(n_full.waiting) /\ IsInjective(n_empty.waiting) /\ IsInjective(ready)
  /\ Range(ready) \cap (Range(n_full.waiting) \cup Range(n_empty.waiting)) = {}
  /\ \A c \in Core : Busy(c) => job[c].closure \notin Pending
  /\ \A c, d \in Core : c # d /\ Busy(c) => job[c].closure # job[d].closure

(* A closure is that of the call its client is in; it has taken effect when *)
(* it is past the queue.                                                    *)
Called ==
  /\ \A e \in Pending : call[e.client] = Call(e.op, e.value, FALSE)
  /\ \A c \in Core : Busy(c) =>
       call[job[c].closure.client]
         = Call(job[c].closure.op, job[c].closure.value, job[c].at # "queue")
  /\ \A p \in Client : call[p] # Null /\ call[p].op = "put" => call[p].value \in Value

BufferInv == TypeOK /\ Kinds /\ Apart /\ Called

(* Semaphore::down: a unit is taken and the closure is ready, or it waits.  *)
LEMMA DownFacts ==
  ASSUME NEW s \in Semaphores, NEW e \in Closures, ready \in Seq(Closures)
  PROVE  /\ Down(s, e) \in Semaphores
         /\ s.count > 0 => /\ Down(s, e).count = s.count - 1
                           /\ Down(s, e).waiting = s.waiting
                           /\ DownReady(s, e) = Append(ready, e)
         /\ s.count = 0 => /\ Down(s, e).count = 0
                           /\ Down(s, e).waiting = Append(s.waiting, e)
                           /\ DownReady(s, e) = ready
<1>1. s.count \in Nat /\ s.waiting \in Seq(Closures) /\ Append(s.waiting, e) \in Seq(Closures)
  BY SMT DEF Semaphores
<1>2. CASE s.count > 0
  <2>1. Down(s, e) = [s EXCEPT !.count = @ - 1] /\ DownReady(s, e) = Append(ready, e)
    BY <1>2 DEF Down, DownReady
  <2>2. s.count - 1 \in Nat
    BY SMT, <1>1, <1>2
  <2>3. Down(s, e) \in Semaphores
    BY <1>1, <2>1, <2>2 DEF Semaphores
  <2>4. Down(s, e).count = s.count - 1 /\ Down(s, e).waiting = s.waiting
    BY <2>1 DEF Semaphores
  <2> QED
    BY SMT, <1>1, <1>2, <2>1, <2>3, <2>4
<1>3. CASE ~(s.count > 0)
  <2>1. Down(s, e) = [s EXCEPT !.waiting = Append(@, e)] /\ DownReady(s, e) = ready
    BY <1>3 DEF Down, DownReady
  <2> QED
    BY <1>1, <1>3, <2>1 DEF Semaphores
<1> QED
  BY <1>2, <1>3

(* Semaphore::up: a waiting closure becomes ready, or a unit is stored.     *)
LEMMA UpFacts ==
  ASSUME NEW s \in Semaphores, ready \in Seq(Closures)
  PROVE  /\ Up(s) \in Semaphores
         /\ s.waiting = << >> => /\ Up(s).count = s.count + 1
                                 /\ Up(s).waiting = s.waiting
                                 /\ UpReady(s) = ready
         /\ s.waiting # << >> => /\ Up(s).count = s.count
                                 /\ Up(s).waiting = Tail(s.waiting)
                                 /\ UpReady(s) = Append(ready, Head(s.waiting))
<1>1. s.count \in Nat /\ s.waiting \in Seq(Closures)
  BY DEF Semaphores
<1>2. CASE s.waiting = << >>
  <2>1. Up(s) = [s EXCEPT !.count = @ + 1] /\ UpReady(s) = ready
    BY <1>2 DEF Up, UpReady
  <2> QED
    BY SMT, <1>1, <1>2, <2>1 DEF Semaphores
<1>3. CASE s.waiting # << >>
  <2>1. Up(s) = [s EXCEPT !.waiting = Tail(@)] /\ UpReady(s) = Append(ready, Head(s.waiting))
    BY <1>3 DEF Up, UpReady
  <2>2. Tail(s.waiting) \in Seq(Closures)
    BY <1>1, <1>3, RemoveFacts
  <2> QED
    BY <1>1, <1>3, <2>1, <2>2 DEF Semaphores
<1> QED
  BY <1>2, <1>3

(* No closure is left of a client that is in no call.                       *)
LEMMA Fresh ==
  ASSUME BufferInv, NEW p \in Client, call[p] = Null
  PROVE  /\ \A e \in Pending : e.client # p
         /\ \A c \in Core : Busy(c) => job[c].closure.client # p
<1>1. \A op \in {"put", "get"}, v \in Value \cup {Null}, b \in BOOLEAN :
        Call(op, v, b) \in Calls /\ Call(op, v, b) # Null
  BY SMT, BufferAssumption DEF Call, Calls
<1>2. Pending \subseteq Closures
  BY RangeFacts DEF Pending, BufferInv, TypeOK, Semaphores
<1>3. \A e \in Closures : e.op \in {"put", "get"} /\ e.value \in Value \cup {Null}
  BY DEF Closures
<1>4. \A c \in Core : Busy(c) => job[c].closure \in Closures
  BY DEF BufferInv, TypeOK, Busy
<1> QED
  BY <1>1, <1>2, <1>3, <1>4 DEF BufferInv, Called

(* A running closure is the only one of its client.                         *)
LEMMA Alone ==
  ASSUME BufferInv, NEW c \in Core, Busy(c)
  PROVE  /\ job[c].closure \in Closures
         /\ \A e \in Pending : e.client # job[c].closure.client
         /\ \A d \in Core \ {c} : Busy(d) => job[d].closure.client # job[c].closure.client
<1>2. Pending \subseteq Closures
  BY RangeFacts DEF Pending, BufferInv, TypeOK, Semaphores
<1>3. \A d \in Core : Busy(d) => job[d].closure \in Closures
  BY DEF BufferInv, TypeOK, Busy
<1>4. \A e, f \in Closures : e.op = f.op /\ e.client = f.client /\ e.value = f.value => e = f
  <2>1. \A e \in Closures : e = Closure(e.op, e.client, e.value)
    BY SMT DEF Closures, Closure
  <2> QED
    BY <2>1, Zenon
<1>5. ASSUME NEW e \in Pending, e.client = job[c].closure.client PROVE FALSE
  <2>1. Call(e.op, e.value, FALSE)
          = Call(job[c].closure.op, job[c].closure.value, job[c].at # "queue")
    BY <1>5 DEF BufferInv, Called
  <2>2. e.op = job[c].closure.op /\ e.value = job[c].closure.value
    BY <2>1 DEF Call
  <2>3. e = job[c].closure
    BY <1>2, <1>3, <1>4, <1>5, <2>2, Zenon
  <2> QED
    BY <2>3 DEF BufferInv, Apart
<1>6. ASSUME NEW d \in Core \ {c}, Busy(d), job[d].closure.client = job[c].closure.client
      PROVE  FALSE
  <2>1. Call(job[d].closure.op, job[d].closure.value, job[d].at # "queue")
          = Call(job[c].closure.op, job[c].closure.value, job[c].at # "queue")
    BY <1>6 DEF BufferInv, Called
  <2>2. job[d].closure.op = job[c].closure.op /\ job[d].closure.value = job[c].closure.value
    BY <2>1 DEF Call
  <2>3. job[d].closure = job[c].closure
    BY <1>3, <1>4, <1>6, <2>2, Zenon
  <2> QED
    BY <1>6, <2>3 DEF BufferInv, Apart
<1> QED
  BY <1>3, <1>5, <1>6

(* The closure of a put carries a value.                                    *)
LEMMA PutValue ==
  ASSUME BufferInv, NEW c \in Core, Busy(c), job[c].closure.op = "put"
  PROVE  job[c].closure.value \in Value
<1>1. job[c].closure.client \in Client
  BY Alone DEF Closures
<1>2. /\ call[job[c].closure.client].op = "put"
      /\ call[job[c].closure.client].value = job[c].closure.value
  <2>1. call[job[c].closure.client]
          = Call(job[c].closure.op, job[c].closure.value, job[c].at # "queue")
    BY DEF BufferInv, Called
  <2> QED
    BY SMT, <2>1 DEF Call
<1>3. call[job[c].closure.client] # Null
  BY <1>1, Fresh
<1> QED
  BY <1>1, <1>2, <1>3 DEF BufferInv, Called

(* down puts the closure in exactly one of the two queues.                  *)
LEMMA DownPlace ==
  ASSUME NEW s \in Semaphores, NEW e \in Closures, ready \in Seq(Closures),
         IsInjective(s.waiting), IsInjective(ready),
         e \notin Range(s.waiting), e \notin Range(ready)
  PROVE  /\ Down(s, e) \in Semaphores /\ DownReady(s, e) \in Seq(Closures)
         /\ IsInjective(Down(s, e).waiting) /\ IsInjective(DownReady(s, e))
         /\ \/ /\ Range(Down(s, e).waiting) = Range(s.waiting)
               /\ Range(DownReady(s, e)) = Range(ready) \cup {e}
               /\ Down(s, e).count = s.count - 1
            \/ /\ Range(Down(s, e).waiting) = Range(s.waiting) \cup {e}
               /\ Range(DownReady(s, e)) = Range(ready)
               /\ Down(s, e).count = s.count
<1>1. s.count \in Nat /\ s.waiting \in Seq(Closures)
  BY DEF Semaphores
<1>2. CASE s.count > 0
  <2>1. /\ Down(s, e).waiting = s.waiting /\ DownReady(s, e) = Append(ready, e)
        /\ Down(s, e).count = s.count - 1
    BY <1>2, DownFacts
  <2> QED
    BY SMT, <2>1, DownFacts, AddFacts
<1>3. CASE s.count = 0
  <2>1. /\ Down(s, e).waiting = Append(s.waiting, e) /\ DownReady(s, e) = ready
        /\ Down(s, e).count = s.count
    BY <1>3, DownFacts
  <2> QED
    BY SMT, <1>1, <2>1, DownFacts, AddFacts
<1> QED
  BY SMT, <1>1, <1>2, <1>3

(* up moves a waiting closure to the ready queue, if there is one.          *)
LEMMA UpPlace ==
  ASSUME NEW s \in Semaphores, ready \in Seq(Closures),
         IsInjective(s.waiting), IsInjective(ready),
         Range(s.waiting) \cap Range(ready) = {}
  PROVE  /\ Up(s) \in Semaphores /\ UpReady(s) \in Seq(Closures)
         /\ IsInjective(Up(s).waiting) /\ IsInjective(UpReady(s))
         /\ \/ /\ Range(Up(s).waiting) = Range(s.waiting)
               /\ Range(UpReady(s)) = Range(ready)
               /\ Up(s).count = s.count + 1
            \/ /\ \E h \in Range(s.waiting) :
                    /\ Range(Up(s).waiting) = Range(s.waiting) \ {h}
                    /\ Range(UpReady(s)) = Range(ready) \cup {h}
               /\ Up(s).count = s.count
<1>1. s.waiting \in Seq(Closures)
  BY DEF Semaphores
<1>2. CASE s.waiting = << >>
  BY <1>2, UpFacts
<1>3. CASE s.waiting # << >>
  <2> DEFINE h == Head(s.waiting)
  <2>1. /\ Up(s).waiting = Tail(s.waiting) /\ UpReady(s) = Append(ready, h)
        /\ Up(s).count = s.count /\ Up(s) \in Semaphores
    BY <1>3, UpFacts
  <2>2. /\ h \in Closures /\ h \in Range(s.waiting)
        /\ Range(s.waiting) = Range(Tail(s.waiting)) \cup {h}
        /\ IsInjective(Tail(s.waiting)) /\ h \notin Range(Tail(s.waiting))
    BY <1>1, <1>3, RemoveFacts
  <2> HIDE DEF h
  <2>3. h \notin Range(ready)
    BY <2>2
  <2>4. /\ Append(ready, h) \in Seq(Closures) /\ IsInjective(Append(ready, h))
        /\ Range(Append(ready, h)) = Range(ready) \cup {h}
    BY SMT, <2>2, <2>3, AddFacts
  <2>5. Range(Tail(s.waiting)) = Range(s.waiting) \ {h}
    BY <2>2
  <2> QED
    BY <2>1, <2>2, <2>4, <2>5
<1> QED
  BY <1>2, <1>3

(* The constructor leaves the buffer and all queues empty.                  *)
LEMMA BufferInit == Init => BufferInv
<1> SUFFICES ASSUME Init PROVE BufferInv
  OBVIOUS
<1>1. n_full.waiting = << >> /\ n_empty.waiting = << >> /\ ready = << >>
  BY DEF Init
<1>2. Pending = {}
  BY <1>1, EmptyFacts DEF Pending
<1>3. TypeOK
  BY SMT, BufferAssumption DEF Init, TypeOK, Semaphores, NoJob
<1>4. \A c \in Core : ~Busy(c)
  BY DEF Init, NoJob, Busy
<1>5. Kinds /\ Apart
  BY <1>1, <1>4, EmptyFacts DEF Kinds, Apart
<1>6. Called
  BY <1>2, <1>4 DEF Init, Called
<1> QED
  BY <1>3, <1>5, <1>6 DEF BufferInv

(* A call of down by client p for closure e, on either semaphore.           *)
LEMMA RequestKeeps ==
  ASSUME BufferInv, NEW p \in Client, call[p] = Null,
         NEW op \in {"put", "get"}, NEW v \in Value \cup {Null},
         op = "put" => v \in Value,
         call' = [call EXCEPT ![p] = Call(op, v, FALSE)],
         UNCHANGED <<queue, job>>,
         \/ /\ op = "put"
            /\ n_empty' = Down(n_empty, Closure(op, p, v))
            /\ ready' = DownReady(n_empty, Closure(op, p, v))
            /\ n_full' = n_full
         \/ /\ op = "get"
            /\ n_full' = Down(n_full, Closure(op, p, v))
            /\ ready' = DownReady(n_full, Closure(op, p, v))
            /\ n_empty' = n_empty
  PROVE  BufferInv'
<1> DEFINE e == Closure(op, p, v)
<1>1. e \in Closures /\ e.op = op /\ e.client = p /\ e.value = v
  BY DEF Closure, Closures
<1> HIDE DEF e
<1>2. /\ \A f \in Pending : f.client # p
      /\ \A c \in Core : Busy(c) => job[c].closure.client # p
  BY Fresh
<1>3. e \notin Pending /\ \A c \in Core : Busy(c) => job[c].closure # e
  BY <1>1, <1>2
<1>4. /\ n_full' \in Semaphores /\ n_empty' \in Semaphores /\ ready' \in Seq(Closures)
      /\ IsInjective(n_full'.waiting) /\ IsInjective(n_empty'.waiting) /\ IsInjective(ready')
      /\ \/ /\ op = "put" /\ n_full' = n_full
            /\ \/ /\ Range(n_empty'.waiting) = Range(n_empty.waiting)
                  /\ Range(ready') = Range(ready) \cup {e}
               \/ /\ Range(n_empty'.waiting) = Range(n_empty.waiting) \cup {e}
                  /\ Range(ready') = Range(ready)
         \/ /\ op = "get" /\ n_empty' = n_empty
            /\ \/ /\ Range(n_full'.waiting) = Range(n_full.waiting)
                  /\ Range(ready') = Range(ready) \cup {e}
               \/ /\ Range(n_full'.waiting) = Range(n_full.waiting) \cup {e}
                  /\ Range(ready') = Range(ready)
  <2>1. /\ n_full \in Semaphores /\ n_empty \in Semaphores /\ ready \in Seq(Closures)
        /\ IsInjective(n_full.waiting) /\ IsInjective(n_empty.waiting) /\ IsInjective(ready)
        /\ e \notin Range(n_full.waiting) /\ e \notin Range(n_empty.waiting)
        /\ e \notin Range(ready)
    BY <1>3 DEF BufferInv, TypeOK, Apart, Pending
  <2>2. CASE op = "put"
    <3>1. n_empty' = Down(n_empty, e) /\ ready' = DownReady(n_empty, e) /\ n_full' = n_full
      BY <2>2 DEF e
    <3> QED
      BY <1>1, <2>1, <2>2, <3>1, DownPlace
  <2>3. CASE op = "get"
    <3>1. n_full' = Down(n_full, e) /\ ready' = DownReady(n_full, e) /\ n_empty' = n_empty
      BY <2>3 DEF e
    <3> QED
      BY <1>1, <2>1, <2>3, <3>1, DownPlace
  <2> QED
    BY <2>2, <2>3
<1>5. Pending' = Pending \cup {e}
  BY <1>4 DEF Pending
<1>6. \A c \in Core : Busy(c)' = Busy(c) /\ job'[c] = job[c]
  BY DEF Busy
<1>7. Call(op, v, FALSE) \in Calls /\ Call(op, v, FALSE).op = op /\ Call(op, v, FALSE).value = v
  BY DEF Call, Calls
<1>8. /\ call'[p] = Call(op, v, FALSE)
      /\ \A q \in Client \ {p} : call'[q] = call[q]
      /\ call' \in [Client -> Calls \cup {Null}]
  BY <1>7 DEF BufferInv, TypeOK
<1>9. TypeOK'
  BY <1>4, <1>8 DEF BufferInv, TypeOK
<1>10. Kinds'
  BY <1>1, <1>4 DEF BufferInv, Kinds
<1>11. Apart'
  <2>1. Range(ready)' \cap (Range(n_full.waiting)' \cup Range(n_empty.waiting)') = {}
    BY <1>3, <1>4 DEF BufferInv, Apart, Pending
  <2> QED
    BY <1>3, <1>4, <1>5, <1>6, <2>1 DEF BufferInv, Apart
<1>12. Called'
  <2>1. Pending \subseteq Closures /\ \A f \in Closures : f.client \in Client
    BY RangeFacts DEF Pending, BufferInv, TypeOK, Semaphores, Closures
  <2>2. \A c \in Core : Busy(c) => job[c].closure.client \in Client
    BY DEF BufferInv, TypeOK, Busy, Closures
  <2>3. \A f \in Pending' : call'[f.client] = Call(f.op, f.value, FALSE)
    BY <1>1, <1>2, <1>5, <1>8, <2>1 DEF BufferInv, Called
  <2>4. \A c \in Core : Busy(c)' =>
          call'[job'[c].closure.client]
            = Call(job'[c].closure.op, job'[c].closure.value, job'[c].at # "queue")
    BY <1>2, <1>6, <1>8, <2>2 DEF BufferInv, Called
  <2>5. \A q \in Client : call'[q] # Null /\ call'[q].op = "put" => call'[q].value \in Value
    BY <1>7, <1>8 DEF BufferInv, Called
  <2> QED
    BY <2>3, <2>4, <2>5 DEF Called
<1> QED
  BY <1>9, <1>10, <1>11, <1>12 DEF BufferInv

(* n_full->up() and n_empty->up() by a closure that core c runs.            *)
LEMMA UpKeeps ==
  ASSUME BufferInv, NEW c \in Core, job[c].at = "up",
         job' = [job EXCEPT ![c].at = "work"],
         UNCHANGED <<queue, call>>,
         \/ n_full' = Up(n_full) /\ ready' = UpReady(n_full) /\ n_empty' = n_empty
         \/ n_empty' = Up(n_empty) /\ ready' = UpReady(n_empty) /\ n_full' = n_full
  PROVE  BufferInv' /\ Pending' = Pending
<1>1. /\ n_full' \in Semaphores /\ n_empty' \in Semaphores /\ ready' \in Seq(Closures)
      /\ IsInjective(n_full'.waiting) /\ IsInjective(n_empty'.waiting) /\ IsInjective(ready')
      /\ \/ /\ Range(n_full'.waiting) = Range(n_full.waiting)
            /\ Range(n_empty'.waiting) = Range(n_empty.waiting)
            /\ Range(ready') = Range(ready)
         \/ \E h \in Range(n_full.waiting) :
              /\ Range(n_full'.waiting) = Range(n_full.waiting) \ {h}
              /\ n_empty' = n_empty
              /\ Range(ready') = Range(ready) \cup {h}
         \/ \E h \in Range(n_empty.waiting) :
              /\ Range(n_empty'.waiting) = Range(n_empty.waiting) \ {h}
              /\ n_full' = n_full
              /\ Range(ready') = Range(ready) \cup {h}
  <2>1. /\ n_full \in Semaphores /\ n_empty \in Semaphores /\ ready \in Seq(Closures)
        /\ IsInjective(n_full.waiting) /\ IsInjective(n_empty.waiting) /\ IsInjective(ready)
        /\ Range(n_full.waiting) \cap Range(ready) = {}
        /\ Range(n_empty.waiting) \cap Range(ready) = {}
    BY DEF BufferInv, TypeOK, Apart
  <2>2. CASE n_full' = Up(n_full) /\ ready' = UpReady(n_full) /\ n_empty' = n_empty
    BY <2>1, <2>2, UpPlace
  <2>3. CASE n_empty' = Up(n_empty) /\ ready' = UpReady(n_empty) /\ n_full' = n_full
    BY <2>1, <2>3, UpPlace
  <2> QED
    BY <2>2, <2>3
<1>2. Range(n_full.waiting) \cap Range(n_empty.waiting) = {}
  BY DEF BufferInv, Kinds
<1>3. Pending' = Pending
  BY <1>1 DEF Pending
<1>4. /\ \A d \in Core : job'[d].closure = job[d].closure /\ Busy(d)' = Busy(d)
      /\ \A d \in Core : job'[d].at = "queue" <=> job[d].at = "queue"
      /\ job' \in [Core -> [closure : Closures \cup {Null}, at : {"idle", "queue", "up", "work"}]]
      /\ \A d \in Core : job'[d].at = "idle" <=> job[d].at = "idle"
  BY DEF BufferInv, TypeOK, Busy
<1>5. TypeOK'
  BY SMT, <1>1, <1>4 DEF BufferInv, TypeOK
<1>6. Kinds'
  BY <1>1 DEF BufferInv, Kinds
<1>7. Apart'
  <2>1. Range(ready)' \cap (Range(n_full.waiting)' \cup Range(n_empty.waiting)') = {}
    BY <1>1, <1>2 DEF BufferInv, Apart
  <2> QED
    BY SMT, <1>1, <1>3, <1>4, <2>1 DEF BufferInv, Apart
<1>8. Called'
  <2>1. \A e \in Pending' : call'[e.client] = Call(e.op, e.value, FALSE)
    BY <1>3 DEF BufferInv, Called
  <2>2. ASSUME NEW d \in Core, Busy(d)'
        PROVE  call'[job'[d].closure.client]
                 = Call(job'[d].closure.op, job'[d].closure.value, job'[d].at # "queue")
    <3>1. job'[d].closure = job[d].closure /\ Busy(d)
      BY <1>4, <2>2
    <3>2. (job'[d].at # "queue") = (job[d].at # "queue")
      BY <1>4
    <3>3. call[job[d].closure.client]
            = Call(job[d].closure.op, job[d].closure.value, job[d].at # "queue")
      BY <3>1 DEF BufferInv, Called
    <3> QED
      BY <3>1, <3>2, <3>3
  <2>3. \A p \in Client : call'[p] # Null /\ call'[p].op = "put" => call'[p].value \in Value
    BY DEF BufferInv, Called
  <2> QED
    BY <2>1, <2>2, <2>3 DEF Called
<1> QED
  BY <1>3, <1>5, <1>6, <1>7, <1>8 DEF BufferInv

(* A core's own step: the running closure of core c becomes j, the value of *)
(* its client's call changes with it, and nothing is queued.                *)
LEMMA RunKeeps ==
  ASSUME BufferInv, NEW c \in Core, Busy(c),
         NEW v \in Value \cup {Null}, NEW at \in {"up", "work"},
         job[c].closure.op = "put" => v \in Value,
         job' = [job EXCEPT ![c] =
                   Job(Closure(job[c].closure.op, job[c].closure.client, v), at)],
         call' = [call EXCEPT ![job[c].closure.client] =
                   Call(job[c].closure.op, v, TRUE)],
         queue' \in Seq(Value),
         UNCHANGED <<n_full, n_empty, ready>>
  PROVE  BufferInv'
<1> DEFINE p == job[c].closure.client
           e == Closure(job[c].closure.op, p, v)
<1>1. p \in Client /\ job[c].closure.op \in {"put", "get"}
  BY Alone DEF Closures
<1>2. e \in Closures /\ e.client = p /\ e.op = job[c].closure.op /\ e.value = v
  BY <1>1 DEF Closure, Closures
<1>3. /\ \A f \in Pending : f.client # p
      /\ \A d \in Core \ {c} : Busy(d) => job[d].closure.client # p
  BY Alone
<1> HIDE DEF e, p
<1>4. /\ job'[c].closure = e /\ job'[c].at = at /\ Busy(c)'
      /\ \A d \in Core \ {c} : job'[d] = job[d] /\ Busy(d)' = Busy(d)
      /\ job' \in [Core -> [closure : Closures \cup {Null}, at : {"idle", "queue", "up", "work"}]]
  BY <1>2 DEF BufferInv, TypeOK, Job, Busy, e, p
<1>5. /\ call'[p] = Call(e.op, v, TRUE)
      /\ \A q \in Client \ {p} : call'[q] = call[q]
      /\ call' \in [Client -> Calls \cup {Null}]
  BY <1>1, <1>2 DEF BufferInv, TypeOK, Calls, Call, p
<1>6. Pending' = Pending
  BY DEF Pending
<1>7. TypeOK'
  <2>1. \A d \in Core : job'[d].closure = Null <=> job'[d].at = "idle"
    BY SMT, <1>2, <1>4, BufferAssumption DEF BufferInv, TypeOK
  <2> QED
    BY <1>4, <1>5, <2>1 DEF BufferInv, TypeOK
<1>8. Kinds'
  BY DEF BufferInv, Kinds
<1>9. Apart'
  <2>1. e \notin Pending /\ \A d \in Core \ {c} : Busy(d) => job[d].closure # e
    BY <1>2, <1>3
  <2>2. \A d \in Core \ {c} : job[d].closure # e
    <3>1. \A d \in Core \ {c} : ~Busy(d) => job[d].closure = Null
      BY DEF BufferInv, TypeOK, Busy
    <3> QED
      BY <1>2, <2>1, <3>1, BufferAssumption
  <2>3. \A d \in Core : Busy(d)' => job'[d].closure \notin Pending'
    BY <1>4, <1>6, <2>1 DEF BufferInv, Apart
  <2>4. \A d, k \in Core : d # k /\ Busy(d)' => job'[d].closure # job'[k].closure
    BY <1>4, <2>2 DEF BufferInv, Apart
  <2> QED
    BY <2>3, <2>4 DEF BufferInv, Apart
<1>10. Called'
  <2>1. Pending \subseteq Closures /\ \A f \in Closures : f.client \in Client
    BY RangeFacts DEF Pending, BufferInv, TypeOK, Semaphores, Closures
  <2>2. \A d \in Core : Busy(d) => job[d].closure.client \in Client
    BY DEF BufferInv, TypeOK, Busy, Closures
  <2>3. \A f \in Pending' : call'[f.client] = Call(f.op, f.value, FALSE)
    BY <1>3, <1>5, <1>6, <2>1 DEF BufferInv, Called
  <2>4. \A d \in Core \ {c} : Busy(d)' =>
          call'[job'[d].closure.client]
            = Call(job'[d].closure.op, job'[d].closure.value, job'[d].at # "queue")
    <3> SUFFICES ASSUME NEW d \in Core \ {c}, Busy(d)'
                 PROVE  call'[job'[d].closure.client]
                          = Call(job'[d].closure.op, job'[d].closure.value, job'[d].at # "queue")
      OBVIOUS
    <3>1. job'[d] = job[d] /\ Busy(d)
      BY <1>4
    <3>2. call'[job[d].closure.client] = call[job[d].closure.client]
      BY <1>3, <1>5, <2>2, <3>1
    <3>3. call[job[d].closure.client]
            = Call(job[d].closure.op, job[d].closure.value, job[d].at # "queue")
      BY <3>1 DEF BufferInv, Called
    <3> QED
      BY <3>1, <3>2, <3>3
  <2>5. (job'[c].at # "queue") = TRUE
    BY <1>4
  <2>6. call'[job'[c].closure.client]
          = Call(job'[c].closure.op, job'[c].closure.value, job'[c].at # "queue")
    BY <1>2, <1>4, <1>5, <2>5
  <2>7. \A q \in Client : call'[q] # Null /\ call'[q].op = "put" => call'[q].value \in Value
    <3>1. call'[p].op = job[c].closure.op /\ call'[p].value = v
      BY SMT, <1>2, <1>5 DEF Call
    <3>2. call'[p].op = "put" => call'[p].value \in Value
      BY <3>1
    <3>3. \A q \in Client \ {p} : call[q] # Null /\ call[q].op = "put" => call[q].value \in Value
      BY DEF BufferInv, Called
    <3> QED
      BY <1>5, <3>2, <3>3
  <2> QED
    BY <2>3, <2>4, <2>6, <2>7 DEF Called
<1> QED
  BY <1>7, <1>8, <1>9, <1>10 DEF BufferInv

(* Every step of the buffer and its closures keeps each closure in one      *)
(* place and in step with its client's call.                                *)
LEMMA BufferKept == BufferInv /\ [Next]_vars => BufferInv'
<1> SUFFICES ASSUME BufferInv, [Next]_vars PROVE BufferInv'
  OBVIOUS
<1>1. ASSUME NEW p \in Client, NEW v \in Value, Put(p, v) PROVE BufferInv'
  BY <1>1, RequestKeeps DEF Put
<1>2. ASSUME NEW p \in Client, Get(p) PROVE BufferInv'
  BY <1>2, RequestKeeps DEF Get
<1>3. ASSUME NEW c \in Core, Take(c) PROVE BufferInv'
  <2> DEFINE e == Head(ready)
  <2>1. /\ e \in Closures /\ e \in Range(ready) /\ ready' \in Seq(Closures)
        /\ Range(ready) = Range(ready') \cup {e}
        /\ IsInjective(ready') /\ e \notin Range(ready')
    BY <1>3, RemoveFacts DEF Take, BufferInv, TypeOK, Apart
  <2> HIDE DEF e
  <2>2. /\ ~Busy(c) /\ Busy(c)'
        /\ job'[c].closure = e /\ job'[c].at = "queue"
        /\ \A d \in Core \ {c} : job'[d] = job[d] /\ Busy(d)' = Busy(d)
        /\ job' \in [Core -> [closure : Closures \cup {Null}, at : {"idle", "queue", "up", "work"}]]
    BY <1>3, <2>1 DEF Take, BufferInv, TypeOK, Job, Busy, e
  <2>3. n_full' = n_full /\ n_empty' = n_empty /\ queue' = queue /\ call' = call
    BY <1>3 DEF Take, buffer
  <2>4. e \notin Pending' /\ Pending = Pending' \cup {e}
    BY <2>1, <2>3 DEF BufferInv, Apart, Pending
  <2>5. TypeOK'
    <3>1. \A d \in Core : job'[d].closure = Null <=> job'[d].at = "idle"
      BY <2>1, <2>2, BufferAssumption DEF BufferInv, TypeOK
    <3> QED
      BY <2>1, <2>2, <2>3, <3>1 DEF BufferInv, TypeOK
  <2>6. Kinds'
    BY <2>3 DEF BufferInv, Kinds
  <2>7. Apart'
    <3>1. \A d \in Core \ {c} : job[d].closure # e
      <4>1. \A d \in Core : ~Busy(d) => job[d].closure = Null
        BY DEF BufferInv, TypeOK, Busy
      <4> QED
        BY <2>1, <2>4, <4>1, BufferAssumption DEF BufferInv, Apart
    <3>2. \A d \in Core : Busy(d)' => job'[d].closure \notin Pending'
      BY <2>2, <2>4 DEF BufferInv, Apart
    <3>3. \A d, k \in Core : d # k /\ Busy(d)' => job'[d].closure # job'[k].closure
      BY SMT, <2>2, <3>1 DEF BufferInv, Apart
    <3> QED
      BY <2>1, <2>3, <3>2, <3>3 DEF BufferInv, Apart
  <2>8. Called'
    <3>1. (job'[c].at # "queue") = FALSE
      BY <2>2
    <3>2. call'[job'[c].closure.client]
            = Call(job'[c].closure.op, job'[c].closure.value, job'[c].at # "queue")
      BY <2>2, <2>3, <2>4, <3>1 DEF BufferInv, Called
    <3>3. ASSUME NEW d \in Core \ {c}, Busy(d)'
          PROVE  call'[job'[d].closure.client]
                   = Call(job'[d].closure.op, job'[d].closure.value, job'[d].at # "queue")
      <4>1. job'[d] = job[d] /\ Busy(d) /\ call' = call
        BY <2>2, <2>3, <3>3
      <4>2. call[job[d].closure.client]
              = Call(job[d].closure.op, job[d].closure.value, job[d].at # "queue")
        BY <4>1 DEF BufferInv, Called
      <4> QED
        BY <4>1, <4>2
    <3>4. /\ \A f \in Pending' : call'[f.client] = Call(f.op, f.value, FALSE)
          /\ \A q \in Client : call'[q] # Null /\ call'[q].op = "put" => call'[q].value \in Value
      BY <2>3, <2>4 DEF BufferInv, Called
    <3> QED
      BY <3>2, <3>3, <3>4 DEF Called
  <2> QED
    BY <2>5, <2>6, <2>7, <2>8 DEF BufferInv
<1>4. ASSUME NEW c \in Core, PutAdd(c) PROVE BufferInv'
  <2>1. Busy(c) /\ job[c].closure.op = "put"
    BY <1>4 DEF PutAdd, At, Busy
  <2>2. job[c].closure.value \in Value
    BY <2>1, PutValue
  <2>3. job[c].closure \in Closures
    BY <2>1, Alone
  <2>4. job' = [job EXCEPT ![c] =
          Job(Closure(job[c].closure.op, job[c].closure.client, job[c].closure.value), "up")]
    <3>1. job[c].closure
            = Closure(job[c].closure.op, job[c].closure.client, job[c].closure.value)
      BY <2>3 DEF Closure, Closures
    <3>2. job' = [job EXCEPT ![c].at = "up"]
      BY <1>4 DEF PutAdd
    <3>3. [job[c] EXCEPT !.at = "up"] = Job(job[c].closure, "up")
      BY SMT DEF BufferInv, TypeOK, Job
    <3> QED
      BY <3>1, <3>2, <3>3
  <2>5. /\ call' = [call EXCEPT ![job[c].closure.client]
                     = Call(job[c].closure.op, job[c].closure.value, TRUE)]
        /\ queue' \in Seq(Value)
        /\ UNCHANGED <<n_full, n_empty, ready>>
    BY SMT, <1>4, <2>1, <2>2 DEF PutAdd, BufferInv, TypeOK
  <2> QED
    BY <2>1, <2>2, <2>4, <2>5, RunKeeps
<1>5. ASSUME NEW c \in Core, PutUp(c) PROVE BufferInv'
  BY <1>5, UpKeeps DEF PutUp, At
<1>6. ASSUME NEW c \in Core, GetRemove(c) PROVE BufferInv'
  <2> DEFINE v == IF queue = << >> THEN Null ELSE Head(queue)
  <2>1. Busy(c) /\ job[c].closure.op = "get"
    BY <1>6 DEF GetRemove, At, Busy
  <2>2. job[c].closure \in Closures
    BY <2>1, Alone
  <2>3. v \in Value \cup {Null}
    BY RemoveFacts DEF BufferInv, TypeOK
  <2>4. /\ job' = [job EXCEPT ![c] = Job([@.closure EXCEPT !.value = v], "up")]
        /\ call' = [call EXCEPT ![job[c].closure.client] = Call("get", v, TRUE)]
        /\ queue' = IF queue = << >> THEN queue ELSE Tail(queue)
        /\ UNCHANGED <<n_full, n_empty, ready>>
    BY <1>6 DEF GetRemove
  <2> HIDE DEF v
  <2>5. [job[c].closure EXCEPT !.value = v]
          = Closure(job[c].closure.op, job[c].closure.client, v)
    BY SMT, <2>2 DEF Closure, Closures
  <2>6. queue' \in Seq(Value)
    BY <2>4, RemoveFacts DEF BufferInv, TypeOK
  <2> QED
    BY <2>1, <2>3, <2>4, <2>5, <2>6, RunKeeps
<1>7. ASSUME NEW c \in Core, GetUp(c) PROVE BufferInv'
  BY <1>7, UpKeeps DEF GetUp, At
<1>8. ASSUME NEW c \in Core, Work(c) PROVE BufferInv'
  <2> DEFINE p == job[c].closure.client
  <2>1. Busy(c)
    BY <1>8 DEF Work, Busy
  <2>2. p \in Client
    BY <2>1, Alone DEF Closures
  <2>3. /\ \A f \in Pending : f.client # p
        /\ \A d \in Core \ {c} : Busy(d) => job[d].closure.client # p
    BY <2>1, Alone
  <2> HIDE DEF p
  <2>4. /\ job'[c].closure = Null /\ job'[c].at = "idle" /\ ~Busy(c)'
        /\ \A d \in Core \ {c} : job'[d] = job[d] /\ Busy(d)' = Busy(d)
        /\ job' \in [Core -> [closure : Closures \cup {Null}, at : {"idle", "queue", "up", "work"}]]
    BY <1>8 DEF Work, NoJob, BufferInv, TypeOK, Busy
  <2>5. /\ \A q \in Client \ {p} : call'[q] = call[q]
        /\ call'[p] = Null
        /\ call' \in [Client -> Calls \cup {Null}]
    BY <1>8, <2>2 DEF Work, BufferInv, TypeOK, p
  <2>6. n_full' = n_full /\ n_empty' = n_empty /\ queue' = queue /\ ready' = ready
    BY <1>8 DEF Work, buffer
  <2>7. Pending' = Pending
    BY <2>6 DEF Pending
  <2>8. TypeOK'
    BY <2>4, <2>5, <2>6 DEF BufferInv, TypeOK
  <2>9. Kinds'
    BY <2>6 DEF BufferInv, Kinds
  <2>10. Apart'
    <3>1. \A d \in Core : Busy(d) => job[d].closure # Null
      BY DEF BufferInv, TypeOK, Busy
    <3>2. \A d, k \in Core : d # k /\ Busy(d)' => job'[d].closure # job'[k].closure
      BY SMT, <2>4, <3>1 DEF BufferInv, Apart
    <3> QED
      BY <2>4, <2>6, <2>7, <3>2 DEF BufferInv, Apart
  <2>11. Called'
    <3>1. Pending \subseteq Closures /\ \A f \in Closures : f.client \in Client
      BY RangeFacts DEF Pending, BufferInv, TypeOK, Semaphores, Closures
    <3>2. \A d \in Core : Busy(d) => job[d].closure.client \in Client
      BY DEF BufferInv, TypeOK, Busy, Closures
    <3>3. \A f \in Pending' : call'[f.client] = Call(f.op, f.value, FALSE)
      BY <2>3, <2>5, <2>7, <3>1 DEF BufferInv, Called
    <3>4. ASSUME NEW d \in Core, Busy(d)'
          PROVE  call'[job'[d].closure.client]
                   = Call(job'[d].closure.op, job'[d].closure.value, job'[d].at # "queue")
      <4>1. d # c /\ job'[d] = job[d] /\ Busy(d)
        BY <2>4, <3>4
      <4>2. call'[job[d].closure.client] = call[job[d].closure.client]
        BY <2>3, <2>5, <3>2, <4>1
      <4>3. call[job[d].closure.client]
              = Call(job[d].closure.op, job[d].closure.value, job[d].at # "queue")
        BY <4>1 DEF BufferInv, Called
      <4> QED
        BY <4>1, <4>2, <4>3
    <3>5. \A q \in Client : call'[q] # Null /\ call'[q].op = "put" => call'[q].value \in Value
      BY <2>5 DEF BufferInv, Called
    <3> QED
      BY <3>3, <3>4, <3>5 DEF Called
  <2> QED
    BY <2>8, <2>9, <2>10, <2>11 DEF BufferInv
<1>9. CASE UNCHANGED vars
  BY <1>9 DEF vars, buffer, BufferInv, TypeOK, Kinds, Apart, Called, Pending, Busy
<1> QED
  BY <1>1, <1>2, <1>3, <1>4, <1>5, <1>6, <1>7, <1>8, <1>9 DEF Next, Request, Step

(* Waiting, ready and running closures stay apart, and each is that of its  *)
(* client's call.                                                           *)
THEOREM BufferCorrect == Spec => []BufferInv
BY BufferInit, BufferKept, PTL DEF Spec

CountInv == IsFiniteSet(Granted("put")) /\ IsFiniteSet(Granted("get")) /\ Places

(* Initially all places are free and announced.                             *)
LEMMA CountInit == Init => CountInv
<1> SUFFICES ASSUME Init PROVE CountInv
  OBVIOUS
<1>1. \A op : Granted(op) = {} /\ AtUp(op) = {}
  BY EmptyFacts DEF Init, Granted, AtUp, At, NoJob
<1>2. Len(queue) = 0 /\ n_full.count = 0 /\ n_empty.count = Size
  BY DEF Init
<1>3. IsFiniteSet({}) /\ Cardinality({}) = 0 /\ Size \in Nat
  BY FS_EmptySet, BufferAssumption
<1>4. \A op : Cardinality(Granted(op)) = 0 /\ Cardinality(AtUp(op)) = 0 /\ IsFiniteSet(Granted(op))
  BY <1>1, <1>3, Zenon
<1> QED
  BY SMT, <1>2, <1>3, <1>4 DEF CountInv, Places

(* The sets that Places counts are finite.                                  *)
LEMMA Counts ==
  ASSUME BufferInv, CountInv
  PROVE  /\ \A op \in {"put", "get"} :
              /\ IsFiniteSet(Granted(op)) /\ Cardinality(Granted(op)) \in Nat
              /\ IsFiniteSet(AtUp(op)) /\ Cardinality(AtUp(op)) \in Nat
         /\ n_full.count \in Nat /\ n_empty.count \in Nat
         /\ Len(queue) \in Nat /\ Size \in Nat
<1>1. \A op : AtUp(op) \subseteq Core
  BY DEF AtUp
<1>2. \A op : IsFiniteSet(AtUp(op))
  BY <1>1, FS_Subset, BufferAssumption
<1>3. \A op \in {"put", "get"} : IsFiniteSet(Granted(op))
  BY DEF CountInv
<1> QED
  BY SMT, <1>2, <1>3, FS_CardinalityType, BufferAssumption DEF BufferInv, TypeOK, Semaphores

(* A granted closure that touches the queue gives up its unit.              *)
LEMMA QueueMove ==
  ASSUME BufferInv, NEW c \in Core, NEW op \in {"put", "get"}, At(c, op, "queue"),
         \A d \in Core \ {c} : job'[d] = job[d],
         job'[c].at = "up", job'[c].closure.op = op, ready' = ready
  PROVE  /\ job[c].closure \in Granted(op)
         /\ Granted(op)' = Granted(op) \ {job[c].closure}
         /\ c \notin AtUp(op) /\ AtUp(op)' = AtUp(op) \cup {c}
         /\ \A o \in {"put", "get"} \ {op} : Granted(o)' = Granted(o) /\ AtUp(o)' = AtUp(o)
<1>1. Busy(c) /\ job[c].closure.op = op
  BY DEF At, Busy
<1>2. job[c].closure \notin Range(ready)
  BY <1>1 DEF BufferInv, Apart, Pending
<1>3. \A d \in Core \ {c} : job[d].closure # job[c].closure
  BY <1>1 DEF BufferInv, Apart
<1>4. job[c].closure \in Granted(op)
  BY DEF Granted
<1>5. Granted(op)' = Granted(op) \ {job[c].closure}
  BY SMT, <1>2, <1>3 DEF Granted, At
<1>6. \A o \in {"put", "get"} \ {op} : Granted(o)' = Granted(o)
  BY SMT, <1>1 DEF Granted, At
<1>7. /\ c \notin AtUp(op) /\ AtUp(op)' = AtUp(op) \cup {c}
      /\ \A o \in {"put", "get"} \ {op} : AtUp(o)' = AtUp(o)
  BY <1>1 DEF AtUp, At
<1> QED
  BY <1>4, <1>5, <1>6, <1>7

(* up passes on the place: as a unit, or to the closure that waited for it. *)
LEMMA UpMove ==
  ASSUME BufferInv, NEW c \in Core, NEW op \in {"put", "get"}, At(c, op, "up"),
         job' = [job EXCEPT ![c].at = "work"],
         NEW s \in {n_full, n_empty}, NEW o \in {"put", "get"},
         \A e \in Range(s.waiting) : e.op = o,
         ready' = UpReady(s)
  PROVE  /\ c \in AtUp(op) /\ AtUp(op)' = AtUp(op) \ {c}
         /\ \A x \in {"put", "get"} \ {op} : AtUp(x)' = AtUp(x)
         /\ \A x \in {"put", "get"} \ {o} : Granted(x)' = Granted(x)
         /\ \/ Granted(o)' = Granted(o) /\ Up(s).count = s.count + 1
            \/ /\ \E h : h \notin Granted(o) /\ Granted(o)' = Granted(o) \cup {h}
               /\ Up(s).count = s.count
<1>1. /\ s \in Semaphores /\ ready \in Seq(Closures)
      /\ IsInjective(s.waiting) /\ IsInjective(ready)
      /\ Range(s.waiting) \cap Range(ready) = {}
      /\ Range(s.waiting) \subseteq Pending
  BY DEF BufferInv, TypeOK, Apart, Pending
<1>2. /\ job[c].at = "up" /\ job'[c].at = "work" /\ job[c].closure.op = op
      /\ \A d \in Core \ {c} : job'[d] = job[d]
  BY DEF BufferInv, TypeOK, At
<1>3. /\ c \in AtUp(op) /\ AtUp(op)' = AtUp(op) \ {c}
      /\ \A x \in {"put", "get"} \ {op} : AtUp(x)' = AtUp(x)
  BY <1>2 DEF AtUp, At
<1>4. \A x : {job'[k].closure : k \in {k \in Core : At(k, x, "queue")'}}
               = {job[k].closure : k \in {k \in Core : At(k, x, "queue")}}
  BY SMT, <1>2 DEF At
<1>5. CASE Range(ready') = Range(ready) /\ Up(s).count = s.count + 1
  BY <1>3, <1>4, <1>5 DEF Granted
<1>6. ASSUME NEW h \in Range(s.waiting), Range(ready') = Range(ready) \cup {h},
             Up(s).count = s.count
      PROVE  /\ h \notin Granted(o) /\ Granted(o)' = Granted(o) \cup {h}
             /\ \A x \in {"put", "get"} \ {o} : Granted(x)' = Granted(x)
  <2>1. h \in Pending /\ h \notin Range(ready) /\ h.op = o
    BY <1>1, <1>6
  <2>2. \A k \in Core : At(k, o, "queue") => job[k].closure # h
    BY <2>1 DEF BufferInv, Apart, At, Busy
  <2>3. h \notin Granted(o)
    BY <2>1, <2>2 DEF Granted
  <2>4. \A x \in {"put", "get"} :
          {e \in Range(ready') : e.op = x}
            = {e \in Range(ready) : e.op = x} \cup (IF x = o THEN {h} ELSE {})
    BY <1>6, <2>1
  <2>5. \A x \in {"put", "get"} : Granted(x)' = Granted(x) \cup (IF x = o THEN {h} ELSE {})
    <3> TAKE x \in {"put", "get"}
    <3>1. {e \in Range(ready') : e.op = x}
            = {e \in Range(ready) : e.op = x} \cup (IF x = o THEN {h} ELSE {})
      BY <2>4
    <3>2. {job'[k].closure : k \in {k \in Core : At(k, x, "queue")'}}
            = {job[k].closure : k \in {k \in Core : At(k, x, "queue")}}
      BY <1>4
    <3> QED
      BY <3>1, <3>2 DEF Granted
  <2> QED
    BY <2>3, <2>5
<1> QED
  BY <1>1, <1>3, <1>5, <1>6, UpPlace

(* down grants a unit to its closure, or makes it wait.                     *)
LEMMA DownMove ==
  ASSUME BufferInv, NEW p \in Client, call[p] = Null,
         NEW op \in {"put", "get"}, NEW v \in Value \cup {Null},
         NEW s \in {n_full, n_empty},
         job' = job, ready' = DownReady(s, Closure(op, p, v))
  PROVE  /\ \A x \in {"put", "get"} : AtUp(x)' = AtUp(x)
         /\ \A x \in {"put", "get"} \ {op} : Granted(x)' = Granted(x)
         /\ \/ Granted(op)' = Granted(op) /\ Down(s, Closure(op, p, v)).count = s.count
            \/ /\ \E e : e \notin Granted(op) /\ Granted(op)' = Granted(op) \cup {e}
               /\ Down(s, Closure(op, p, v)).count = s.count - 1
<1> DEFINE e == Closure(op, p, v)
<1>1. e \in Closures /\ e.op = op /\ e.client = p
  BY DEF Closure, Closures
<1> HIDE DEF e
<1>2. e \notin Pending /\ \A c \in Core : Busy(c) => job[c].closure # e
  BY <1>1, Fresh
<1>3. /\ s \in Semaphores /\ ready \in Seq(Closures)
      /\ IsInjective(s.waiting) /\ IsInjective(ready)
      /\ e \notin Range(s.waiting) /\ e \notin Range(ready)
  BY <1>2 DEF BufferInv, TypeOK, Apart, Pending
<1>4. ready' = DownReady(s, e)
  BY DEF e
<1>5. \/ Range(ready') = Range(ready) \cup {e} /\ Down(s, e).count = s.count - 1
      \/ Range(ready') = Range(ready) /\ Down(s, e).count = s.count
  BY SMT, <1>1, <1>3, <1>4, DownPlace
<1>6. \A x : AtUp(x)' = AtUp(x)
  BY DEF AtUp, At
<1>7. \A x \in {"put", "get"} :
        {job'[k].closure : k \in {k \in Core : At(k, x, "queue")'}}
          = {job[k].closure : k \in {k \in Core : At(k, x, "queue")}}
  BY DEF At
<1>8. e \notin Granted(op)
  BY <1>2, <1>3 DEF Granted, At, Busy
<1>9. CASE Range(ready') = Range(ready) \cup {e} /\ Down(s, e).count = s.count - 1
  <2>1. \A x \in {"put", "get"} : Granted(x)' = Granted(x) \cup (IF x = op THEN {e} ELSE {})
    <3> TAKE x \in {"put", "get"}
    <3>1. {f \in Range(ready') : f.op = x}
            = {f \in Range(ready) : f.op = x} \cup (IF x = op THEN {e} ELSE {})
      BY <1>1, <1>9
    <3>2. {job'[k].closure : k \in {k \in Core : At(k, x, "queue")'}}
            = {job[k].closure : k \in {k \in Core : At(k, x, "queue")}}
      BY <1>7
    <3> QED
      BY <3>1, <3>2 DEF Granted
  <2> QED
    BY <1>6, <1>8, <1>9, <2>1 DEF e
<1>10. CASE Range(ready') = Range(ready) /\ Down(s, e).count = s.count
  <2>1. \A x \in {"put", "get"} : Granted(x)' = Granted(x)
    BY <1>7, <1>10 DEF Granted
  <2> QED
    BY <1>6, <1>10, <2>1 DEF e
<1> QED
  BY <1>5, <1>9, <1>10

(* GetRemove changes only the running closure's value.                      *)
LEMMA GetJob ==
  ASSUME BufferInv, NEW c \in Core, GetRemove(c)
  PROVE  /\ job'[c].at = "up" /\ job'[c].closure.op = "get"
         /\ job'[c].closure.client = job[c].closure.client
         /\ \A d \in Core \ {c} : job'[d] = job[d]
<1> DEFINE v == IF queue = << >> THEN Null ELSE Head(queue)
<1>1. job[c].closure \in Closures /\ job[c].closure.op = "get"
  BY Alone DEF GetRemove, At, Busy
<1>2. job' = [job EXCEPT ![c] = Job([@.closure EXCEPT !.value = v], "up")]
  BY DEF GetRemove
<1> HIDE DEF v
<1>3. job'[c] = Job([job[c].closure EXCEPT !.value = v], "up")
      /\ \A d \in Core \ {c} : job'[d] = job[d]
  BY <1>2 DEF BufferInv, TypeOK
<1> QED
  BY SMT, <1>1, <1>3 DEF Job, Closures

(* One element more, one element less.                                      *)
LEMMA OneMore ==
  ASSUME NEW S, NEW T, IsFiniteSet(S), \E x : x \notin S /\ T = S \cup {x}
  PROVE  IsFiniteSet(T) /\ Cardinality(T) = Cardinality(S) + 1
<1>1. PICK x : x \notin S /\ T = S \cup {x}
  OBVIOUS
<1> QED
  BY <1>1, FS_AddElement

(* Removing an element makes a set one smaller.                             *)
LEMMA OneLess ==
  ASSUME NEW S, NEW T, IsFiniteSet(S), \E x : x \in S /\ T = S \ {x}
  PROVE  IsFiniteSet(T) /\ Cardinality(T) = Cardinality(S) - 1
<1>1. PICK x : x \in S /\ T = S \ {x}
  OBVIOUS
<1> QED
  BY <1>1, FS_RemoveElement

(* Each step keeps the books: what one side of Places loses, another term   *)
(* of it gains.                                                             *)
LEMMA CountStep == BufferInv /\ CountInv /\ [Next]_vars => CountInv'
<1> SUFFICES ASSUME BufferInv, CountInv, [Next]_vars PROVE CountInv'
  OBVIOUS
<1> DEFINE GP == Cardinality(Granted("put"))
           GG == Cardinality(Granted("get"))
           UP == Cardinality(AtUp("put"))
           UG == Cardinality(AtUp("get"))
           F == n_full.count
           E == n_empty.count
           L == Len(queue)
<1>a. /\ GP \in Nat /\ GG \in Nat /\ UP \in Nat /\ UG \in Nat
      /\ F \in Nat /\ E \in Nat /\ L \in Nat /\ Size \in Nat
      /\ L = F + GG + UP
      /\ Size - L = E + GP + UG
  BY Counts DEF CountInv, Places
<1>b. /\ IsFiniteSet(Granted("put")) /\ IsFiniteSet(Granted("get"))
      /\ IsFiniteSet(AtUp("put")) /\ IsFiniteSet(AtUp("get"))
  BY Counts
<1>c. ASSUME IsFiniteSet(Granted("put")'), IsFiniteSet(Granted("get")'),
             L' = F' + GG' + UP', Size - L' = E' + GP' + UG'
      PROVE  CountInv'
  BY <1>c DEF CountInv, Places
<1>d. ASSUME \A x \in {"put", "get"} : Granted(x)' = Granted(x) /\ AtUp(x)' = AtUp(x),
             UNCHANGED buffer
      PROVE  CountInv'
  BY <1>d DEF CountInv, Places, buffer
<1> HIDE DEF GP, GG, UP, UG, F, E, L
<1>1. ASSUME NEW p \in Client, NEW v \in Value, Put(p, v) PROVE CountInv'
  <2> DEFINE e == Closure("put", p, v)
  <2>1. /\ call[p] = Null /\ job' = job /\ n_full' = n_full /\ queue' = queue
        /\ n_empty' = Down(n_empty, e) /\ ready' = DownReady(n_empty, e)
    BY <1>1 DEF Put
  <2>a. F' = F /\ L' = L
    BY <2>1 DEF F, E, L
  <2>2. /\ AtUp("put")' = AtUp("put") /\ AtUp("get")' = AtUp("get")
        /\ Granted("get")' = Granted("get")
        /\ \/ Granted("put")' = Granted("put") /\ n_empty'.count = n_empty.count
           \/ /\ \E f : f \notin Granted("put") /\ Granted("put")' = Granted("put") \cup {f}
              /\ n_empty'.count = n_empty.count - 1
    BY <2>1, DownMove
  <2>3. GG' = GG /\ UP' = UP /\ UG' = UG
    BY <2>2 DEF GG, UP, UG
  <2>4. CASE Granted("put")' = Granted("put") /\ n_empty'.count = n_empty.count
    <3>1. GP' = GP
      BY <2>4 DEF GP
    <3>2. E' = E
      BY <2>4 DEF E
    <3>3. L' = F' + GG' + UP' /\ Size - L' = E' + GP' + UG'
      BY <1>a, <2>a, <2>3, <3>1, <3>2
    <3> QED
      BY <1>b, <1>c, <2>2, <2>4, <2>3, <3>1, <3>3
  <2>5. CASE /\ \E f : f \notin Granted("put") /\ Granted("put")' = Granted("put") \cup {f}
             /\ n_empty'.count = n_empty.count - 1
    <3>1. IsFiniteSet(Granted("put")') /\ GP' = GP + 1
      BY <1>b, <2>5, OneMore DEF GP
    <3>2. E' = E - 1
      BY <2>5 DEF E
    <3>3. L' = F' + GG' + UP' /\ Size - L' = E' + GP' + UG'
      BY SMT, <1>a, <2>a, <2>3, <3>1, <3>2
    <3> QED
      BY <1>b, <1>c, <2>2, <2>5, <2>3, <3>1, <3>3
  <2> QED
    BY <2>2, <2>4, <2>5
<1>2. ASSUME NEW p \in Client, Get(p) PROVE CountInv'
  <2> DEFINE e == Closure("get", p, Null)
  <2>1. /\ call[p] = Null /\ job' = job /\ n_empty' = n_empty /\ queue' = queue
        /\ n_full' = Down(n_full, e) /\ ready' = DownReady(n_full, e)
    BY <1>2 DEF Get
  <2>a. E' = E /\ L' = L
    BY <2>1 DEF F, E, L
  <2>2. /\ AtUp("put")' = AtUp("put") /\ AtUp("get")' = AtUp("get")
        /\ Granted("put")' = Granted("put")
        /\ \/ Granted("get")' = Granted("get") /\ n_full'.count = n_full.count
           \/ /\ \E f : f \notin Granted("get") /\ Granted("get")' = Granted("get") \cup {f}
              /\ n_full'.count = n_full.count - 1
    BY <2>1, DownMove
  <2>3. GP' = GP /\ UP' = UP /\ UG' = UG
    BY <2>2 DEF GP, UP, UG
  <2>4. CASE Granted("get")' = Granted("get") /\ n_full'.count = n_full.count
    <3>1. GG' = GG
      BY <2>4 DEF GG
    <3>2. F' = F
      BY <2>4 DEF F
    <3>3. L' = F' + GG' + UP' /\ Size - L' = E' + GP' + UG'
      BY <1>a, <2>a, <2>3, <3>1, <3>2
    <3> QED
      BY <1>b, <1>c, <2>2, <2>4, <2>3, <3>1, <3>3
  <2>5. CASE /\ \E f : f \notin Granted("get") /\ Granted("get")' = Granted("get") \cup {f}
             /\ n_full'.count = n_full.count - 1
    <3>1. IsFiniteSet(Granted("get")') /\ GG' = GG + 1
      BY <1>b, <2>5, OneMore DEF GG
    <3>2. F' = F - 1
      BY <2>5 DEF F
    <3>3. L' = F' + GG' + UP' /\ Size - L' = E' + GP' + UG'
      BY SMT, <1>a, <2>a, <2>3, <3>1, <3>2
    <3> QED
      BY <1>b, <1>c, <2>2, <2>5, <2>3, <3>1, <3>3
  <2> QED
    BY <2>2, <2>4, <2>5
<1>3. ASSUME NEW c \in Core, Take(c) PROVE CountInv'
  <2> DEFINE e == Head(ready)
  <2>1. Range(ready) = Range(ready') \cup {e}
    BY <1>3, RemoveFacts DEF Take, BufferInv, TypeOK
  <2>2. /\ job[c].at = "idle" /\ job'[c].at = "queue" /\ job'[c].closure = e
        /\ \A d \in Core \ {c} : job'[d] = job[d]
    BY <1>3 DEF Take, BufferInv, TypeOK, Job
  <2> HIDE DEF e
  <2>3. \A x \in {"put", "get"} : Granted(x)' = Granted(x) /\ AtUp(x)' = AtUp(x)
    BY SMT, <2>1, <2>2 DEF Granted, AtUp, At
  <2> QED
    BY <1>3, <1>d, <2>3 DEF Take
<1>4. ASSUME NEW c \in Core, PutAdd(c) PROVE CountInv'
  <2>1. /\ At(c, "put", "queue") /\ ready' = ready
        /\ n_full' = n_full /\ n_empty' = n_empty /\ Len(queue') = Len(queue) + 1
        /\ job'[c].at = "up" /\ job'[c].closure.op = "put"
        /\ \A d \in Core \ {c} : job'[d] = job[d]
    BY SMT, <1>4 DEF PutAdd, At, BufferInv, TypeOK
  <2>a. /\ F' = F /\ E' = E
        /\ L' = L + 1
    BY <2>1 DEF F, E, L
  <2>2. /\ job[c].closure \in Granted("put")
        /\ Granted("put")' = Granted("put") \ {job[c].closure}
        /\ c \notin AtUp("put") /\ AtUp("put")' = AtUp("put") \cup {c}
        /\ Granted("get")' = Granted("get") /\ AtUp("get")' = AtUp("get")
    BY <2>1, QueueMove
  <2>3. IsFiniteSet(Granted("put")') /\ GP' = GP - 1
    BY <1>b, <2>2, OneLess DEF GP
  <2>4. UP' = UP + 1
    BY <1>b, <2>2, OneMore DEF UP
  <2>5. GG' = GG /\ UG' = UG
    BY <2>2 DEF GG, UG
  <2>e. L' = F' + GG' + UP' /\ Size - L' = E' + GP' + UG'
    BY SMT, <1>a, <2>a, <2>3, <2>4, <2>5
  <2> QED
    BY <1>b, <1>c, <2>2, <2>3, <2>4, <2>e
<1>5. ASSUME NEW c \in Core, PutUp(c) PROVE CountInv'
  <2>1. /\ At(c, "put", "up") /\ job' = [job EXCEPT ![c].at = "work"]
        /\ n_full' = Up(n_full) /\ ready' = UpReady(n_full)
        /\ n_empty' = n_empty /\ queue' = queue
        /\ \A e \in Range(n_full.waiting) : e.op = "get"
    BY <1>5 DEF PutUp, BufferInv, Kinds
  <2>a. E' = E /\ L' = L
    BY <2>1 DEF F, E, L
  <2>2. /\ c \in AtUp("put") /\ AtUp("put")' = AtUp("put") \ {c}
        /\ AtUp("get")' = AtUp("get") /\ Granted("put")' = Granted("put")
        /\ \/ Granted("get")' = Granted("get") /\ n_full'.count = n_full.count + 1
           \/ /\ \E h : h \notin Granted("get") /\ Granted("get")' = Granted("get") \cup {h}
              /\ n_full'.count = n_full.count
    BY <2>1, UpMove
  <2>3. GP' = GP /\ UG' = UG
    BY <2>2 DEF GP, UG
  <2>4. UP' = UP - 1
    BY <1>b, <2>2, OneLess DEF UP
  <2>5. CASE Granted("get")' = Granted("get") /\ n_full'.count = n_full.count + 1
    <3>1. GG' = GG
      BY <2>5 DEF GG
    <3>2. F' = F + 1
      BY <2>5 DEF F
    <3>3. L' = F' + GG' + UP' /\ Size - L' = E' + GP' + UG'
      BY SMT, <1>a, <2>a, <2>3, <2>4, <3>1, <3>2
    <3> QED
      BY <1>b, <1>c, <2>2, <2>5, <2>3, <2>4, <3>1, <3>3
  <2>6. CASE /\ \E h : h \notin Granted("get") /\ Granted("get")' = Granted("get") \cup {h}
             /\ n_full'.count = n_full.count
    <3>1. IsFiniteSet(Granted("get")') /\ GG' = GG + 1
      BY <1>b, <2>6, OneMore DEF GG
    <3>2. F' = F
      BY <2>6 DEF F
    <3>3. L' = F' + GG' + UP' /\ Size - L' = E' + GP' + UG'
      BY SMT, <1>a, <2>a, <2>3, <2>4, <3>1, <3>2
    <3> QED
      BY <1>b, <1>c, <2>2, <2>6, <2>3, <2>4, <3>1, <3>3
  <2> QED
    BY <2>2, <2>5, <2>6
<1>6. ASSUME NEW c \in Core, GetRemove(c) PROVE CountInv'
  <2>1. /\ At(c, "get", "queue") /\ ready' = ready
        /\ n_full' = n_full /\ n_empty' = n_empty
        /\ queue' = IF queue = << >> THEN queue ELSE Tail(queue)
    BY <1>6 DEF GetRemove
  <2>a. F' = F /\ E' = E
    BY <2>1 DEF F, E, L
  <2>2. /\ job'[c].at = "up" /\ job'[c].closure.op = "get"
        /\ \A d \in Core \ {c} : job'[d] = job[d]
    BY <1>6, GetJob
  <2>3. /\ job[c].closure \in Granted("get")
        /\ Granted("get")' = Granted("get") \ {job[c].closure}
        /\ c \notin AtUp("get") /\ AtUp("get")' = AtUp("get") \cup {c}
        /\ Granted("put")' = Granted("put") /\ AtUp("put")' = AtUp("put")
    BY <2>1, <2>2, QueueMove
  <2>4. /\ IsFiniteSet(Granted("get")') /\ GG' = GG - 1
        /\ GG' \in Nat
    BY <1>b, <2>3, OneLess, FS_CardinalityType DEF GG
  <2>5. L > 0
    BY SMT, <1>a, <2>4
  <2>6. UG' = UG + 1
    BY <1>b, <2>3, OneMore DEF UG
  <2>7. GP' = GP /\ UP' = UP
    BY <2>3 DEF GP, UP
  <2>8. L' = L - 1
    BY SMT, <2>1, <2>5 DEF BufferInv, TypeOK, L
  <2>e. L' = F' + GG' + UP' /\ Size - L' = E' + GP' + UG'
    BY SMT, <1>a, <2>a, <2>4, <2>6, <2>7, <2>8
  <2> QED
    BY <1>b, <1>c, <2>3, <2>4, <2>e
<1>7. ASSUME NEW c \in Core, GetUp(c) PROVE CountInv'
  <2>1. /\ At(c, "get", "up") /\ job' = [job EXCEPT ![c].at = "work"]
        /\ n_empty' = Up(n_empty) /\ ready' = UpReady(n_empty)
        /\ n_full' = n_full /\ queue' = queue
        /\ \A e \in Range(n_empty.waiting) : e.op = "put"
    BY <1>7 DEF GetUp, BufferInv, Kinds
  <2>a. F' = F /\ L' = L
    BY <2>1 DEF F, E, L
  <2>2. /\ c \in AtUp("get") /\ AtUp("get")' = AtUp("get") \ {c}
        /\ AtUp("put")' = AtUp("put") /\ Granted("get")' = Granted("get")
        /\ \/ Granted("put")' = Granted("put") /\ n_empty'.count = n_empty.count + 1
           \/ /\ \E h : h \notin Granted("put") /\ Granted("put")' = Granted("put") \cup {h}
              /\ n_empty'.count = n_empty.count
    BY <2>1, UpMove
  <2>3. GG' = GG /\ UP' = UP
    BY <2>2 DEF GG, UP
  <2>4. UG' = UG - 1
    BY <1>b, <2>2, OneLess DEF UG
  <2>5. CASE Granted("put")' = Granted("put") /\ n_empty'.count = n_empty.count + 1
    <3>1. GP' = GP
      BY <2>5 DEF GP
    <3>2. E' = E + 1
      BY <2>5 DEF E
    <3>3. L' = F' + GG' + UP' /\ Size - L' = E' + GP' + UG'
      BY SMT, <1>a, <2>a, <2>3, <2>4, <3>1, <3>2
    <3> QED
      BY <1>b, <1>c, <2>2, <2>5, <2>3, <2>4, <3>1, <3>3
  <2>6. CASE /\ \E h : h \notin Granted("put") /\ Granted("put")' = Granted("put") \cup {h}
             /\ n_empty'.count = n_empty.count
    <3>1. IsFiniteSet(Granted("put")') /\ GP' = GP + 1
      BY <1>b, <2>6, OneMore DEF GP
    <3>2. E' = E
      BY <2>6 DEF E
    <3>3. L' = F' + GG' + UP' /\ Size - L' = E' + GP' + UG'
      BY SMT, <1>a, <2>a, <2>3, <2>4, <3>1, <3>2
    <3> QED
      BY <1>b, <1>c, <2>2, <2>6, <2>3, <2>4, <3>1, <3>3
  <2> QED
    BY <2>2, <2>5, <2>6
<1>8. ASSUME NEW c \in Core, Work(c) PROVE CountInv'
  <2>1. /\ job[c].at = "work" /\ job'[c].at = "idle" /\ ready' = ready
        /\ \A d \in Core \ {c} : job'[d] = job[d]
    BY <1>8 DEF Work, BufferInv, TypeOK, NoJob
  <2>2. \A x \in {"put", "get"} : Granted(x)' = Granted(x) /\ AtUp(x)' = AtUp(x)
    BY SMT, <2>1 DEF Granted, AtUp, At
  <2> QED
    BY <1>8, <1>d, <2>2 DEF Work
<1>9. CASE UNCHANGED vars
  BY <1>9, <1>d DEF vars, Granted, AtUp, At
<1> QED
  BY <1>1, <1>2, <1>3, <1>4, <1>5, <1>6, <1>7, <1>8, <1>9 DEF Next, Request, Step

(* Places are never lost or invented: the closures that hold a unit and the *)
(* ups still to come make up what the semaphores do not show.               *)
THEOREM PlacesHold == Spec => []Places
BY CountInit, CountStep, BufferCorrect, PTL DEF Spec, CountInv

(* What a closure that is about to touch the queue knows: its client's call *)
(* is not done, and there is room or a value for it.                        *)
LEMMA HasPlace ==
  ASSUME BufferInv, CountInv, NEW c \in Core, NEW op \in {"put", "get"}, At(c, op, "queue")
  PROVE  /\ job[c].closure.client \in Client
         /\ call[job[c].closure.client] = Call(op, job[c].closure.value, FALSE)
         /\ call[job[c].closure.client] # Null
         /\ op = "put" => Len(queue) < Size
         /\ op = "get" => queue # << >>
<1>1. Busy(c) /\ job[c].at = "queue" /\ job[c].closure.op = op
  BY DEF At, Busy
<1>2. job[c].closure.client \in Client
  BY <1>1, Alone DEF Closures
<1>3. call[job[c].closure.client] # Null
  BY <1>1, <1>2, Fresh
<1>4. (job[c].at # "queue") = FALSE
  BY <1>1
<1>5. call[job[c].closure.client] = Call(op, job[c].closure.value, FALSE)
  BY <1>1, <1>4 DEF BufferInv, Called
<1>6. job[c].closure \in Granted(op)
  BY DEF Granted
<1>7. IsFiniteSet(Granted(op)) /\ Cardinality(Granted(op)) \in Nat
  BY Counts
<1>8. Cardinality(Granted(op)) > 0
  <2>1. \A S : IsFiniteSet(S) => (Cardinality(S) = 0 <=> S = {})
    BY FS_EmptySet
  <2>2. Cardinality(Granted(op)) # 0
    BY <1>6, <1>7, <2>1
  <2> QED
    BY SMT, <1>7, <2>2
<1>9. /\ Len(queue) \in Nat /\ Size \in Nat
      /\ op = "get" => Len(queue) > 0
      /\ op = "put" => Len(queue) < Size
  <2> DEFINE GP == Cardinality(Granted("put"))
             GG == Cardinality(Granted("get"))
             UP == Cardinality(AtUp("put"))
             UG == Cardinality(AtUp("get"))
             L == Len(queue)
  <2>1. /\ GP \in Nat /\ GG \in Nat /\ UP \in Nat /\ UG \in Nat /\ L \in Nat /\ Size \in Nat
        /\ n_full.count \in Nat /\ n_empty.count \in Nat
        /\ L = n_full.count + GG + UP /\ Size - L = n_empty.count + GP + UG
    BY Counts DEF CountInv, Places
  <2>2. (op = "get" => GG > 0) /\ (op = "put" => GP > 0)
    BY <1>8
  <2> HIDE DEF GP, GG, UP, UG, L
  <2>3. L \in Nat /\ Size \in Nat /\ (op = "get" => L > 0) /\ (op = "put" => L < Size)
    BY SMT, <2>1, <2>2
  <2> QED
    BY <2>3 DEF L
<1>10. op = "get" => queue # << >>
  BY SMT, <1>9
<1> QED
  BY <1>2, <1>3, <1>5, <1>9, <1>10

(* Every step of put, get and their closures is one of the channel's, or    *)
(* changes nothing that it shows.                                           *)
LEMMA ChannelStep ==
  BufferInv /\ CountInv /\ [Next]_vars => [Abs!AbsNext]_(Abs!absVars)
<1> SUFFICES ASSUME BufferInv, CountInv, [Next]_vars
             PROVE  Abs!AbsNext \/ UNCHANGED <<queue, call>>
  BY DEF Abs!absVars
<1>c. \A op, v, b : Abs!Call(op, v, b) = Call(op, v, b)
  BY DEF Abs!Call, Call
<1>1. ASSUME NEW p \in Client, NEW v \in Value, Put(p, v) PROVE Abs!AbsNext
  BY <1>1, <1>c DEF Put, Abs!AbsNext, Abs!AbsRequest
<1>2. ASSUME NEW p \in Client, Get(p) PROVE Abs!AbsNext
  BY <1>2, <1>c DEF Get, Abs!AbsNext, Abs!AbsRequest
<1>3. ASSUME NEW c \in Core, PutAdd(c) PROVE Abs!AbsNext
  <2> DEFINE p == job[c].closure.client
             v == job[c].closure.value
  <2>1. p \in Client /\ call[p] = Call("put", v, FALSE) /\ call[p] # Null /\ Len(queue) < Size
    <3>1. At(c, "put", "queue") /\ "put" \in {"put", "get"}
      BY <1>3 DEF PutAdd
    <3> QED
      BY <3>1, HasPlace, Zenon
  <2>2. queue' = Append(queue, v) /\ call' = [call EXCEPT ![p] = Call("put", v, TRUE)]
    BY <1>3 DEF PutAdd
  <2>3. call[p].op = "put" /\ call[p].value = v /\ call[p].done = FALSE
    BY SMT, <2>1 DEF Call
  <2> HIDE DEF p, v
  <2>4. Abs!AbsPut(p)
    BY <1>c, <2>1, <2>2, <2>3 DEF Abs!AbsPut
  <2> QED
    BY <2>1, <2>4 DEF Abs!AbsNext
<1>4. ASSUME NEW c \in Core, GetRemove(c) PROVE Abs!AbsNext
  <2> DEFINE p == job[c].closure.client
             v == job[c].closure.value
  <2>1. p \in Client /\ call[p] = Call("get", v, FALSE) /\ call[p] # Null /\ queue # << >>
    <3>1. At(c, "get", "queue") /\ "get" \in {"put", "get"}
      BY <1>4 DEF GetRemove
    <3> QED
      BY <3>1, HasPlace, Zenon
  <2>2. queue' = Tail(queue) /\ call' = [call EXCEPT ![p] = Call("get", Head(queue), TRUE)]
    BY <1>4, <2>1 DEF GetRemove
  <2>3. call[p].op = "get" /\ call[p].done = FALSE
    BY SMT, <2>1 DEF Call
  <2> HIDE DEF p, v
  <2>4. Abs!AbsGet(p)
    BY <1>c, <2>1, <2>2, <2>3 DEF Abs!AbsGet
  <2> QED
    BY <2>1, <2>4 DEF Abs!AbsNext
<1>5. ASSUME NEW c \in Core, Work(c) PROVE Abs!AbsNext
  <2> DEFINE p == job[c].closure.client
  <2>1. Busy(c) /\ job[c].at = "work"
    BY <1>5 DEF Work, Busy
  <2>2. p \in Client /\ call[p] # Null
    BY <2>1, Alone, Fresh DEF Closures
  <2>3. (job[c].at # "queue") = TRUE
    BY <2>1
  <2>4. call[p] = Call(job[c].closure.op, job[c].closure.value, TRUE)
    BY <2>1, <2>3 DEF BufferInv, Called
  <2>5. call[p].done
    BY SMT, <2>4 DEF Call
  <2>6. call' = [call EXCEPT ![p] = Null] /\ queue' = queue
    BY <1>5 DEF Work, buffer
  <2> HIDE DEF p
  <2>7. Abs!AbsReturn(p)
    BY <2>2, <2>5, <2>6 DEF Abs!AbsReturn
  <2> QED
    BY <2>2, <2>7 DEF Abs!AbsNext
<1>6. ASSUME NEW c \in Core, Take(c) \/ PutUp(c) \/ GetUp(c) PROVE UNCHANGED <<queue, call>>
  BY <1>6 DEF Take, PutUp, GetUp, buffer
<1>7. CASE UNCHANGED vars
  BY <1>7 DEF vars, buffer
<1> QED
  BY <1>1, <1>2, <1>3, <1>4, <1>5, <1>6, <1>7 DEF Next, Request, Step

(* BoundedBuffer's put and get are a bounded FIFO channel, whatever the     *)
(* number of cores, callers and places: a put never finds the buffer full,  *)
(* a get never finds it empty, and values leave in the order they came.     *)
THEOREM Refinement == Spec => RefinesChannel
<1>1. Init => Abs!AbsInit
  BY DEF Init, Abs!AbsInit
<1>2. Spec => [](BufferInv /\ CountInv)
  BY CountInit, CountStep, BufferCorrect, PTL DEF Spec
<1> QED
  BY <1>1, <1>2, ChannelStep, PTL DEF Spec, RefinesChannel, Abs!AbsSpec

----------------------------------------------------------------------------
Runs(p) == \E c \in Core : user[c] /\ active[c] = p

(* A get of p has removed its byte, and the continuation has not stored it. *)
Owes(p) == call[p] # Null /\ call[p].op = "get" /\ call[p].done

(* A process on a core, or waiting to be resumed, is in no call of read or  *)
(* write, so that no continuation of its is left anywhere; and a core that  *)
(* runs a closure is in the event loop.                                     *)
Placed ==
  /\ \A c \in Core : user[c] =>
       active[c] \in Client /\ call[active[c]] = Null /\ ~Busy(c)
  /\ \A p \in switched : call[p] = Null
  /\ \A c \in Core : user[c] => cr3[c] = active[c] /\ active[c] \notin switched
  /\ \A c, d \in Core : user[c] /\ user[d] /\ active[c] = active[d] => c = d

(* The byte last taken from the pipe for a process is in its memory, or in  *)
(* the closure that has still to store it.                                  *)
Stored == \A p \in Client :
  /\ p \in switched \/ Runs(p) \/ (call[p] # Null /\ ~Owes(p)) => mem[p] = taken[p]
  /\ Owes(p) => taken[p] = call[p].value

PipeInv ==
  /\ user \in [Core -> BOOLEAN]
  /\ active \in [Core -> Client \cup {Null}] /\ cr3 \in [Core -> Client \cup {Null}]
  /\ switched \subseteq Client
  /\ mem \in [Client -> Value \cup {Null}] /\ taken \in [Client -> Value \cup {Null}]
  /\ ~lost => Placed /\ Stored

(* read and write use the buffer as BoundedBuffer says: to the buffer, each *)
(* step of a pipe is one of its own, or none.                               *)
LEMMA PipeUses == PipeInv /\ [PipeNext]_pipeVars => [Next]_vars
<1> SUFFICES ASSUME PipeInv, [PipeNext]_pipeVars PROVE [Next]_vars
  OBVIOUS
<1>1. ASSUME NEW c \in Core, ~lost, Write(c) PROVE Next
  BY <1>1 DEF Write, Next, Request, PipeInv, Placed
<1>2. ASSUME NEW c \in Core, ~lost, Read(c) PROVE Next
  BY <1>2 DEF Read, Next, Request, PipeInv, Placed
<1>3. ASSUME NEW c \in Core, EventLoop(c) \/ BufferStep(c) PROVE Next
  BY <1>3 DEF EventLoop, BufferStep, Next
<1>4. ASSUME NEW c \in Core, Continuation(c) PROVE Next
  BY <1>4 DEF Continuation, WriteReturn, ReadReturn, ReadFault, ReadLost, Next
<1>5. ASSUME NEW c \in Core, NEW p \in Client, Switch(c) \/ RunResume(c, p) PROVE UNCHANGED vars
  BY <1>5 DEF Switch, RunResume
<1>6. CASE UNCHANGED pipeVars
  BY <1>6 DEF pipeVars
<1> QED
  BY <1>1, <1>2, <1>3, <1>4, <1>5, <1>6, StartAssumption DEF PipeNext

(* One process on a core, the others waiting to be resumed, no byte taken.  *)
LEMMA PipeStarts == PipeInit => PipeInv
<1> SUFFICES ASSUME PipeInit PROVE PipeInv
  OBVIOUS
<1>1. /\ \A c \in Core : user[c] <=> c = FirstCore
      /\ active[FirstCore] = FirstProc /\ cr3[FirstCore] = FirstProc
      /\ \A p \in Client : call[p] = Null /\ mem[p] = Null /\ taken[p] = Null
      /\ switched = Client \ {FirstProc}
  BY StartAssumption DEF PipeInit, Init
<1>2. \A c \in Core : ~Busy(c)
  BY SMT DEF PipeInit, Init, NoJob, Busy
<1>5. Placed
  BY <1>1, <1>2, StartAssumption DEF Placed
<1>3. Stored
  BY <1>1 DEF Stored, Owes
<1>4. /\ user \in [Core -> BOOLEAN]
      /\ active \in [Core -> Client \cup {Null}] /\ cr3 \in [Core -> Client \cup {Null}]
      /\ switched \subseteq Client
      /\ mem \in [Client -> Value \cup {Null}] /\ taken \in [Client -> Value \cup {Null}]
  BY SMT, StartAssumption DEF PipeInit
<1> QED
  BY <1>3, <1>4, <1>5 DEF PipeInv

(* A client that is in a call can be told from one that is not.             *)
LEMMA CallNotNull ==
  \A op \in {"put", "get"}, v \in Value \cup {Null}, b \in BOOLEAN : Call(op, v, b) # Null
BY SMT, BufferAssumption DEF Call, Calls

(* A process that leaves its core, to be resumed or in a new call, leaves   *)
(* the byte it was last given in its memory.                                *)
LEMMA Leaves ==
  ASSUME BufferInv, PipeInv, ~lost, NEW c \in Core, user[c], ToEventLoop(c),
         UNCHANGED <<active, cr3, job, mem, taken, lost>>,
         switched' \in SUBSET Client, switched \subseteq switched',
         switched' \subseteq switched \cup {active[c]},
         active[c] \in switched' => call'[active[c]] = Null,
         call'[active[c]] = Null \/ ~call'[active[c]].done,
         \A q \in Client \ {active[c]} : call'[q] = call[q]
  PROVE  PipeInv'
<1>1. active[c] \in Client /\ mem[active[c]] = taken[active[c]]
  BY DEF PipeInv, Placed, Stored, Runs
<1>2. ~user'[c] /\ \A d \in Core \ {c} : user'[d] = user[d] /\ active[d] = active'[d]
  BY DEF ToEventLoop, PipeInv
<1>3. \A d \in Core : user'[d] => d # c /\ user[d] /\ active[d] # active[c]
  BY <1>2 DEF PipeInv, Placed
<1>4. \A d \in Core : Busy(d)' = Busy(d)
  BY DEF Busy
<1>5. Placed'
  BY <1>1, <1>3, <1>4 DEF PipeInv, Placed
<1>6. ASSUME NEW q \in Client PROVE
        /\ q \in switched' \/ Runs(q)' \/ (call'[q] # Null /\ ~Owes(q)') => mem'[q] = taken'[q]
        /\ Owes(q)' => taken'[q] = call'[q].value
  <2>1. CASE q = active[c]
    BY <1>1, <2>1 DEF Owes
  <2>2. CASE q # active[c]
    <3>1. Runs(q)' => Runs(q)
      BY <1>2 DEF Runs
    <3>2. Owes(q)' = Owes(q) /\ call'[q] = call[q] /\ (q \in switched' <=> q \in switched)
      BY <2>2 DEF Owes
    <3> QED
      BY <3>1, <3>2 DEF PipeInv, Stored
  <2> QED
    BY <2>1, <2>2
<1>7. Stored'
  BY <1>6 DEF Stored
<1>8. user' \in [Core -> BOOLEAN]
  BY DEF ToEventLoop, PipeInv
<1> QED
  BY <1>5, <1>7, <1>8 DEF PipeInv

(* A core that takes up a process with no other place, under its page       *)
(* directory, and with the byte it was given in its memory.                 *)
LEMMA TakesUp ==
  ASSUME PipeInv, ~lost, ~lost', NEW c \in Core, NEW p \in Client, Resume(c, p), vmm_on(c, p),
         switched' = switched \ {p}, taken' = taken,
         ~Runs(p), ~Busy(c)', \A d \in Core \ {c} : Busy(d)' = Busy(d),
         call'[p] = Null, \A q \in Client \ {p} : call'[q] = call[q],
         mem' \in [Client -> Value \cup {Null}], mem'[p] = taken[p],
         \A q \in Client \ {p} : mem'[q] = mem[q]
  PROVE  PipeInv'
<1>1. /\ user'[c] /\ active'[c] = p /\ cr3'[c] = p
      /\ \A d \in Core \ {c} : user'[d] = user[d] /\ active'[d] = active[d] /\ cr3'[d] = cr3[d]
      /\ user' \in [Core -> BOOLEAN]
      /\ active' \in [Core -> Client \cup {Null}] /\ cr3' \in [Core -> Client \cup {Null}]
  BY DEF Resume, vmm_on, PipeInv
<1>2. \A d \in Core \ {c} : user'[d] => user[d] /\ active[d] # p /\ active'[d] = active[d]
  BY <1>1 DEF Runs
<1>3. Placed'
  <2>0. Placed
    BY DEF PipeInv
  <2>1. \A d \in Core : user'[d] =>
          /\ active'[d] \in Client /\ call'[active'[d]] = Null /\ ~Busy(d)'
          /\ cr3'[d] = active'[d] /\ active'[d] \notin switched'
    <3> SUFFICES ASSUME NEW d \in Core \ {c}, user'[d]
                 PROVE  /\ active'[d] \in Client /\ call'[active'[d]] = Null /\ ~Busy(d)'
                        /\ cr3'[d] = active'[d] /\ active'[d] \notin switched'
      BY SMT, <1>1 DEF Busy
    <3>1. user[d] /\ active'[d] = active[d] /\ active[d] # p /\ cr3'[d] = cr3[d]
      BY <1>1, <1>2
    <3> QED
      BY SMT, <2>0, <3>1 DEF Placed, Busy
  <2>2. \A q \in switched' : call'[q] = Null
    BY DEF PipeInv, Placed
  <2>3. \A d, e \in Core : user'[d] /\ user'[e] /\ active'[d] = active'[e] => d = e
    <3>1. \A d \in Core \ {c} : user'[d] => active'[d] # active'[c]
      BY <1>1, <1>2
    <3>2. \A d, e \in Core \ {c} : user'[d] /\ user'[e] /\ active'[d] = active'[e] => d = e
      BY SMT, <1>2, <2>0 DEF Placed
    <3> QED
      BY <3>1, <3>2
  <2> QED
    BY <2>1, <2>2, <2>3 DEF Placed
<1>4. ASSUME NEW q \in Client PROVE
        /\ q \in switched' \/ Runs(q)' \/ (call'[q] # Null /\ ~Owes(q)') => mem'[q] = taken'[q]
        /\ Owes(q)' => taken'[q] = call'[q].value
  <2>1. CASE q = p
    BY <2>1 DEF Owes
  <2>2. CASE q # p
    <3>1. Runs(q)' => Runs(q)
      BY <1>1, <2>2 DEF Runs
    <3>2. Owes(q)' = Owes(q) /\ call'[q] = call[q]
      BY <2>2 DEF Owes
    <3> QED
      BY <2>2, <3>1, <3>2 DEF PipeInv, Stored
  <2> QED
    BY <2>1, <2>2
<1>5. Stored'
  BY <1>4 DEF Stored
<1> QED
  BY <1>1, <1>3, <1>5 DEF PipeInv

(* A continuation resumes a process that runs nowhere, since its call was   *)
(* still open, and vmm_on has put its page directory on before the byte is  *)
(* stored.                                                                  *)
LEMMA PipeStep == BufferInv /\ PipeInv /\ [PipeNext]_pipeVars => PipeInv'
<1> SUFFICES ASSUME BufferInv, PipeInv, [PipeNext]_pipeVars PROVE PipeInv'
  OBVIOUS
<1>1. ASSUME NEW c \in Core, ~lost, Switch(c) PROVE PipeInv'
  <2>1. active[c] \in Client /\ call[active[c]] = Null
    BY <1>1 DEF Switch, PipeInv, Placed
  <2> QED
    BY <1>1, <2>1, Leaves DEF Switch, PipeInv, vars
<1>2. ASSUME NEW c \in Core, ~lost, Write(c) PROVE PipeInv'
  <2>1. active[c] \in Client /\ active[c] \notin switched
    BY <1>2 DEF Write, PipeInv, Placed
  <2>2. PICK v \in Value : Put(active[c], v)
    BY <1>2 DEF Write
  <2>3. call'[active[c]] = Call("put", v, FALSE) /\ \A q \in Client \ {active[c]} : call'[q] = call[q]
    BY <2>1, <2>2 DEF Put, BufferInv, TypeOK
  <2>4. ~call'[active[c]].done
    BY SMT, <2>3 DEF Call
  <2> QED
    BY <1>2, <2>1, <2>2, <2>3, <2>4, Leaves DEF Write, Put, PipeInv
<1>3. ASSUME NEW c \in Core, ~lost, Read(c) PROVE PipeInv'
  <2>1. active[c] \in Client /\ active[c] \notin switched
    BY <1>3 DEF Read, PipeInv, Placed
  <2>2. Get(active[c])
    BY <1>3 DEF Read
  <2>3. call'[active[c]] = Call("get", Null, FALSE) /\ \A q \in Client \ {active[c]} : call'[q] = call[q]
    BY <2>1, <2>2 DEF Get, BufferInv, TypeOK
  <2>4. ~call'[active[c]].done
    BY SMT, <2>3 DEF Call
  <2> QED
    BY <1>3, <2>1, <2>2, <2>3, <2>4, Leaves DEF Read, Get, PipeInv
<1>4. ASSUME NEW c \in Core, NEW p \in Client, ~lost, RunResume(c, p) PROVE PipeInv'
  <2>1. p \in switched /\ ~Runs(p) /\ call[p] = Null /\ mem[p] = taken[p]
    BY <1>4 DEF RunResume, PipeInv, Placed, Stored, Runs
  <2>2. \A d \in Core : Busy(d)' = Busy(d)
    BY <1>4 DEF RunResume, vars, Busy
  <2>3. ~Busy(c)
    BY <1>4 DEF RunResume, Busy
  <2> QED
    BY <1>4, <2>1, <2>2, <2>3, TakesUp DEF RunResume, vars, PipeInv
<1>5. ASSUME NEW c \in Core, ~lost, EventLoop(c) PROVE PipeInv'
  <2>1. UNCHANGED <<user, active, cr3, switched, mem, taken, lost, call>> /\ ~user[c]
    BY <1>5 DEF EventLoop, Take, processes
  <2>2. \A d \in Core \ {c} : Busy(d)' = Busy(d)
    BY <1>5 DEF EventLoop, Take, Busy, BufferInv, TypeOK
  <2>3. Placed'
    BY <1>5, <2>1, <2>2 DEF PipeInv, Placed
  <2>4. Stored'
    BY <1>5, <2>1 DEF PipeInv, Stored, Runs, Owes
  <2> QED
    BY <2>1, <2>3, <2>4 DEF PipeInv
<1>6. ASSUME NEW c \in Core, ~lost, BufferStep(c) PROVE PipeInv'
  <2>1. UNCHANGED <<user, active, cr3, switched, mem, lost>>
    BY <1>6 DEF BufferStep
  <2>2. Busy(c) /\ \A d \in Core : ~Busy(d) => ~Busy(d)'
    BY <1>6 DEF BufferStep, Step, PutAdd, PutUp, GetRemove, GetUp, At, Busy, BufferInv, TypeOK
  <2>3. PICK p \in Client : p = job[c].closure.client /\ call[p] # Null
    BY <2>2, Alone, Fresh DEF Closures
  <2>4. p \notin switched /\ ~Runs(p)
    BY <1>6, <2>3 DEF PipeInv, Placed, Runs
  <2>5. ASSUME call'[p] # Null, \A q \in Client \ {p} : call'[q] = call[q] PROVE Placed'
    BY <1>6, <2>1, <2>2, <2>3, <2>4, <2>5 DEF PipeInv, Placed
  <2>6. ASSUME call'[p] # Null, Owes(p)' => taken'[p] = call'[p].value,
               ~Owes(p)' => mem[p] = taken'[p],
               \A q \in Client \ {p} : call'[q] = call[q] /\ taken'[q] = taken[q]
        PROVE  Stored'
    <3> SUFFICES ASSUME NEW q \in Client PROVE
          /\ q \in switched' \/ Runs(q)' \/ (call'[q] # Null /\ ~Owes(q)') => mem'[q] = taken'[q]
          /\ Owes(q)' => taken'[q] = call'[q].value
      BY DEF Stored
    <3>1. Runs(q)' = Runs(q)
      BY <2>1 DEF Runs
    <3>2. CASE q = p
      <4>1. Owes(q)' = Owes(p)'
        BY <3>2
      <4> QED
        BY <2>1, <2>4, <2>6, <3>1, <3>2, <4>1
    <3>3. CASE q # p
      <4>1. Owes(q)' = Owes(q)
        BY <2>6, <3>3 DEF Owes
      <4> QED
        BY <1>6, <2>1, <2>6, <3>1, <3>3, <4>1 DEF PipeInv, Stored
    <3> QED
      BY <3>2, <3>3
  <2>7. call[p] = Call(job[c].closure.op, job[c].closure.value, job[c].at # "queue")
    BY <2>2, <2>3 DEF BufferInv, Called
  <2>8. /\ Owes(p) <=> job[c].closure.op = "get" /\ job[c].at # "queue"
        /\ call[p].value = job[c].closure.value
    <3>1. job[c].closure.op \in {"put", "get"} /\ job[c].closure.value \in Value \cup {Null}
      BY <2>2, Alone DEF Closures
    <3>2. /\ call[p].op = job[c].closure.op /\ call[p].value = job[c].closure.value
          /\ call[p].done = (job[c].at # "queue")
      <4>1. PICK b \in BOOLEAN : b = (job[c].at # "queue")
        OBVIOUS
      <4>2. call[p] = Call(job[c].closure.op, job[c].closure.value, b)
        BY <2>7, <4>1
      <4> QED
        BY SMT, <3>1, <4>1, <4>2 DEF Call
    <3> QED
      BY <2>3, <3>2 DEF Owes
  <2>9. /\ Owes(p) => taken[p] = call[p].value
        /\ ~Owes(p) => mem[p] = taken[p]
    BY <1>6, <2>3 DEF PipeInv, Stored
  <2>a. CASE PutUp(c) \/ GetUp(c)
    <3>1. call' = call
      BY <2>a DEF PutUp, GetUp
    <3>2. taken' = taken
      BY <1>6, <2>a DEF BufferStep, PutUp, GetUp, At
    <3> QED
      <4>1. Owes(p)' = Owes(p)
        BY <3>1 DEF Owes
      <4> QED
        BY <2>1, <2>3, <2>5, <2>6, <2>9, <3>1, <3>2, <4>1 DEF PipeInv
  <2>b. CASE PutAdd(c)
    <3>1. taken' = taken /\ ~Owes(p)
      BY <1>6, <2>8, <2>b DEF BufferStep, PutAdd, At
    <3>2. call'[p] = Call("put", job[c].closure.value, TRUE) /\ \A q \in Client \ {p} : call'[q] = call[q]
      BY <2>3, <2>b DEF PutAdd, BufferInv, TypeOK
    <3>3. call'[p] # Null /\ ~Owes(p)'
      <4>1. job[c].closure.value \in Value \cup {Null}
        BY <2>2, Alone DEF Closures
      <4>2. call'[p] # Null /\ call'[p].op = "put"
        <5>1. call'[p] = Call("put", job[c].closure.value, TRUE)
          BY <3>2
        <5>2. Call("put", job[c].closure.value, TRUE) # Null
          BY <4>1, CallNotNull
        <5>3. call'[p].op = "put"
          BY SMT, <5>1 DEF Call
        <5> QED
          BY <5>1, <5>2, <5>3
      <4> QED
        BY <4>2 DEF Owes
    <3> QED
      BY <2>1, <2>5, <2>6, <2>9, <3>1, <3>2, <3>3 DEF PipeInv
  <2>c. CASE GetRemove(c)
    <3> DEFINE v == IF queue = << >> THEN Null ELSE Head(queue)
    <3>1. v \in Value \cup {Null}
      BY RemoveFacts DEF BufferInv, TypeOK
    <3>2. call'[p] = Call("get", v, TRUE) /\ \A q \in Client \ {p} : call'[q] = call[q]
      BY <2>3, <2>c DEF GetRemove, BufferInv, TypeOK
    <3>3. call'[p] # Null /\ Owes(p)' /\ call'[p].value = v
      <4>1. call'[p] # Null /\ call'[p].op = "get" /\ call'[p].value = v /\ call'[p].done
        <5>1. call'[p] = Call("get", v, TRUE)
          BY <3>2
        <5> HIDE DEF v
        <5>2. Call("get", v, TRUE) # Null
          BY <3>1, CallNotNull
        <5>3. call'[p].op = "get" /\ call'[p].value = v /\ call'[p].done
          BY SMT, <5>1 DEF Call
        <5> QED
          BY <5>1, <5>2, <5>3
      <4> QED
        BY <4>1 DEF Owes
    <3>4. job'[c].closure.value = v
      BY SMT, <2>2, <2>c, Alone DEF GetRemove, Job, Closures, BufferInv, TypeOK
    <3>5. taken' = [taken EXCEPT ![p] = v]
      BY <1>6, <2>3, <2>c, <3>4 DEF BufferStep, GetRemove
    <3>6. /\ taken' \in [Client -> Value \cup {Null}] /\ taken'[p] = v
          /\ \A q \in Client \ {p} : taken'[q] = taken[q]
      BY <2>3, <3>1, <3>5 DEF PipeInv
    <3> QED
      BY <2>1, <2>5, <2>6, <3>2, <3>3, <3>6 DEF PipeInv
  <2> QED
    BY <1>6, <2>a, <2>b, <2>c DEF BufferStep, Step
<1>7. ASSUME NEW c \in Core, ~lost, Continuation(c) PROVE PipeInv'
  <2>1. Busy(c) /\ Work(c) /\ ~user[c] /\ job[c].at = "work"
    BY <1>7 DEF Continuation, WriteReturn, ReadReturn, ReadFault, ReadLost, At, Busy, PipeInv, Placed
  <2>2. PICK p \in Client : p = job[c].closure.client /\ call[p] # Null
    BY <2>1, Alone, Fresh DEF Closures
  <2>3. call'[p] = Null /\ \A q \in Client \ {p} : call'[q] = call[q]
    BY <2>1, <2>2 DEF Work, BufferInv, TypeOK
  <2>4. ~Busy(c)' /\ \A d \in Core \ {c} : Busy(d)' = Busy(d)
    BY <2>1 DEF Work, NoJob, Busy, BufferInv, TypeOK
  <2>5. p \notin switched /\ ~Runs(p)
    BY <1>7, <2>2 DEF PipeInv, Placed, Runs
  <2>6. switched \ {p} = switched
    BY <2>5
  <2>7. call[p] = Call(job[c].closure.op, job[c].closure.value, TRUE)
    BY <2>1, <2>2 DEF BufferInv, Called
  <2>8. /\ Owes(p) <=> job[c].closure.op = "get"
        /\ call[p].value = job[c].closure.value
    <3>1. job[c].closure.op \in {"put", "get"} /\ job[c].closure.value \in Value \cup {Null}
      BY <2>1, Alone DEF Closures
    <3>2. call[p].op = job[c].closure.op /\ call[p].value = job[c].closure.value /\ call[p].done
      BY SMT, <2>7, <3>1 DEF Call
    <3> QED
      BY <2>2, <3>2 DEF Owes
  <2>9. /\ Owes(p) => taken[p] = call[p].value
        /\ ~Owes(p) => mem[p] = taken[p]
    BY <1>7, <2>2 DEF PipeInv, Stored
  <2>a. CASE WriteReturn(c)
    <3>1. mem' = mem /\ mem[p] = taken[p]
      BY <2>8, <2>9, <2>a DEF WriteReturn, At
    <3> QED
      BY <1>7, <2>2, <2>3, <2>4, <2>5, <2>6, <2>a, <3>1, TakesUp DEF WriteReturn, PipeInv
  <2>b. CASE ReadReturn(c)
    <3>1. cr3'[c] = p
      BY <2>2, <2>b DEF ReadReturn, vmm_on, PipeInv
    <3>2. mem' = [mem EXCEPT ![p] = job[c].closure.value]
      BY <2>2, <2>b, <3>1 DEF ReadReturn
    <3>3. job[c].closure.value = taken[p] /\ taken[p] \in Value \cup {Null}
      BY <2>2, <2>8, <2>9, <2>b DEF ReadReturn, At, PipeInv
    <3>4. /\ mem' \in [Client -> Value \cup {Null}] /\ mem'[p] = taken[p]
          /\ \A q \in Client \ {p} : mem'[q] = mem[q]
      BY <2>2, <3>2, <3>3 DEF PipeInv
    <3> QED
      BY <1>7, <2>2, <2>3, <2>4, <2>5, <2>6, <2>b, <3>4, TakesUp DEF ReadReturn
  <2>c. CASE ReadFault(c)
    <3>1. UNCHANGED <<user, active, switched, mem, taken, lost>> /\ cr3' = [cr3 EXCEPT ![c] = p]
      BY <2>2, <2>c DEF ReadFault, vmm_on
    <3>2. cr3' \in [Core -> Client \cup {Null}] /\ \A d \in Core \ {c} : cr3'[d] = cr3[d]
      BY <2>2, <3>1 DEF PipeInv
    <3>3. Placed'
      <4>1. Placed /\ \A d \in Core : user[d] => d # c /\ active[d] # p
        BY <1>7, <2>1, <2>5 DEF PipeInv, Runs
      <4>2. \A d \in Core : user[d] =>
              active[d] \in Client /\ call'[active[d]] = Null /\ ~Busy(d)' /\ cr3'[d] = active[d]
        BY <2>3, <2>4, <3>2, <4>1 DEF Placed
      <4>3. \A q \in switched : call'[q] = Null
        BY <2>3, <2>5, <4>1 DEF Placed, PipeInv
      <4> QED
        BY <3>1, <4>1, <4>2, <4>3 DEF Placed
    <3>4. Stored'
      <4> SUFFICES ASSUME NEW q \in Client PROVE
            /\ q \in switched \/ Runs(q) \/ (call'[q] # Null /\ ~Owes(q)') => mem[q] = taken[q]
            /\ Owes(q)' => taken[q] = call'[q].value
        BY <3>1 DEF Stored, Runs
      <4>1. CASE q = p
        BY <2>3, <2>5, <4>1 DEF Owes
      <4>2. CASE q # p
        BY <1>7, <2>3, <4>2 DEF Owes, PipeInv, Stored
      <4> QED
        BY <4>1, <4>2
    <3> QED
      BY <3>1, <3>2, <3>3, <3>4 DEF PipeInv
  <2>d. CASE ReadLost(c)
    <3>1. UNCHANGED <<active, switched, mem, taken>> /\ cr3' = [cr3 EXCEPT ![c] = p] /\ lost'
      BY <2>2, <2>d DEF ReadLost, vmm_on
    <3>2. user' \in [Core -> BOOLEAN]
      BY <2>d DEF ReadLost, PipeInv
    <3> QED
      BY <2>2, <3>1, <3>2 DEF PipeInv
  <2> QED
    BY <1>7, <2>a, <2>b, <2>c, <2>d DEF Continuation
<1>8. CASE UNCHANGED pipeVars
  <2>1. /\ UNCHANGED <<user, active, cr3, switched, mem, taken, lost>>
        /\ call' = call /\ job' = job
    BY <1>8 DEF pipeVars, vars, processes
  <2> QED
    BY <2>1 DEF PipeInv, Placed, Stored, Runs, Owes, Busy
<1> QED
  BY <1>1, <1>2, <1>3, <1>4, <1>5, <1>6, <1>7, <1>8 DEF PipeNext

(* The invariants of the buffer and of the pipe, together.                  *)
LEMMA PipeCorrect == PipeSpec => [](BufferInv /\ PipeInv) /\ Spec
<1>1. PipeInit => Init
  BY DEF PipeInit
<1>2. BufferInv /\ PipeInv /\ [PipeNext]_pipeVars => BufferInv' /\ PipeInv'
  BY PipeUses, BufferKept, PipeStep
<1> QED
  BY <1>1, <1>2, PipeStarts, BufferInit, PipeUses, PTL DEF PipeSpec, Spec

(* However processes are switched and whichever core finishes a read or a   *)
(* write, a core runs a process under that process's page directory, and    *)
(* no process runs on two cores or waits to be resumed meanwhile.           *)
THEOREM RunsAsItselfHolds == PipeSpec => []RunsAsItself
<1>1. PipeInv => RunsAsItself
  BY DEF PipeInv, Placed, RunsAsItself
<1> QED
  BY <1>1, PipeCorrect, PTL

(* A pipe is a bounded FIFO channel of bytes between its processes, even if *)
(* a reader's continuation faults.                                          *)
THEOREM PipeRefinement == PipeSpec => RefinesChannel
BY PipeCorrect, Refinement, PTL

(* A process that runs, or waits to be resumed, has in its memory the byte  *)
(* last taken from the pipe for it, from the queue to the closure and from  *)
(* there, under its own page directory, to its buffer.                      *)
THEOREM ReceivedHolds == PipeSpec => []Received
<1>1. PipeInv => Received
  BY DEF PipeInv, Stored, Received, Runs
<1> QED
  BY <1>1, PipeCorrect, PTL
==============================================================================
