---------------------------- MODULE BoundedBuffer ----------------------------
(***************************************************************************)
(* kernel/bb.h: BoundedBuffer, two semaphores and a queue.  put and get     *)
(* hand a closure to a semaphore; the event loop of some core runs it.      *)
(* The closure's calls are separate steps, so that the closures that        *)
(* several cores run at once interleave.  Semaphore operations are atomic   *)
(* (module Semaphore), and so are those of Queue, which has its own lock.   *)
(***************************************************************************)
EXTENDS Integers, Sequences, FiniteSets, Functions

CONSTANTS Core,         \* the cores
          Client,       \* the callers; each waits until its work has run
          Value,        \* the values of type T
          Size,         \* the constructor's argument (100 for a pipe)
          Null          \* nullptr

(* What semaphores and the ready queue hold, and what clients are in.       *)
Closures == [op : {"put", "get"}, client : Client, value : Value \cup {Null}]
Calls == [op : {"put", "get"}, value : Value \cup {Null}, done : BOOLEAN]

ASSUME BufferAssumption ==
  /\ IsFiniteSet(Core)
  /\ Size \in Nat \ {0}
  /\ Null \notin Value \cup Closures \cup Calls

VARIABLES n_full,       \* n_full: its count and waiting queue
          n_empty,
          queue,        \* BoundedBuffer::queue
          ready,        \* impl::ready_queue
          job,          \* job[c]: the closure core c is running, and how far
          call          \* history: the call each client is in

buffer == <<n_full, n_empty, queue>>
vars == <<buffer, ready, job, call>>

(* The closures of put and get, and the steps of one that is running.       *)
Closure(op, p, v) == [op |-> op, client |-> p, value |-> v]
Job(e, at) == [closure |-> e, at |-> at]
NoJob == [closure |-> Null, at |-> "idle"]
Call(op, v, done) == [op |-> op, value |-> v, done |-> done]

(* BoundedBuffer(n)                                                         *)
Init ==
  /\ n_full = [count |-> 0, waiting |-> << >>]
  /\ n_empty = [count |-> Size, waiting |-> << >>]
  /\ queue = << >>
  /\ ready = << >>
  /\ job = [c \in Core |-> NoJob]
  /\ call = [p \in Client |-> Null]

----------------------------------------------------------------------------
(* The atomic semaphore.                                                    *)
Down(s, e) == IF s.count > 0 THEN [s EXCEPT !.count = @ - 1]
                             ELSE [s EXCEPT !.waiting = Append(@, e)]
DownReady(s, e) == IF s.count > 0 THEN Append(ready, e) ELSE ready

Up(s) == IF s.waiting = << >> THEN [s EXCEPT !.count = @ + 1]
                              ELSE [s EXCEPT !.waiting = Tail(@)]
UpReady(s) == IF s.waiting = << >> THEN ready ELSE Append(ready, Head(s.waiting))

----------------------------------------------------------------------------
(* put(v, work) and get(work) "return immediately".                         *)
Put(p, v) ==
  LET e == Closure("put", p, v) IN
  /\ call[p] = Null
  /\ n_empty' = Down(n_empty, e)
  /\ ready' = DownReady(n_empty, e)
  /\ call' = [call EXCEPT ![p] = Call("put", v, FALSE)]
  /\ UNCHANGED <<n_full, queue, job>>

Get(p) ==
  LET e == Closure("get", p, Null) IN
  /\ call[p] = Null
  /\ n_full' = Down(n_full, e)
  /\ ready' = DownReady(n_full, e)
  /\ call' = [call EXCEPT ![p] = Call("get", Null, FALSE)]
  /\ UNCHANGED <<n_empty, queue, job>>

(* event_loop removes a closure.                                            *)
Take(c) ==
  /\ job[c].at = "idle"
  /\ ready # << >>
  /\ job' = [job EXCEPT ![c] = Job(Head(ready), "queue")]
  /\ ready' = Tail(ready)
  /\ UNCHANGED <<buffer, call>>

At(c, op, at) == job[c].at = at /\ job[c].closure.op = op

(* The closure of put: queue.add, then n_full->up.                          *)
PutAdd(c) ==
  /\ At(c, "put", "queue")
  /\ LET e == job[c].closure IN
     /\ queue' = Append(queue, e.value)
     /\ call' = [call EXCEPT ![e.client] = Call("put", e.value, TRUE)]
  /\ job' = [job EXCEPT ![c].at = "up"]
  /\ UNCHANGED <<n_full, n_empty, ready>>

PutUp(c) ==
  /\ At(c, "put", "up")
  /\ n_full' = Up(n_full)
  /\ ready' = UpReady(n_full)
  /\ job' = [job EXCEPT ![c].at = "work"]
  /\ UNCHANGED <<n_empty, queue, call>>

(* The closure of get: queue.remove, then n_empty->up.  The value is read   *)
(* from what remove returned, which is nullptr if the queue is empty.       *)
GetRemove(c) ==
  /\ At(c, "get", "queue")
  /\ LET v == IF queue = << >> THEN Null ELSE Head(queue) IN
     /\ job' = [job EXCEPT ![c] = Job([@.closure EXCEPT !.value = v], "up")]
     /\ call' = [call EXCEPT ![job[c].closure.client] = Call("get", v, TRUE)]
  /\ queue' = IF queue = << >> THEN queue ELSE Tail(queue)
  /\ UNCHANGED <<n_full, n_empty, ready>>

(* Mutant of GetUp: the wrong semaphore.                                    *)
GetUpFull(c) ==
  /\ At(c, "get", "up")
  /\ n_full' = Up(n_full)
  /\ ready' = UpReady(n_full)
  /\ job' = [job EXCEPT ![c].at = "work"]
  /\ UNCHANGED <<n_empty, queue, call>>

(* Mutant of GetUp: left out.                                               *)
GetUpNone(c) ==
  /\ At(c, "get", "up")
  /\ job' = [job EXCEPT ![c].at = "work"]
  /\ UNCHANGED <<buffer, ready, call>>

GetUp(c) ==
  /\ At(c, "get", "up")
  /\ n_empty' = Up(n_empty)
  /\ ready' = UpReady(n_empty)
  /\ job' = [job EXCEPT ![c].at = "work"]
  /\ UNCHANGED <<n_full, queue, call>>

(* work() or work(value): the caller goes on.                               *)
Work(c) ==
  /\ job[c].at = "work"
  /\ job' = [job EXCEPT ![c] = NoJob]
  /\ call' = [call EXCEPT ![job[c].closure.client] = Null]
  /\ UNCHANGED <<buffer, ready>>

Request(p) == Get(p) \/ \E v \in Value : Put(p, v)
Step(c) == PutAdd(c) \/ PutUp(c) \/ GetRemove(c) \/ GetUp(c)

Next == \/ \E p \in Client : Request(p)
        \/ \E c \in Core : Take(c) \/ Step(c) \/ Work(c)

Spec == Init /\ [][Next]_vars

----------------------------------------------------------------------------
Semaphores == [count : Nat, waiting : Seq(Closures)]

(* The types of the variables.                                              *)
TypeOK ==
  /\ n_full \in Semaphores /\ n_empty \in Semaphores
  /\ queue \in Seq(Value)
  /\ ready \in Seq(Closures)
  /\ job \in [Core -> [closure : Closures \cup {Null},
                       at : {"idle", "queue", "up", "work"}]]
  /\ \A c \in Core : job[c].closure = Null <=> job[c].at = "idle"
  /\ call \in [Client -> Calls \cup {Null}]

(* Closures of put (of get) that hold a unit and have not used it.          *)
Granted(op) ==
  {e \in Range(ready) : e.op = op}
    \cup {job[c].closure : c \in {k \in Core : At(k, op, "queue")}}
AtUp(op) == {c \in Core : At(c, op, "up")}

(* Every place of the buffer is accounted for: an occupied one by a unit of *)
(* n_full, a get that was promised it, or a put that has not announced it;  *)
(* a free one likewise on the side of n_empty.                              *)
Places ==
  /\ Len(queue) = n_full.count + Cardinality(Granted("get")) + Cardinality(AtUp("put"))
  /\ Size - Len(queue) =
       n_empty.count + Cardinality(Granted("put")) + Cardinality(AtUp("get"))

(* put and get are a bounded FIFO channel: never above capacity, never from *)
(* an empty queue, each call once.                                          *)
Abs == INSTANCE BoundedBufferSpec WITH buf <- queue
RefinesChannel == Abs!AbsSpec
==============================================================================
