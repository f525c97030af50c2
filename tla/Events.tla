------------------------------- MODULE Events --------------------------------
(***************************************************************************)
(* Events: go and co_delay (kernel/events.h), the timer queue PQ and        *)
(* event_loop (kernel/events.cc), and the jiffies that apitHandler          *)
(* (kernel/pit.cc) counts.                                                  *)
(***************************************************************************)
EXTENDS Integers, Sequences, FiniteSetsExt

CONSTANTS Core, Event,
          Delays,       \* for go
          W,            \* jiffies is an integer modulo W; it stops before it wraps
          None

ASSUME EventsAssumption ==
  /\ None \notin Event
  /\ W \in Nat /\ W > 0 /\ Delays \subseteq Nat

VARIABLES jiffies,
          pq,           \* the PQ: a sequence of [at, e]
          ready,        \* ready_queue
          last_event,   \* per core
          held,         \* per core: taken from pq, not yet in ready
          loop,         \* per core: where it is in event_loop
          event         \* what has happened to each event

eventVars == <<jiffies, pq, ready, last_event, held, loop, event>>

(* left: ticks until it may run; wrapped: its time did not fit; early,      *)
(* returned, runs, deletes: what its doit and event_loop made of it.        *)
Unmade == [made |-> FALSE, left |-> 0, wrapped |-> FALSE, early |-> FALSE, returned |-> FALSE,
           runs |-> 0, deletes |-> 0]

EventsInit ==
  /\ jiffies = 0 /\ pq = << >> /\ ready = << >>
  /\ last_event = [c \in Core |-> None] /\ held = [c \in Core |-> None]
  /\ loop = [c \in Core |-> "off"]
  /\ event = [e \in Event |-> Unmade]

----------------------------------------------------------------------------
(* PQ::add: behind the entries that are due no later.                       *)
add(q, at, e) ==
  LET k == Min({i \in DOMAIN q : q[i].at > at} \cup {Len(q) + 1})
  IN SubSeq(q, 1, k - 1) \o <<[at |-> at, e |-> e]>> \o SubSeq(q, k, Len(q))

(* When an event may run.  Mutant: one tick less.                           *)
DueSoon(delay) == (jiffies + delay) % W
Due(delay) == (jiffies + delay + 1) % W

(* go(work, delay), by the code that a core runs; co_delay does it too.     *)
go(c, e, delay) ==
  /\ loop[c] = "doit" /\ ~event[e].made
  /\ event' = [event EXCEPT ![e] = [Unmade EXCEPT
                 !.made = TRUE, !.left = IF delay = 0 THEN 0 ELSE delay + 1,
                 !.wrapped = delay # 0 /\ jiffies + delay + 1 >= W]]
  /\ IF delay = 0 THEN ready' = Append(ready, e) /\ UNCHANGED pq
                  ELSE pq' = add(pq, Due(delay), e) /\ UNCHANGED ready
  /\ UNCHANGED <<jiffies, last_event, held, loop>>

Deleted(es, e) == IF e = None THEN es ELSE [es EXCEPT ![e].deletes = @ + 1]

(* The top of the loop and PQ::remove_if_ready.  Mutant: the last event is  *)
(* forgotten, not deleted.                                                  *)
PollKeep(c) ==
  /\ loop[c] = "poll"
  /\ last_event' = [last_event EXCEPT ![c] = None]
  /\ UNCHANGED event
  /\ IF pq # << >> /\ pq[1].at <= jiffies
     THEN /\ held' = [held EXCEPT ![c] = pq[1].e] /\ pq' = Tail(pq)
          /\ loop' = [loop EXCEPT ![c] = "move"]
     ELSE loop' = [loop EXCEPT ![c] = "take"] /\ UNCHANGED <<held, pq>>
  /\ UNCHANGED <<jiffies, ready>>

Poll(c) ==
  /\ loop[c] = "poll"
  /\ event' = Deleted(event, last_event[c])
  /\ last_event' = [last_event EXCEPT ![c] = None]
  /\ IF pq # << >> /\ pq[1].at <= jiffies
     THEN /\ held' = [held EXCEPT ![c] = pq[1].e] /\ pq' = Tail(pq)
          /\ loop' = [loop EXCEPT ![c] = "move"]
     ELSE loop' = [loop EXCEPT ![c] = "take"] /\ UNCHANGED <<held, pq>>
  /\ UNCHANGED <<jiffies, ready>>

(* ready_queue.add of what was taken.  Mutant: it is dropped.               *)
MoveLost(c) ==
  /\ loop[c] = "move"
  /\ held' = [held EXCEPT ![c] = None] /\ loop' = [loop EXCEPT ![c] = "poll"]
  /\ UNCHANGED <<jiffies, pq, ready, last_event, event>>

Move(c) ==
  /\ loop[c] = "move"
  /\ ready' = Append(ready, held[c])
  /\ held' = [held EXCEPT ![c] = None] /\ loop' = [loop EXCEPT ![c] = "poll"]
  /\ UNCHANGED <<jiffies, pq, last_event, event>>

(* ready_queue.remove, and the call of doit.                                *)
Take(c) ==
  /\ loop[c] = "take"
  /\ IF ready = << >> THEN loop' = [loop EXCEPT ![c] = "poll"] /\ UNCHANGED <<ready, last_event, event>>
     ELSE /\ ready' = Tail(ready)
          /\ last_event' = [last_event EXCEPT ![c] = Head(ready)]
          /\ event' = [event EXCEPT ![Head(ready)].runs = @ + 1,
                                    ![Head(ready)].early = event[Head(ready)].left > 0]
          /\ loop' = [loop EXCEPT ![c] = "doit"]
  /\ UNCHANGED <<jiffies, pq, held>>

(* doit returns, and the event is deleted.                                  *)
Return(c) ==
  /\ loop[c] = "doit" /\ last_event[c] # None
  /\ event' = Deleted([event EXCEPT ![last_event[c]].returned = TRUE], last_event[c])
  /\ loop' = [loop EXCEPT ![c] = "poll"]
  /\ UNCHANGED <<jiffies, pq, ready, last_event, held>>

(* Or it never does: what runs on the core comes to a call of event_loop.   *)
EventLoop(c) ==
  /\ loop[c] = "doit"
  /\ loop' = [loop EXCEPT ![c] = "poll"]
  /\ UNCHANGED <<jiffies, pq, ready, last_event, held, event>>

(* apitHandler on core 0.                                                   *)
Tick ==
  /\ jiffies < W - 1
  /\ jiffies' = jiffies + 1
  /\ event' = [e \in Event |-> [event[e] EXCEPT !.left = IF @ = 0 THEN 0 ELSE @ - 1]]
  /\ UNCHANGED <<pq, ready, last_event, held, loop>>

Looping(c) == Poll(c) \/ Move(c) \/ Take(c) \/ EventLoop(c)

----------------------------------------------------------------------------
(* The comment of go, "No sooner than ms milli-seconds": an event starts    *)
(* after delay + 1 ticks, whichever core moves and takes it, unless its     *)
(* time wrapped.                                                            *)
NotEarly == \A e \in Event : event[e].early => event[e].wrapped

(* remove_if_ready looks at the head alone: when that is not due, nothing   *)
(* in the queue is.                                                         *)
DueFirst ==
  pq # << >> /\ pq[1].at > jiffies => \A k \in DOMAIN pq : pq[k].at > jiffies

(* event_loop deletes the event that ran last at the next round, also when  *)
(* its doit never came back: an event is deleted once it has run and the    *)
(* core is in the loop again, and only once unless its doit returned.       *)
DeletedOnce ==
  \A e \in Event :
    LET running == \E c \in Core : last_event[c] = e IN
    /\ ~running => event[e].deletes >= event[e].runs
    /\ event[e].deletes <= event[e].runs + (IF event[e].returned THEN 1 ELSE 0)

(* Every event that is made runs, before jiffies wraps.                     *)
EventsRun == \A e \in Event : event[e].made ~> event[e].runs = 1

(* Events run in the order and at the time of the timer queue.              *)
OnTime == NotEarly /\ DueFirst
==============================================================================
