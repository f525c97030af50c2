------------------------------ MODULE QueueSpec ------------------------------
(***************************************************************************)
(* What Queue promises: add and remove take effect at one instant between   *)
(* call and return, and nodes come out in the order they went in.           *)
(***************************************************************************)
EXTENDS Sequences, Functions

CONSTANTS Core, Node, Null

VARIABLES q,            \* the nodes in the queue, oldest first
          op,           \* op[c]: the operation core c is in, or "none"
          node,         \* node[c]: its argument, or its result
          done          \* the cores whose operation has taken effect

absVars == <<q, op, node, done>>

AbsInit ==
  /\ q = << >>
  /\ op = [c \in Core |-> "none"]
  /\ node = [c \in Core |-> Null]
  /\ done = {}

(* A caller adds a node that is nowhere else.                               *)
AbsCall(c) ==
  /\ op[c] = "none"
  /\ \/ \E t \in Node : /\ t \notin Range(q) \cup Range(node)
                        /\ op' = [op EXCEPT ![c] = "add"]
                        /\ node' = [node EXCEPT ![c] = t]
     \/ op' = [op EXCEPT ![c] = "remove"] /\ UNCHANGED node
  /\ UNCHANGED <<q, done>>

AbsAdd(c) ==
  /\ op[c] = "add" /\ c \notin done
  /\ q' = Append(q, node[c])
  /\ done' = done \cup {c}
  /\ UNCHANGED <<op, node>>

AbsRemove(c) ==
  /\ op[c] = "remove" /\ c \notin done
  /\ IF q = << >> THEN UNCHANGED <<q, node>>
     ELSE q' = Tail(q) /\ node' = [node EXCEPT ![c] = Head(q)]
  /\ done' = done \cup {c}
  /\ UNCHANGED op

(* The caller of remove deletes the node, or keeps nothing of it.           *)
AbsReturn(c) ==
  /\ c \in done
  /\ op' = [op EXCEPT ![c] = "none"]
  /\ node' = [node EXCEPT ![c] = Null]
  /\ done' = done \ {c}
  /\ UNCHANGED q

AbsNext == \E c \in Core : AbsCall(c) \/ AbsAdd(c) \/ AbsRemove(c) \/ AbsReturn(c)

AbsSpec == AbsInit /\ [][AbsNext]_absVars
==============================================================================
