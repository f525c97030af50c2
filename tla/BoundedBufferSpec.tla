-------------------------- MODULE BoundedBufferSpec --------------------------
(***************************************************************************)
(* What a bounded buffer promises its clients: a put takes effect when      *)
(* there is room and a get when there is a value, each at one instant       *)
(* between call and return, and values come out in the order they went in.  *)
(***************************************************************************)
EXTENDS Integers, Sequences

CONSTANTS Client,       \* who calls put and get, one call at a time
          Value,        \* the values of type T
          Size,         \* the constructor's argument
          Null          \* no call, or no value yet

VARIABLES buf,          \* the values in the buffer, oldest first
          call          \* call[p]: the call p is in

absVars == <<buf, call>>

Call(op, v, done) == [op |-> op, value |-> v, done |-> done]

AbsInit == buf = << >> /\ call = [p \in Client |-> Null]

AbsRequest(p) ==
  /\ call[p] = Null
  /\ \/ \E v \in Value : call' = [call EXCEPT ![p] = Call("put", v, FALSE)]
     \/ call' = [call EXCEPT ![p] = Call("get", Null, FALSE)]
  /\ UNCHANGED buf

AbsPut(p) ==
  /\ call[p] # Null
  /\ call[p].op = "put" /\ ~call[p].done
  /\ Len(buf) < Size
  /\ buf' = Append(buf, call[p].value)
  /\ call' = [call EXCEPT ![p] = Call("put", call[p].value, TRUE)]

AbsGet(p) ==
  /\ call[p] # Null
  /\ call[p].op = "get" /\ ~call[p].done
  /\ buf # << >>
  /\ buf' = Tail(buf)
  /\ call' = [call EXCEPT ![p] = Call("get", Head(buf), TRUE)]

AbsReturn(p) ==
  /\ call[p] # Null
  /\ call[p].done
  /\ call' = [call EXCEPT ![p] = Null]
  /\ UNCHANGED buf

AbsNext == \E p \in Client : AbsRequest(p) \/ AbsPut(p) \/ AbsGet(p) \/ AbsReturn(p)

AbsSpec == AbsInit /\ [][AbsNext]_absVars
==============================================================================
