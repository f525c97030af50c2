------------------------------- MODULE MCBoot --------------------------------
(***************************************************************************)
(* Boot of three cores and less.                                            *)
(***************************************************************************)
EXTENDS Boot

Proc(processorId, apicId) == [type |-> 0, processorId |-> processorId, apicId |-> apicId]
IO == [type |-> 1, address |-> 1]
Nothing == [type |-> 7]
Table(entries, behind) == [entries |-> entries, behind |-> behind]
MCTables ==
  {Table(<<Proc(0, 0), Proc(1, 1), Proc(2, 2), IO>>, Nothing),
   Table(<<Proc(0, 0), Proc(1, 1), IO>>, Nothing),
   Table(<<Proc(0, 0), Proc(1, 1), IO>>, Proc(9, 9)),
   Table(<<Proc(1, 1), Proc(0, 0), IO>>, Nothing),
   Table(<<Proc(0, 0), Proc(1, 2), IO>>, IO)}
==============================================================================
