-------------------------------- MODULE Path ---------------------------------
(***************************************************************************)
(* find_path_node (kernel/sys.cc).  A path is a sequence of names and "/",  *)
(* no two names next to each other.                                         *)
(***************************************************************************)
EXTENDS Storage

CONSTANTS UserLo, UserHi, \* 0x80000000 and 0xF0000000
          Dirs,         \* the directories: node -> its entries
          Root          \* fs->root

IsDir(node) == node \in DOMAIN Dirs

(* Ext2::find                                                               *)
FindNode(dir, name) == LET number == find(Dirs[dir], name) IN IF number = 0 THEN Null ELSE number

NameAfter(path, i) == Min({k \in i .. Len(path) : path[k] # "/"} \cup {Len(path) + 1})

(* One round of the loop from position i: check, skip slashes, take a name  *)
(* and the one slash behind it.  Mutant: a file ends the walk.              *)
EnterFile(path, i, node) ==
  LET k == NameAfter(path, i)
      child == IF k > Len(path) THEN node ELSE FindNode(node, path[k])
  IN IF node = Null \/ ~IsDir(node) THEN [i |-> Len(path) + 1, node |-> node]
                                    ELSE [i |-> k + 2, node |-> child]

Enter(path, i, node) ==
  LET k == NameAfter(path, i)
      child == IF k > Len(path) THEN node ELSE FindNode(node, path[k])
  IN IF node = Null \/ ~IsDir(node) THEN [i |-> Len(path) + 1, node |-> Null]
                                    ELSE [i |-> k + 2, node |-> child]

(* The bytes of a path; all names but ".." are of one byte.                 *)
Bytes(path) == Len(path) + Len(SelectSeq(path, LAMBDA x : x = ".."))

(* The first and the last byte must be in user space, which is tested       *)
(* before and after the walk; the empty path fails the last test.           *)
FirstInside(path_name) == path_name >= UserLo /\ path_name < UserHi
LastInside(path_name, i) ==
  /\ (path_name + i - 1) % W < UserHi
  /\ (path_name + i - 1) % W >= (i - 1) % W

find_path_node(path_name, path, cwd) ==
  LET Round(s, n) == IF s.i > Len(path) THEN s ELSE Enter(path, s.i, s.node)
      from == IF path # << >> /\ path[1] = "/" THEN Root ELSE cwd
  IN IF ~FirstInside(path_name) \/ ~LastInside(path_name, Bytes(path)) THEN Null
     ELSE FoldLeft(Round, [i |-> 1, node |-> from], [n \in 1 .. Len(path) |-> n]).node

(* What a path names: its names in order, from a directory to an entry of   *)
(* it, however many slashes there are.  The empty path names nothing.       *)
Denotes(path, cwd) ==
  LET names == SelectSeq(path, LAMBDA x : x # "/")
      Into(node, name) == IF node = Null \/ ~IsDir(node) THEN Null ELSE FindNode(node, name)
  IN IF path = << >> THEN Null
     ELSE FoldLeft(Into, IF path[1] = "/" THEN Root ELSE cwd, names)
==============================================================================
