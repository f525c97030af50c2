---------------------------- MODULE MCAlgorithms -----------------------------
(***************************************************************************)
(* Inputs for Algorithms.                                                   *)
(***************************************************************************)
EXTENDS Algorithms

MCDirs ==
  (2 :> <<[name |-> ".", inode |-> 2], [name |-> "..", inode |-> 2], [name |-> "d", inode |-> 3],
          [name |-> "f", inode |-> 4]>>)
  @@ (3 :> <<[name |-> ".", inode |-> 3], [name |-> "..", inode |-> 2], [name |-> "f", inode |-> 5],
             [name |-> "g", inode |-> 0]>>)
Names == {"..", "d", "f", "g"}
TwoNames(path) == \E k \in 1 .. Len(path) - 1 : path[k] # "/" /\ path[k + 1] # "/"
MCPaths == {p \in UNION {[1 .. n -> Names \cup {"/"}] : n \in 0 .. 3} : ~TwoNames(p)}
MCPathNames == {UserLo - 1, UserLo, UserHi - 3, UserHi - 1, UserHi}

Whole == <<5, 3, 7, 6>>
MCNode(size) ==
  LET blocks == (size + block_size - 1) \div block_size IN
  [size_low |-> size, direct |-> SubSeq(Whole, 1, Min({blocks, Direct})),
   refs |-> SubSeq(Whole, Direct + 1, blocks), indirect_1 |-> 4]
MCNodeReads == {[node |-> MCNode(size), offset |-> offset, n |-> n] :
                  size \in {0, 1, 7, 8, 9, 13, 16}, offset \in {0, 1, 3, 4, 7, 8, 11, 15, 16, 17},
                  n \in {0, 1, 4, 5, 9, 16}}

MCDirFinds == {[dir |-> d, name |-> "a"] :
                 d \in UNION {[1 .. n -> [name : {"a", "b"}, inode : 0 .. 2]] : n \in 0 .. 3}}
MCSuperBlocks ==
  {[blocks_count |-> blocks, blocks_per_group |-> 8, inodes_count |-> 3 * ((blocks + 7) \div 8),
    inodes_per_group |-> 3, inode_size |-> 4, tables |-> <<2, 10, 18>>] : blocks \in 1 .. 24}

Headers == [load : BOOLEAN, vaddr : {31, 32, 35, 61, 63}, memsz : {0, 1, 3, 30, 33, 60},
            filesz : {1, 3}]
MCElfFiles == {[size |-> size, magic |-> magic, entry |-> entry, phoff |-> phoff, phentsize |-> 2,
             headers |-> <<p>>] :
              size \in {1, 4, 6}, magic \in BOOLEAN, entry \in {31, 35, 61, 62}, phoff \in {2, 5},
              p \in Headers}
           \cup {[size |-> 6, magic |-> TRUE, entry |-> 35, phoff |-> 2, phentsize |-> 2,
                  headers |-> <<p, q>>] :
                    p \in {h \in Headers : h.load /\ h.filesz = 1}, q \in {h \in Headers : h.filesz = 1}}
MCArgLengths == UNION {[1 .. n -> {1, 2, 5, 8}] : n \in 0 .. 3}

Directives(flags, convs, args) ==
  [flags : flags, min : {0, 3, 6}, max : {-1, 0, 2, 4}, conv : convs, arg : args]
MCIntDirectives ==
  Directives(SUBSET {"-", "+", "0", " "}, {"d", "p"}, {-128, -5, 0, 7, 127})
  \cup Directives(SUBSET {"-", "0"}, {"u", "o", "x", "X"}, {0, 9, 171, 255})
MCFpDirectives ==
  [flags : SUBSET {"-", "+", "0"}, min : {0, 8}, max : {-1, 0, 1, 2}, conv : {"f"},
   arg : {-99, -5, 0, 4, 25, 95, 996, 1050}]
MCStrDirectives ==
  Directives(SUBSET {"-"}, {"s"}, {<<>>, <<"a">>, <<"a", "b", "c">>, <<"a", "b", "c", "d">>})

MCWholeFormats ==
  <<[format |-> <<"x">>, args |-> <<>>], [format |-> <<"%", "-", "0", "5", ".", "1", "d">>, args |-> <<7>>],
   [format |-> <<"%", "+", "d">>, args |-> <<3>>], [format |-> <<"%", "*", ".", "*", "l", "x">>, args |-> <<4, 3, 200>>],
   [format |-> <<"%", "c">>, args |-> <<"c">>], [format |-> <<"%", "3", "s">>, args |-> <<<<"a", "b">>>>],
   [format |-> <<"%", "%">>, args |-> <<>>], [format |-> <<"%", "q">>, args |-> <<>>],
   [format |-> <<"%", "#", "h", "u">>, args |-> <<-1>>], [format |-> <<"%", "s">>, args |-> <<NullString>>],
   [format |-> <<"%", "n">>, args |-> <<0>>], [format |-> <<"%", "L", "f">>, args |-> <<125>>],
   [format |-> <<"%", "i", "%", "G">>, args |-> <<-1, 0>>]>>
Cut ==
  <<<<"%">>, <<"%", "-">>, <<"%", "3">>, <<"%", ".">>, <<"%", ".", "2">>, <<"%", "l">>,
    <<"%", "w">>, <<"%", "w", "x", "y">>>>
MCMoreFormats == MCWholeFormats \o [k \in DOMAIN Cut |-> [format |-> Cut[k], args |-> <<>>]]
==============================================================================
