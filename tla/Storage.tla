------------------------------- MODULE Storage -------------------------------
(***************************************************************************)
(* Reading the file system: BlockIO (kernel/block_io.cc), Node and Ext2     *)
(* (kernel/ext2.cc, ext2.h), Cache (kernel/cache.cc) with its MRUQueue      *)
(* (kernel/queue.h).  A byte is named by its address on the disk, so that   *)
(* what is read says where it came from.                                    *)
(***************************************************************************)
EXTENDS Integers, SequencesExt

CONSTANTS block_size,   \* of the file system
          sector_size,  \* of the drive
          Ref,          \* bytes of a block number (4)
          Direct,       \* direct blocks of a node (12)
          W,            \* integers are modulo W (2^32)
          CacheSize,    \* nodes of an MRUQueue (16)
          Null

Span(a, n) == [k \in 1 .. n |-> a + k - 1]

----------------------------------------------------------------------------
(* BlockIO over a function block, what read_block reads.                    *)
read(size, bs, block, offset, desired_n) ==
  LET n == Min({desired_n, size - offset})
      in == offset % bs
      actual_n == Min({bs - in, n})
  IN IF offset > size THEN [count |-> -1, bytes |-> << >>]
     ELSE IF offset = size THEN [count |-> 0, bytes |-> << >>]
     ELSE [count |-> actual_n, bytes |-> SubSeq(block[offset \div bs], in + 1, in + actual_n)]

(* The loop, with what it has in hand; it takes at most n rounds.           *)
read_all(size, bs, block, offset, n) ==
  LET Round(s, k) ==
        LET r == read(size, bs, block, offset + s.count, n - s.count) IN
        IF s.end \/ s.count = n THEN s
        ELSE IF r.count < 0 THEN [count |-> r.count, bytes |-> << >>, end |-> TRUE]
        ELSE [count |-> s.count + r.count, bytes |-> s.bytes \o r.bytes, end |-> r.count = 0]
      s == FoldLeft(Round, [count |-> 0, bytes |-> << >>, end |-> FALSE], Span(1, n))
  IN [count |-> s.count, bytes |-> s.bytes]

(* The drive: sectors, and a size that "is not correct", ~0.                *)
Sector == [sector \in Nat |-> Span(sector * sector_size, sector_size)]
IdeRead(offset, n) == read_all(W - 1, sector_size, Sector, offset % W, n)

----------------------------------------------------------------------------
(* A node: size_low, the direct blocks, and the numbers in the block        *)
(* indirect_1.  n_sectors covers the blocks of the file and the indirect    *)
(* one.                                                                     *)
refs_per_block == block_size \div Ref
Blocks(node) == Len(node.direct) + Len(node.refs) + (IF node.refs = << >> THEN 0 ELSE 1)

(* ide->read(indirect_1 * block_size + (index - 12) * 4, block_index)       *)
RefAt(node, address) == node.refs[(address - node.indirect_1 * block_size) \div Ref + 1]

(* Mutant of block_index: one direct block too many.                        *)
block_index_late(node, index) ==
  IF index <= Direct /\ index < Len(node.direct) THEN node.direct[index + 1]
  ELSE RefAt(node, IdeRead(node.indirect_1 * block_size
                             + (IF index > Direct THEN index - Direct - 1 ELSE 0) * Ref, Ref).bytes[1])

block_index(node, index) ==
  IF index < Direct THEN node.direct[index + 1]
  ELSE RefAt(node, IdeRead(node.indirect_1 * block_size + (index - Direct) * Ref, Ref).bytes[1])

(* Node::read_block; Null where it panics.                                  *)
NodeBlock(node, index) ==
  IF index < Blocks(node) /\ index < Direct + refs_per_block
  THEN IdeRead(block_index(node, index) * block_size, block_size).bytes ELSE Null

NodeRead(node, offset, n) ==
  read_all(node.size_low, block_size, [index \in Nat |-> NodeBlock(node, index)], offset, n)

(* Node::entries and find: the last entry of the name, 0 if there is none;  *)
(* a deleted entry has number 0 and keeps its name.                         *)
find(dir, name) ==
  LET Work(out, e) == IF e.name = name THEN e.inode ELSE out
  IN FoldLeft(Work, 0, dir)

(* The constructor of Ext2, from the superblock.                            *)
Mount(sb) ==
  LET nGroups == (sb.blocks_count + sb.blocks_per_group - 1) \div sb.blocks_per_group
  IN [nGroups |-> nGroups, numberOfNodes |-> sb.inodes_count, numberOfBlocks |-> sb.blocks_count,
      iNodesPerGroup |-> sb.inodes_per_group, iNodeSize |-> sb.inode_size,
      groupTable |-> ((2 * sector_size) \div block_size + 1) * block_size,
      iNodeTables |-> [i \in 0 .. nGroups - 1 |-> sb.tables[i + 1]]]

(* get_node: where the node is read, Null if an assertion fails.            *)
get_node(fs, number) ==
  LET index == number - 1
      group == index \div fs.iNodesPerGroup
  IN IF \/ number = 0 \/ number > fs.numberOfNodes \/ group >= fs.nGroups
        \/ fs.iNodeTables[group] > fs.numberOfBlocks
     THEN Null
     ELSE fs.iNodeTables[group] * block_size + (index % fs.iNodesPerGroup) * fs.iNodeSize

----------------------------------------------------------------------------
(* MRUQueue: a doubly linked list of CacheSize nodes with the block each    *)
(* holds (-1 at first).                                                     *)
MRUQueue ==
  [first |-> 1, last |-> CacheSize,
   next |-> [i \in 1 .. CacheSize |-> IF i = CacheSize THEN Null ELSE i + 1],
   prev |-> [i \in 1 .. CacheSize |-> IF i = 1 THEN Null ELSE i - 1],
   id |-> [i \in 1 .. CacheSize |-> -1],
   buffer |-> [i \in 1 .. CacheSize |-> << >>]]

(* The nodes met from one of them along a link.                             *)
Chain(from, link) ==
  LET Follow(s, k) == IF s # << >> /\ link[Last(s)] = Null THEN s
                      ELSE Append(s, IF s = << >> THEN from ELSE link[Last(s)])
  IN FoldLeft(Follow, << >>, Span(1, CacheSize + 1))

(* The part of contains that takes a node out and puts it first.  Mutant:   *)
(* last is left alone.                                                      *)
ToFrontKeepLast(m, it) ==
  IF m.prev[it] = Null THEN m
  ELSE LET m1 == [m EXCEPT !.next[m.prev[it]] = m.next[it]]
           m2 == IF m.next[it] # Null THEN [m1 EXCEPT !.prev[m.next[it]] = m.prev[it]] ELSE m1
       IN [m2 EXCEPT !.prev[it] = Null, !.next[it] = m.first, !.prev[m.first] = it, !.first = it]

ToFront(m, it) ==
  IF m.prev[it] = Null THEN m
  ELSE LET m1 == [m EXCEPT !.next[m.prev[it]] = m.next[it]]
           m2 == IF m.next[it] # Null THEN [m1 EXCEPT !.prev[m.next[it]] = m.prev[it]]
                                      ELSE [m1 EXCEPT !.last = m.prev[it]]
       IN [m2 EXCEPT !.prev[it] = Null, !.next[it] = m.first, !.prev[m.first] = it, !.first = it]

contains(m, id) ==
  LET hits == SelectSeq(Chain(m.first, m.next), LAMBDA it : m.id[it] = id)
  IN IF hits = << >> THEN [hit |-> FALSE, mru |-> m]
                     ELSE [hit |-> TRUE, mru |-> ToFront(m, Head(hits))]

(* The last node becomes the first.                                         *)
add(m, id, buffer) ==
  LET cur == m.last IN
  [m EXCEPT !.last = m.prev[cur], !.next[m.prev[cur]] = Null,
            !.prev[cur] = Null, !.next[cur] = m.first, !.prev[m.first] = cur, !.first = cur,
            !.id[cur] = id, !.buffer[cur] = buffer]

(* Cache::read_block                                                        *)
CacheRead(m, id) ==
  LET c == contains(m, id)
      buffer == IF c.hit THEN c.mru.buffer[c.mru.first]
                         ELSE IdeRead(id * block_size, block_size).bytes
  IN [bytes |-> buffer, mru |-> IF c.hit THEN c.mru ELSE add(m, id, buffer)]
==============================================================================
