----------------------------- MODULE Algorithms ------------------------------
(***************************************************************************)
(* The kernel's algorithms on data, on bounded inputs: reading files and    *)
(* directories, paths and chdir, the block cache, loading a program, its    *)
(* arguments, and formatted output.  A behaviour makes one call and has its *)
(* result; a session of the cache or of chdir goes on.                      *)
(***************************************************************************)
EXTENDS Path, Loader, Text

CONSTANTS NodeReads,    \* [node, offset, n]
          DirFinds,     \* [dir, name]
          SuperBlocks,
          ElfFiles,
          ArgLengths,   \* lengths of the strings, terminators included
          Paths,
          PathNames,    \* addresses of paths
          BlockIds,
          IntDirectives, FpDirectives, StrDirectives,  \* [flags, min, max, conv, arg]
          WholeFormats, \* sequences of [format, args]: of whole directives,
          MoreFormats,  \* and others
          maxlen

VARIABLES op,           \* what is called
          in,           \* with what
          out,          \* and its result
          mru,          \* the Cache's queue
          recent,       \* the blocks read, the last one first
          cwd           \* cwd_node of the process

vars == <<op, in, out, mru, recent, cwd>>

Init ==
  /\ out = Null /\ mru = MRUQueue /\ recent = << >> /\ cwd = Root
  /\ \/ op = "node_read" /\ in \in NodeReads
     \/ op = "find" /\ in \in DirFinds
     \/ op = "mount" /\ in \in SuperBlocks
     \/ op = "valid_load" /\ in \in ElfFiles
     \/ op = "execl" /\ in \in ArgLengths
     \/ op = "kernelMain" /\ in = <<11>>
     \/ op = "int" /\ in \in IntDirectives
     \/ op = "fp" /\ in \in FpDirectives
     \/ op = "str" /\ in \in StrDirectives
     \/ op = "formats" /\ \E i \in DOMAIN WholeFormats, j \in DOMAIN MoreFormats :
                           in = <<WholeFormats[i], MoreFormats[j]>>
     \/ op \in {"cache", "chdir"} /\ in = Null

----------------------------------------------------------------------------
Returns(name, result) ==
  /\ op = name /\ out = Null /\ out' = result
  /\ UNCHANGED <<op, in, mru, recent, cwd>>

(* A format of one directive.                                               *)
Number(n) == IF n < 0 THEN << >> ELSE convert(n, 10, Digit)
Format(d) ==
  <<"%">> \o SetToSeq(d.flags) \o (IF d.min = 0 THEN << >> ELSE Number(d.min))
    \o (IF d.max < 0 THEN << >> ELSE <<".">> \o Number(d.max)) \o <<d.conv>>

DoRead == Returns("node_read", NodeRead(in.node, in.offset, in.n))
DoFind == Returns("find", find(in.dir, in.name))
DoMount ==
  Returns("mount", [i \in 1 .. in.inodes_count |-> get_node(Mount(in), i)])
DoValid == Returns("valid_load", valid_load(in))
DoExecl == Returns("execl", Layout(in))
DoMain == Returns("kernelMain", InitLayout)
DoInt == Returns("int", dopr(Format(in), <<in.arg>>, maxlen).out)
DoFp == Returns("fp", dopr(Format(in), <<in.arg>>, maxlen).out)
DoStr == Returns("str", dopr(Format(in), <<in.arg>>, maxlen).out)
DoFormats == Returns("formats", dopr(in[1].format \o in[2].format, in[1].args \o in[2].args, maxlen))

(* Cache::read_block, as often as one likes.                                *)
DoCache(id) ==
  LET r == CacheRead(mru, id) IN
  /\ op = "cache"
  /\ out' = r.bytes /\ mru' = r.mru
  /\ recent' = <<id>> \o SelectSeq(recent, LAMBDA b : b # id)
  /\ in' = id
  /\ UNCHANGED <<op, cwd>>

(* The system call chdir; any node may become the current directory.        *)
chdir(path_name, path) ==
  LET node == find_path_node(path_name, path, cwd) IN
  /\ op = "chdir"
  /\ cwd' = IF node = Null THEN cwd ELSE node
  /\ in' = [path_name |-> path_name, path |-> path, cwd |-> cwd]
  /\ out' = node
  /\ UNCHANGED <<op, mru, recent>>

Next ==
  \/ DoRead \/ DoFind \/ DoMount \/ DoValid \/ DoExecl \/ DoMain
  \/ DoInt \/ DoFp \/ DoStr \/ DoFormats
  \/ \E id \in BlockIds : DoCache(id)
  \/ \E path_name \in PathNames, path \in Paths : chdir(path_name, path)

Spec == Init /\ [][Next]_vars

After(name) == op = name /\ out # Null

----------------------------------------------------------------------------
(* Files.                                                                   *)

(* What block_io.h says of read_all: it stops short only at the end of the  *)
(* file, and returns -1 for an offset behind it (unless no byte is asked    *)
(* for), whatever blocks the bytes lie in.                                  *)
ReadAllContract ==
  After("node_read") =>
    LET left == in.node.size_low - in.offset IN
    out.count = IF in.n = 0 THEN 0 ELSE IF left < 0 THEN -1 ELSE Min({in.n, left})

(* Node::read_block and BlockIO: byte k of a file is read from the block    *)
(* that holds it, through the direct blocks, the indirect block and the     *)
(* sectors of the drive.                                                    *)
FileBytes ==
  After("node_read") =>
    LET all == in.node.direct \o in.node.refs
        Home(k) == all[k \div block_size + 1] * block_size + (k % block_size)
    IN out.bytes = [k \in 1 .. Max({out.count, 0}) |-> Home(in.offset + k - 1)]

(* Node::find: a name that has one live entry is found, unless a deleted    *)
(* entry of the name comes after it; a name without one is not.             *)
FindLive ==
  After("find") =>
    LET Of(live) == {k \in DOMAIN in.dir : in.dir[k].name = in.name
                                           /\ (in.dir[k].inode # 0) = live}
    IN /\ Of(TRUE) = {} => out = 0
       /\ \A k \in Of(TRUE) :
            Of(TRUE) = {k} /\ (\A d \in Of(FALSE) : d < k) => out = in.dir[k].inode

(* Ext2::get_node: a node is in the table of its group, and no two of them  *)
(* share a byte; and when the tables are on the disk, every number from 1   *)
(* to inodes_count is a node.                                               *)
NodesApart ==
  After("mount") =>
    LET NodeBytes(i) == out[i] .. out[i] + in.inode_size - 1
        Table(g) == in.tables[g] * block_size
                      .. in.tables[g] * block_size + in.inodes_per_group * in.inode_size - 1
        nodes == {i \in DOMAIN out : out[i] # Null}
        groups == {g \in DOMAIN in.tables : (g - 1) * in.blocks_per_group < in.blocks_count}
    IN /\ \A i \in nodes : \E g \in groups : NodeBytes(i) \subseteq Table(g)
       /\ \A i, j \in nodes : i # j => NodeBytes(i) \cap NodeBytes(j) = {}
       /\ (\A g \in groups : in.tables[g] < in.blocks_count) => nodes = DOMAIN out

(* find_path_node, from wherever chdir has led, finds what the path names,  *)
(* or nothing, if all of the path is in user space; and nothing otherwise.  *)
(* One kind of path is refused though it names a file: two or more slashes  *)
(* behind the file's name, of which one would do.                           *)
InUserSpace(c) == c.path_name \in UserLo .. UserHi - Max({Bytes(c.path), 1})
PathDenotes ==
  op = "chdir" /\ in # Null =>
    LET node == Denotes(in.path, in.cwd)
        refused == ~IsDir(node) /\ IsSuffix(<<"/", "/">>, in.path)
    IN out = IF InUserSpace(in) /\ ~refused THEN node ELSE Null

(* "'//' is the same as '/', so ignore extra slashes" (sys.cc, line 84):    *)
(* without that exception.  The code departs from it.                       *)
SlashesAlike ==
  op = "chdir" /\ in # Null /\ InUserSpace(in) => out = Denotes(in.path, in.cwd)

(* Cache::read_block: a block is what the drive holds, however the queue    *)
(* has been reordered.                                                      *)
CacheServes == op = "cache" /\ in # Null => out = Span(in * block_size, block_size)

(* MRUQueue: along next the nodes hold the blocks read last, the last one   *)
(* first; prev leads the other way.                                         *)
MruOrder ==
  LET forward == Chain(mru.first, mru.next)
      held == [k \in DOMAIN forward |-> mru.id[forward[k]]]
      kept == Min({Len(recent), CacheSize})
  IN /\ Chain(mru.last, mru.prev) = Reverse(forward)
     /\ SubSeq(held, 1, kept) = SubSeq(recent, 1, kept)

----------------------------------------------------------------------------
(* Programs.                                                                *)

(* ELF::valid_load lets through no file whose memory is outside of the      *)
(* user's range or whose entry point is outside of its memory, and load     *)
(* then stores inside of the VMEs it adds.  Two files are beyond its tests: *)
(* memory that ends at the very top of the address space, and more bytes in *)
(* the file than in memory.                                                 *)
ElfInside ==
  After("valid_load") /\ out = "valid" =>
    LET Memory(p) == p.vaddr .. p.vaddr + p.memsz - 1
        Added(p) == Aligned(p).start .. Aligned(p).start + Aligned(p).size - 1
        loaded == {in.headers[i] : i \in Loads(in)}
    IN /\ \A p \in loaded : p.vaddr + p.memsz = Top \/ Memory(p) \subseteq Lo .. Hi - 1
       /\ \E p \in loaded : in.entry \in Memory(p)
       /\ \A p \in loaded : Memory(p) \subseteq Added(p)
       /\ \A p \in loaded : p.filesz <= p.memsz => Stored(p) \subseteq Added(p)

(* The stack execl and kernelMain leave: main finds every argument, the     *)
(* list ends with 0, and no string, word or stack pointer overlaps another. *)
ArgsReadBack ==
  (After("execl") \/ After("kernelMain")) =>
    LET String(j) == out.strings[j] .. out.strings[j] + in[j] - 1
        Word(k) == 4 * k .. 4 * k + 3
        all == {String(j) : j \in DOMAIN in} \cup {Word(k) : k \in DOMAIN out.words}
    IN /\ Arguments(out) = out.strings
       /\ out.words[out.words[out.esp \div 4 + 1] \div 4 + Len(in)] = 0
       /\ Cardinality(all) = Len(in) + Cardinality(DOMAIN out.words)
       /\ \A s, t \in all : s # t => s \cap t = {}
       /\ \A s \in all : s \subseteq out.esp .. -1

----------------------------------------------------------------------------
(* Formatted output.                                                        *)

(* What a piece of text says: the number its digits denote, with its sign.  *)
Digits(text) == SelectSeq(text, LAMBDA c : c \in Range(Digit) \cup Range(DIGIT))
ValueOf(c) == CHOOSE v \in 0 .. 15 : Digit[v + 1] = c \/ DIGIT[v + 1] = c
Denoted(text, base) == FoldLeft(LAMBDA v, c : base * v + ValueOf(c), 0, Digits(text))
Base(conv) == IF conv \in {"x", "X", "p"} THEN 16 ELSE IF conv = "o" THEN 8 ELSE 10
Trimmed(text) == SelectSeq(text, LAMBDA c : c # " ")
IsSign(text, c) == Len(text) > 0 /\ text[1] = c

(* fmtint: the digits denote the argument, behind its sign; there are at    *)
(* least as many as the precision says, and the field is as wide as asked,  *)
(* unless zeros are asked for together with a precision.                    *)
IntText ==
  After("int") =>
    LET text == Trimmed(out)
        signed == in.conv \in {"d", "i", "p"}
        sign == signed /\ (in.arg < 0 \/ in.flags \cap {"+", " "} # {})
        digits == Len(Digits(out))
        shortest == Max({digits, in.max})
    IN /\ IsSign(text, "-") = (signed /\ in.arg < 0)
       /\ IsSign(text, "+") = (signed /\ in.arg >= 0 /\ "+" \in in.flags)
       /\ Denoted(out, Base(in.conv)) = IF signed /\ in.arg < 0 THEN -in.arg ELSE in.arg % Long
       /\ digits >= in.max
       /\ \/ "0" \in in.flags /\ in.max >= 0
          \/ Len(out) = Max({in.min, digits + (IF sign THEN 1 ELSE 0)})
       /\ digits + Len(SelectSeq(out, LAMBDA c : c \in {"+", "-", " "})) = Len(out)

(* fmtfp: the digits denote the argument rounded to the precision, unless   *)
(* its fraction starts with 0; the field is as wide as asked, unless zeros  *)
(* fill it up behind a sign or there is no fraction.                        *)
FpText ==
  After("fp") =>
    LET max == IF in.max < 0 THEN 6 ELSE in.max
        size == IF in.arg < 0 THEN -in.arg ELSE in.arg
        scaled == pow10(max) * size
        nearest == (2 * scaled + Scale) \div (2 * Scale)
        sign == in.arg < 0 \/ in.flags \cap {"+", " "} # {}
    IN /\ \/ max > 1 /\ nearest % pow10(max) < pow10(max - 1)
          \/ Denoted(out, 10) = nearest
       /\ IsSign(Trimmed(out), "-") = (in.arg < 0)
       /\ ("0" \in in.flags /\ sign) \/ max = 0 \/ Len(out) >= in.min

(* fmtstr: the string, cut to the precision and then padded to the width,   *)
(* when no padding is needed or the precision leaves room for it.           *)
StrText ==
  After("str") =>
    LET cut == IF in.max < 0 THEN in.arg ELSE SubSeq(in.arg, 1, Min({in.max, Len(in.arg)}))
        pad == [k \in 1 .. in.min - Len(cut) |-> " "]
    IN \/ in.max >= 0 /\ in.max < in.min
       \/ out = IF "-" \in in.flags THEN cut \o pad ELSE pad \o cut

(* dopr: a directive leaves nothing behind for the next one; the output of  *)
(* two formats is that of the one followed by that of the other, and %n     *)
(* counts what both have put out.                                           *)
Compositional ==
  After("formats") =>
    LET first == dopr(in[1].format, in[1].args, maxlen)
        second == dopr(in[2].format, in[2].args, maxlen)
    IN /\ out.out = first.out \o second.out
       /\ out.counts = first.counts
            \o [k \in DOMAIN second.counts |-> Len(first.out) + second.counts[k]]

(* dopr ends, and stays inside of the format and its arguments, unless the  *)
(* format ends with %w.                                                     *)
DoprEnds ==
  After("formats") =>
    /\ out.state = "DONE"
    /\ \/ out.i <= Len(in[1].format) + Len(in[2].format) + 2
       \/ IsSuffix(<<"w">>, in[2].format)

(* Reading a file gives its bytes, as many as there are.                    *)
ReadsFile == ReadAllContract /\ FileBytes

(* A path leads to the node it names, through entries and inode tables.     *)
LooksUp == FindLive /\ NodesApart /\ PathDenotes

(* The cache is transparent, and holds what was read last.                  *)
CacheRight == CacheServes /\ MruOrder

(* Formatted output says what its arguments are.                            *)
Prints == IntText /\ FpText /\ StrText /\ Compositional /\ DoprEnds
==============================================================================
