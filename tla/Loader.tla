------------------------------- MODULE Loader --------------------------------
(***************************************************************************)
(* Loading a program: ELF::valid_load and load (kernel/elf.cc), and the     *)
(* arguments that execl (kernel/sys.cc) and kernelMain (kernel/kernel.cc)   *)
(* leave on its stack.                                                      *)
(***************************************************************************)
EXTENDS Integers, SequencesExt

CONSTANTS Lo, Hi,       \* the checks' bounds, 0x80000000 and 0xF0001000
          Page,         \* 4096
          HeaderSize,   \* sizeof(ElfHeader)
          Entry,        \* sizeof(ProgramHeader)
          Top           \* addresses are modulo Top (2^32)

LOCAL Mod(x) == x % Top

(* A program header is inside the file.  When it is not, the file->read of  *)
(* it fails its assertion.                                                  *)
InFile(f, i) == f.phoff + f.phentsize * (i - 1) + Entry <= f.size

(* The test of one header of type load; Mutant: without the wrap.           *)
OutsideNoWrap(p) == p.vaddr < Lo \/ Mod(p.vaddr + p.memsz) >= Hi
Outside(p) ==
  \/ p.vaddr < Lo
  \/ Mod(p.vaddr + p.memsz) >= Hi
  \/ Mod(p.vaddr + p.memsz - 1) < Mod(p.vaddr - 1)

Loads(f) == {i \in DOMAIN f.headers : f.headers[i].load}
HasEntry(f, p) == f.entry >= p.vaddr /\ f.entry < Mod(p.vaddr + p.memsz)

EntryInside(f) == \E i \in Loads(f) : HasEntry(f, f.headers[i])

(* "valid", "invalid" (-1) or "panic" (a failed assertion), in the order of *)
(* the tests.                                                               *)
valid_load(f) ==
  LET wrong == {i \in DOMAIN f.headers : ~InFile(f, i)}
                 \cup {i \in Loads(f) : Outside(f.headers[i])}
  IN IF \/ f.size < HeaderSize
        \/ ~f.magic
        \/ f.entry < Lo \/ f.entry >= Hi
        \/ f.phoff > f.size \/ f.size < Len(f.headers) * f.phentsize
     THEN "invalid"
     ELSE IF wrong # {} THEN IF InFile(f, Min(wrong)) THEN "invalid" ELSE "panic"
     ELSE IF EntryInside(f) THEN "valid" ELSE "invalid"

(* The VME of a header, in whole pages, and the bytes read into it.         *)
Aligned(p) ==
  LET start == (p.vaddr \div Page) * Page
      end == Mod((Mod(p.vaddr + p.memsz - 1) \div Page + 1) * Page)
  IN [start |-> start, size |-> Mod(end - start)]
Stored(p) == p.vaddr .. p.vaddr + p.filesz - 1

----------------------------------------------------------------------------
(* execl: the strings, each with its terminator, below userEsp, and below   *)
(* them, word by word, 0, the pointers, argv and argc.  Addresses are       *)
(* relative to userEsp.                                                     *)
SumTo(lengths, j) == FoldLeft(LAMBDA a, b : a + b, 0, SubSeq(lengths, 1, j))

(* Mutant of Words: rounded down.                                           *)
WordsDown(bytes) == bytes \div 4
Words(bytes) == (bytes + 3) \div 4

Layout(lengths) ==
  LET n == Len(lengths)
      string_pointers == [j \in 1 .. n |-> -SumTo(lengths, j)]
      null == -Words(SumTo(lengths, n)) - 1
      first == null - n
      argv == first - 1
  IN [esp |-> 4 * (argv - 1),
      words |-> [k \in argv - 1 .. null |->
                   IF k = null THEN 0
                   ELSE IF k = argv THEN 4 * first
                   ELSE IF k = argv - 1 THEN n
                   ELSE string_pointers[k - first + 1]],
      strings |-> string_pointers]

(* kernelMain does the same for "/sbin/init", with the sums worked out.     *)
InitLayout ==
  [esp |-> -28,
   words |-> (-4 :> 0) @@ (-5 :> -12) @@ (-6 :> -20) @@ (-7 :> 1),
   strings |-> <<-12>>]

(* What main(argc, argv) finds in a layout: the address of each string.     *)
Arguments(s) ==
  LET argc == s.words[s.esp \div 4]
      argv == s.words[s.esp \div 4 + 1]
  IN [j \in 1 .. argc |-> s.words[argv \div 4 + j - 1]]
==============================================================================
