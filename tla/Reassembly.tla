----------------------------- MODULE Reassembly -----------------------------
(***************************************************************************)
(* The listing given back to the assembler: dump composed with the opcode  *)
(* actions, DB, DW and DS, and with the patching of their operands.        *)
(***************************************************************************)
EXTENDS Dump

\* The instructions with a text: at most one.
Accepted(text) == {row \in Instructions : row.text = text}

\* What fixup_addresses stores for a number n at offset at, in a set that is
\* empty when a relative jump cannot reach it.
Stored(kind, n, at) ==
  LET value == IF n.op = "-" THEN -n.v ELSE n.v
      off == n.v - (program.org + at + 1)
  IN CASE kind \in {"byte", "disp"} -> {<<value % 256>>}
       [] kind = "word" -> {<<n.v % 256, n.v \div 256>>}
       [] kind = "rel" -> IF relative = "offset" THEN {<<n.v % 256>>}
                          ELSE IF off \in -128 .. 127 THEN {<<off % 256>>} ELSE {}

\* A row's bytes at offset at with its operands patched, in a set.
Assembled(row, numbers, at) ==
  FoldLeft(LAMBDA results, h :
             {[k \in DOMAIN bytes |->
                 IF k - 1 - row.holes[h].at \in 0 .. Len(stored) - 1
                 THEN stored[k - row.holes[h].at] ELSE bytes[k]] :
                bytes \in results,
                stored \in Stored(row.holes[h].kind, numbers[h], at + row.holes[h].at)},
           {row.bytes}, [h \in DOMAIN row.holes |-> h])

Values(line) == [k \in DOMAIN line.numbers |-> line.numbers[k].v]

\* The bytes of a line at offset at, in a set that is empty when it is rejected.
Reassembled(line, at) ==
  CASE line.text[1] = "DS" -> {[k \in 1 .. line.numbers[1].v |-> 0]}
    [] line.text[1] = "DW" -> {FlattenSeq([k \in DOMAIN line.numbers |->
                                 <<line.numbers[k].v % 256, line.numbers[k].v \div 256>>])}
    [] line.text = <<"DB">> -> {Values(line)}
    [] line.text = <<"DB", "n">> -> {Values(line)}
    [] line.text = <<"DB", "237", "n">> -> {<<237>> \o Values(line)}
    [] OTHER -> UNION {Assembled(row, line.numbers, at) : row \in Accepted(line.text)}

-----------------------------------------------------------------------------
(* Properties. *)

Printing == lines' # lines
Line == Last(lines')
Listed == SubSeq(Memory, first + 1, first')
Relists(bytes) == \E row \in CaseAt(bytes, 0) : Mnemonic(row, bytes, first) = Line

IsJump == \E row \in Accepted(Line.text) : \E h \in DOMAIN row.holes : row.holes[h].kind = "rel"

\* An absolute address that rel_addr had to wrap: fixup_addresses does not.
Wraps ==
  relative = "absolute" /\ IsJump /\ Target(Memory[first + 2], first + 1) \notin 0 .. 65535

\* Zeros that fill the whole address space: as a literal of 16 bits their number is 0.
WholeSpace == Line.text = <<"DS">> /\ first' - first = 65536

ListsFaithfully ==
  Printing /\ base = "decimal" /\ ~Wraps /\ ~WholeSpace => Reassembled(Line, first) = {Listed}

\* A program of the assembler: every line of its decimal listing assembles, at
\* its place, to the bytes it was printed for.  Two tables of 1300 instructions
\* written apart, the signs and widths of their operands and the relative
\* addresses agree.
FaithfulListing == [][ListsFaithfully]_vars

\* Bytes that printing may lose: a prefix that dump_IX_IY's default does not
\* print, and the undocumented copies of an instruction after ED.
Lossy == Line.text[1] = "DB" \/ Memory[first + 1] = 237

ListsAnyBytes ==
  Printing /\ Blocks[block'].type = "code" /\ base = "decimal" /\ ~Wraps =>
    \/ Line.text[1] = "DB" \/ Line.text = <<"IM", "0/1">>
    \/ /\ Reassembled(Line, first) # {}
       /\ \A bytes \in Reassembled(Line, first) : Relists(bytes) /\ (bytes = Listed \/ Lossy)

\* Any bytes as code: what is printed for them is an instruction the assembler
\* accepts and that is printed the same way again; only after ED may it be
\* assembled to other bytes.
StableListing == [][ListsAnyBytes]_vars

\* The bytes of the first blocks.
Covered(blocks, n) ==
  LET counts == [k \in DOMAIN blocks |-> blocks[k].count]
  IN MapThenSumSet(LAMBDA k : counts[k], 1 .. n)
Sum(n) == Covered(Blocks, n)

\* Blocks that are in the memory, with the offsets where instructions begin: a block
\* of code is one whole instruction after the other.
Fits(p, starts) ==
  LET End(k) == Covered(p.mem_type, k)
      blocks == DOMAIN p.mem_type
  IN /\ End(Len(p.mem_type)) <= Len(p.memory)
     /\ \A k \in {k \in blocks : p.mem_type[k].type = "code"} :
          /\ End(k - 1) \in starts
          /\ \A at \in starts \cap End(k - 1) .. End(k) - 1 :
               /\ CaseAt(p.memory, at) # {}
               /\ \A row \in CaseAt(p.memory, at) :
                    /\ Len(row.bytes) \in 1 .. End(k) - at
                    /\ at + Len(row.bytes) \in starts

\* A program as the assembler leaves it, from a source text or a skool file: what no
\* block covers are zeros at the end.
MadeOf(p, starts) ==
  /\ Fits(p, starts)
  /\ \A i \in Covered(p.mem_type, Len(p.mem_type)) + 1 .. Len(p.memory) : p.memory[i] = 0

\* Where the instructions of a program begin: in a block of code, each where the
\* one before ends.
InstructionsOf(p, k) ==
  LET End(n) == Covered(p.mem_type, n)
  IN FoldLeft(LAMBDA found, at :
                IF at \in found THEN found \cup {at + Len(row.bytes) : row \in CaseAt(p.memory, at)}
                ELSE found,
              {End(k - 1)}, [i \in 1 .. End(k) - End(k - 1) |-> End(k - 1) + i - 1])
Starts(p) ==
  UNION {InstructionsOf(p, k) : k \in {k \in DOMAIN p.mem_type : p.mem_type[k].type = "code"}}

EmptyBlock == \E k \in DOMAIN Blocks : Blocks[k].count = 0 /\ Blocks[k].type # "ds"
OddWords == \E k \in DOMAIN Blocks : Blocks[k].type = "dw" /\ Blocks[k].count % 2 = 1
\* Blocks that dump cannot keep in step with: a DB of empty strings makes the
\* first kind, an odd gap of a skool file before a DW the second.
Misfit == EmptyBlock \/ OddWords

\* A program of the assembler: the count of the block is always what is left of
\* it at the position reached, so no line straddles two blocks and no count
\* wraps, unless a block does not fit.
CountIsLeft == phase = "listing" /\ ~Misfit => first + count = Sum(block) /\ count >= 0

\* A program of the assembler, from a source text or a skool file: dump reads
\* outside the memory, or a block that is not there, only when there is nothing
\* to list or a block does not fit.
UndefinedOnlyOnMisfit == phase = "undefined" => Memory = <<>> \/ Blocks = <<>> \/ Misfit

\* A program of the assembler is listed to the end of its last statement, and
\* what is left out after it are zeros, the gap before an address of a skool
\* file that no statement followed.
CompleteListing ==
  phase = "done" /\ ~Misfit =>
    first = Sum(Len(Blocks)) /\ \A k \in first + 1 .. Len(Memory) : Memory[k] = 0

\* Any memory and any blocks, as a snapshot and the file beside it give them: blocks
\* that stay in the memory and do not cut an instruction in two are listed to the
\* end of the last one, and nothing past it, however much memory there is.
FittingBlocksListed ==
  Fits(program, Starts(program)) /\ ~Misfit =>
    /\ phase = "listing" => first + count = Sum(block) /\ count >= 0
    /\ phase = "undefined" => Memory = <<>> \/ Blocks = <<>>
    /\ phase = "done" => first = Sum(Len(Blocks))

\* The listing ends, whatever the blocks are.
Termination == <>(phase \in {"done", "undefined"})

\* The hexadecimal listing assembles to the bytes it was printed for.
ListsHexadecimal ==
  Printing /\ base = "hexadecimal" /\ relative = "offset" => Reassembled(Line, first) = {Listed}
HexadecimalListing == [][ListsHexadecimal]_vars

\* The address wexpr computes for a $ in an instruction at offset at.
Dollar(h, at) == (program.org + at + h.at + 2 - h.back) % 65536
\* In every 16 bit operand $ is the address of its own instruction, as in DW:
\* each of the actions passes wexpr the number of bytes it has pushed.
DollarIsInstruction ==
  Printing => \A row \in Accepted(Line.text) : \A k \in DOMAIN row.holes :
    row.holes[k].kind = "word" => Dollar(row.holes[k], first) = (program.org + first) % 65536
DollarAtInstruction == [][DollarIsInstruction]_vars
=============================================================================
