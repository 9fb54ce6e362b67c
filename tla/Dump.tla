-------------------------------- MODULE Dump --------------------------------
(***************************************************************************)
(* dump of disassem.cpp: the listing of a program.  It walks the blocks    *)
(* over the memory and prints, line by line, what each block's type says   *)
(* the bytes are.                                                          *)
(*                                                                         *)
(* A line is what is printed, as the assembler would read it: its text (an *)
(* instruction as in Opcodes, or DB, DW, DS) and its numbers, each with    *)
(* the sign before it and the uint16_t parse_expr makes of it.             *)
(***************************************************************************)
EXTENDS Mnemonics, SequencesExt, FiniteSetsExt

CONSTANT Programs   \* the programs that may be listed: see IsProgram

Bytes == 0 .. 255
Words == 0 .. 65535
IsProgram(p) ==
  /\ p.org \in Words
  /\ p.memory \in Seq(Bytes)
  /\ p.mem_type \in Seq([type : {"code", "db", "ds", "dw"}, count : Nat])

ASSUME ProgramAssumption == \A p \in Programs : IsProgram(p)

VARIABLES
  program,    \* the program: org, memory and mem_type
  base,       \* the base numbers are printed in
  relative,   \* how the operand of a relative jump is printed
  phase,      \* "start", "listing", then "done" or "undefined"
  first,      \* bytes listed
  block,      \* iter, as an index into mem_type
  count,      \* bytes of the block not listed: a size_t, 2^64 less when negative
  lines       \* the lines printed

input == <<program, base, relative>>
vars == <<program, base, relative, phase, first, block, count, lines>>

Init ==
  /\ program \in Programs
  /\ base \in {"decimal", "hexadecimal"}
  /\ relative \in {"offset", "absolute"}
  /\ phase = "start" /\ first = 0 /\ block = 0 /\ count = 0 /\ lines = <<>>

Memory == program.memory
Blocks == program.mem_type

-----------------------------------------------------------------------------
(* Numbers. *)

Signed(b) == IF b < 128 THEN b ELSE b - 256
Plus(v) == [op |-> "+", v |-> v % 65536]
Minus(v) == [op |-> "-", v |-> v % 65536]

\* bto_string: in hexadecimal the value is not printed, and 0h is what is.
ByteNumber(v) == Plus(IF base = "hexadecimal" THEN 0 ELSE v)

\* sbto_string: an int8_t has no 128, so that -128 is printed as minus -128.
SignedNumber(b) ==
  IF Signed(b) >= 0 THEN Plus(Signed(b))
  ELSE IF Signed(b) = -128 THEN Minus(-128) ELSE Minus(-Signed(b))

\* wto_string.
WordNumber(low, high) == Plus(low + 256 * high)

\* Target, were the jump counted from its displacement.
TargetFromOperand(b, at) == program.org + at + Signed(b)

\* rel_addr, for a displacement b at offset at.
Target(b, at) == program.org + at + 1 + Signed(b)

\* The number printed for the operand at offset k of an instruction at offset at.
Number(kind, instruction, k, at) ==
  LET b == instruction[k + 1] IN
  CASE kind = "byte" -> ByteNumber(b)
    [] kind = "disp" -> SignedNumber(b)
    [] kind = "word" -> WordNumber(b, instruction[k + 2])
    [] kind = "rel" -> IF relative = "offset" THEN ByteNumber(Signed(b))
                       ELSE Plus(Target(b, at + k))

\* The line a case prints.  RST prints its own number with bto_string.
Mnemonic(row, instruction, at) ==
  [text |-> IF row.text[1] = "RST" /\ base = "hexadecimal" THEN <<"RST", Written(0)>>
            ELSE row.text,
   numbers |-> [h \in DOMAIN row.holes |->
                  Number(row.holes[h].kind, instruction, row.holes[h].at, at)]]

-----------------------------------------------------------------------------
(* The loop of dump: one action per line. *)

\* front() of the memory, begin() of the blocks.
Start ==
  /\ phase = "start"
  /\ IF Memory = <<>> \/ Blocks = <<>>
     THEN phase' = "undefined" /\ UNCHANGED <<block, count>>
     ELSE phase' = "listing" /\ block' = 1 /\ count' = Blocks[1].count
  /\ UNCHANGED <<input, first, lines>>

\* The block the next line is in: the next one only once when this one is used up.
NextBlock == IF count = 0 THEN block + 1 ELSE block
Left == IF count = 0 THEN Blocks[NextBlock].count ELSE count

InBlock(type) ==
  /\ phase = "listing" /\ first < Len(Memory)
  /\ NextBlock <= Len(Blocks) /\ Blocks[NextBlock].type = type
  /\ block' = NextBlock

\* Print a line about the next size bytes.
PrintLine(size, line, left) ==
  /\ first' = first + size
  /\ count' = left
  /\ lines' = Append(lines, line)
  /\ UNCHANGED <<input, phase>>

\* A line that needs a byte the memory has not.
ReadPast ==
  /\ phase' = "undefined"
  /\ UNCHANGED <<input, first, count, lines>>

ListCode ==
  /\ InBlock("code")
  /\ \/ /\ \A row \in CaseAt(Memory, first) : first + Len(row.bytes) > Len(Memory)
        /\ ReadPast
     \/ \E row \in CaseAt(Memory, first) :
          /\ first + Len(row.bytes) <= Len(Memory)
          /\ PrintLine(Len(row.bytes),
                   Mnemonic(row, SubSeq(Memory, first + 1, first + Len(row.bytes)), first),
                   Left - Len(row.bytes))

\* ListDs, were an empty block left without taking the next one.
ListDsAgain ==
  /\ phase = "listing" /\ first < Len(Memory)
  /\ NextBlock <= Len(Blocks) /\ Blocks[NextBlock].type = "ds"
  /\ IF Left = 0 THEN UNCHANGED vars
     ELSE /\ block' = NextBlock
          /\ PrintLine(Left, [text |-> <<"DS">>, numbers |-> <<Plus(Left)>>], 0)

ListDs ==
  /\ InBlock("ds")
  /\ IF first + Left > Len(Memory) THEN ReadPast
     ELSE PrintLine(Left, [text |-> <<"DS">>, numbers |-> <<Plus(Left)>>], 0)

\* ListDb, were the count tested before the line only.
ListDbWhole ==
  /\ InBlock("db")
  /\ IF first + 4 > Len(Memory) THEN ReadPast
     ELSE PrintLine(4, [text |-> <<"DB">>, numbers |-> [i \in 1 .. 4 |-> ByteNumber(Memory[first + i])]],
                Left - 4)

\* At most four bytes to a line; one that is not there when the block is empty.
ListDb ==
  LET size == IF Left \in 1 .. 4 THEN Left ELSE 4 IN
  /\ InBlock("db")
  /\ IF first + size > Len(Memory) THEN ReadPast
     ELSE PrintLine(size,
                [text |-> <<"DB">>,
                 numbers |-> [i \in 1 .. size |-> ByteNumber(Memory[first + i])]],
                Left - size)

\* ListDw, were the count decreased by words.
ListDwWords ==
  LET size == IF Left = 2 THEN 2 ELSE 4 IN
  /\ InBlock("dw")
  /\ IF first + size > Len(Memory) THEN ReadPast
     ELSE PrintLine(size,
                [text |-> <<"DW">>,
                 numbers |-> [i \in 1 .. size \div 2 |->
                                WordNumber(Memory[first + 2 * i - 1], Memory[first + 2 * i])]],
                Left - (size \div 2))

\* At most two words to a line.
ListDw ==
  LET size == IF Left = 2 THEN 2 ELSE 4 IN
  /\ InBlock("dw")
  /\ IF first + size > Len(Memory) THEN ReadPast
     ELSE PrintLine(size,
                [text |-> <<"DW">>,
                 numbers |-> [i \in 1 .. size \div 2 |->
                                WordNumber(Memory[first + 2 * i - 1], Memory[first + 2 * i])]],
                Left - size)

\* Finish, were the last byte left out of the memory.
FinishBeforeLast ==
  /\ phase = "listing"
  /\ first >= Len(Memory) - 1 \/ NextBlock > Len(Blocks)
  /\ phase' = "done"
  /\ UNCHANGED <<input, first, block, count, lines>>

\* No byte left, or no block.
Finish ==
  /\ phase = "listing"
  /\ first >= Len(Memory) \/ NextBlock > Len(Blocks)
  /\ phase' = "done"
  /\ UNCHANGED <<input, first, block, count, lines>>

Ended == phase \in {"done", "undefined"} /\ UNCHANGED vars

Next == Start \/ ListCode \/ ListDs \/ ListDb \/ ListDw \/ Finish \/ Ended

Spec == Init /\ [][Next]_vars /\ WF_vars(Next)
=============================================================================
