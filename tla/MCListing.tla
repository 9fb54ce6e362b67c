----------------------------- MODULE MCListing -----------------------------
(* Programs to list: every instruction, every mixture of blocks, raw bytes. *)
EXTENDS Reassembly

MCLiterals == 0 .. 7 \cup {8 * k : k \in 0 .. 7} \cup {9, 65536 + 3}

Program(origin, memory, blocks) == [org |-> origin, memory |-> memory, mem_type |-> blocks]
Block(type, n) == [type |-> type, count |-> n]
AllCode(origin, memory) == Program(origin, memory, <<Block("code", Len(memory))>>)

-----------------------------------------------------------------------------
(* Every instruction of the assembler, with every operand byte v. *)

Operands(row) ==
  UNION {LET at == row.holes[h].at
         IN IF row.holes[h].kind = "word" THEN {at + 1, at + 2} ELSE {at + 1} : h \in DOMAIN row.holes}
With(row, v) == [k \in DOMAIN row.bytes |-> IF k \in Operands(row) THEN v ELSE row.bytes[k]]

InstructionPrograms ==
  {AllCode(23296, With(row, v)) : row \in Instructions, v \in {0, 1, 127, 128, 254}}
  \cup {AllCode(origin, With(row, v)) :
          row \in {row \in Instructions : row.holes # <<>> /\ row.holes[1].kind = "rel"},
          v \in {0, 1, 2, 125, 126, 127, 128, 253, 254, 255}, origin \in {0, 1, 130, 65405, 65534}}

-----------------------------------------------------------------------------
(* Up to three statements: their bytes, in the blocks they leave. *)

Statement(type, bytes) == [type |-> type, bytes |-> bytes]
Numbers(n) == [k \in 1 .. n |-> 16 * k]
Statements ==
  {Statement("code", b) : b \in {<<0>>, <<24, 254>>, <<221, 54, 128, 7>>}}
  \cup {Statement("db", Numbers(n)) : n \in {0, 1, 3, 4, 5}}
  \cup {Statement("ds", [k \in 1 .. n |-> 0]) : n \in {0, 2, 300}}
  \cup {Statement("dw", Numbers(n)) : n \in {2, 4, 6}}

\* data::parse's accounting of one statement.
Assemble(p, s) ==
  LET n == Len(s.bytes) IN
  Program(p.org, p.memory \o s.bytes,
    IF p.mem_type = <<>> \/ p.mem_type[Len(p.mem_type)].type # s.type
    THEN Append(p.mem_type, Block(s.type, n))
    ELSE [p.mem_type EXCEPT ![Len(p.mem_type)].count = @ + n])
MixedPrograms ==
  {FoldLeft(Assemble, Program(23296, <<>>, <<>>), s) :
     s \in UNION {[1 .. k -> Statements] : k \in 0 .. 3}}

-----------------------------------------------------------------------------
(* Skool files: zeros between the statements, each in the block of the next one. *)

\* A line of a skool file: the gap before it and its statement, or none.
GapLines ==
  {[gap |-> g, statement |-> s] : g \in {0, 1, 4}, s \in
     {Statement("none", <<>>), Statement("code", <<24, 254>>), Statement("db", Numbers(5)),
      Statement("ds", <<0, 0>>), Statement("dw", Numbers(2)), Statement("dw", Numbers(4))}}
Zeros(n) == [k \in 1 .. n |-> 0]

\* A line without a statement leaves its gap to the next one.
Pad(p, line) ==
  LET closed == FoldLeft(LAMBDA n, b : n + b.count, 0, p.mem_type)
      padded == p.memory \o Zeros(line.gap)
  IN IF line.statement.type = "none" THEN [p EXCEPT !.memory = padded]
     ELSE [Assemble([p EXCEPT !.memory = SubSeq(padded, 1, closed)],
                    Statement(line.statement.type,
                              SubSeq(padded, closed + 1, Len(padded)) \o line.statement.bytes))
             EXCEPT !.memory = padded \o line.statement.bytes]
GapPrograms ==
  {FoldLeft(Pad, Program(32768, <<>>, <<>>), f) :
     f \in {f \in UNION {[1 .. k -> GapLines] : k \in 1 .. 3} : f[1].gap = 0}}

\* Two DS that fill the address space, one byte less, and zeros after them.
ZeroPrograms ==
  {Program(0, [k \in 1 .. n |-> 0], <<Block("ds", m)>>) : n \in {65535, 65536}, m \in {65535, 65536}}
AssembledPrograms ==
  InstructionPrograms \cup MixedPrograms \cup GapPrograms
    \cup {p \in ZeroPrograms : p.mem_type[1].count <= Len(p.memory)}

ASSUME CaseAssumption == OneCase
ASSUME MadeAssumption == \A p \in AssembledPrograms : MadeOf(p, Starts(p))

-----------------------------------------------------------------------------
(* Bytes as a snapshot holds them: any opcode, also one cut off by the end of *)
(* the memory or of its block.                                                *)

Snapshots ==
  {AllCode(23296, <<b>> \o rest) : b \in 0 .. 255, rest \in {<<>>, <<9>>, <<200, 31, 0>>}}
  \cup {AllCode(23296, <<p, b>> \o rest) :
          p \in {203, 221, 237, 253}, b \in 0 .. 255, rest \in {<<>>, <<128, 77>>}}
  \cup {AllCode(23296, <<p, 203, 130, b>>) : p \in {221, 253}, b \in 0 .. 255}
  \cup {Program(65530, <<24, 9, 1, 2, 3, 4>>, <<Block(s, m), Block(t, n)>>) :
          s, t \in {"code", "db", "ds", "dw"}, m \in 0 .. 4, n \in 0 .. 4}

-----------------------------------------------------------------------------
(* Instructions that remember how they were written. *)

LiteralsBeyond7 == 0 .. 10 \cup {32767, 32769, 65535}
WrittenPrograms ==
  {[org |-> 23296, memory |-> With(row, 1), written |-> row.text,
    mem_type |-> <<Block("code", Len(row.bytes))>>] : row \in Instructions}

\* The comment on every action of BIT, SET and RES: "Bit is 0-7".  Were another
\* number refused, the listing would show the number that was written.
BitAsWritten ==
  [][Printing /\ base = "decimal" /\ Line.text[1] \in {"BIT", "SET", "RES"}
       => Line.text = program.written]_vars

-----------------------------------------------------------------------------
(* The rows are the templates Assembler takes. *)

Text == INSTANCE Source WITH
  ByteSize <- 256, WordSize <- 65536, DefaultOrg <- 23296, Names <- {}, NoName <- "none",
  Sources <- {}, BitOr <- LAMBDA x, y : x, BitAnd <- LAMBDA x, y : x

Template(row) ==
  LET holes == {row.holes[h] : h \in DOMAIN row.holes}
      At(kinds) == {h.at : h \in {h \in holes : h.kind \in kinds}}
      Expression == <<[t |-> "num", v |-> 1]>>
  IN [bytes |-> row.bytes,
      rel |-> [o \in At({"rel"}) |-> Expression],
      byte |-> [o \in At({"byte", "disp"}) |-> [expr |-> Expression, op |-> "-"]],
      word |-> [o \in At({"word"}) |-> [expr |-> Expression, back |-> o + 2]]]

ASSUME TemplateAssumption == \A row \in Instructions : Text!IsTemplate(Template(row))
=============================================================================
