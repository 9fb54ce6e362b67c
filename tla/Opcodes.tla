------------------------------ MODULE Opcodes ------------------------------
(***************************************************************************)
(* The instruction set of the assembler: what each opcode action of        *)
(* parsers.cpp pushes, and which operands it leaves to fixup_addresses.    *)
(*                                                                         *)
(* A row is one production with its registers and literals chosen.  Its    *)
(* text is the instruction with an operand replaced by what the action     *)
(* takes it for:                                                           *)
(*   "n"  an expression stored in a byte        (bexpr)                    *)
(*   "nn" an expression stored in two           (wexpr)                    *)
(*   "e"  the operand of a relative jump        (rel_label)                *)
(*   "(IX+d)", "(IY+d)"  a displacement with its sign  (bexpr with op)     *)
(* holes are these operands in the order of the text: at is the offset of  *)
(* the placeholder, back the first argument of wexpr.  A text with no row  *)
(* is one the assembler rejects.                                           *)
(***************************************************************************)
EXTENDS Integers, Sequences, TLC

CONSTANT Literals   \* the numbers a source writes where an integer is required

-----------------------------------------------------------------------------
(* Rows. *)

Hole(kind, at, back) == [kind |-> kind, at |-> at, back |-> back]
Num(at) == <<Hole("byte", at, 0)>>
Disp(at) == <<Hole("disp", at, 0)>>
Jump(at) == <<Hole("rel", at, 0)>>
\* Addr, were one number of bytes passed to wexpr by every action.
AddrAfterThree(at, back) == <<Hole("word", at, 3)>>
Addr(at, back) == <<Hole("word", at, back)>>

RowWith(text, bytes, holes) == [text |-> text, bytes |-> bytes, holes |-> holes]
Row(text, bytes) == RowWith(text, bytes, <<>>)

\* What an "integer" token leaves in data::_integer, and how it is written.
Integer(i) == i % 65536
Written(i) == ToString(i)

-----------------------------------------------------------------------------
(* Registers and conditions. *)

r == [A |-> 7, B |-> 0, C |-> 1, D |-> 2, E |-> 3, H |-> 4, L |-> 5]
dd == [BC |-> 0, DE |-> 1, HL |-> 2, SP |-> 3]
qq == [BC |-> 0, DE |-> 1, HL |-> 2, AF |-> 3]
pp == [BC |-> 0, DE |-> 1, IX |-> 2, SP |-> 3]
rr == [BC |-> 0, DE |-> 1, IY |-> 2, SP |-> 3]
cc == [NZ |-> 0, Z |-> 1, NC |-> 2, C |-> 3, PO |-> 4, PE |-> 5, P |-> 6, M |-> 7]
c == [NZ |-> 0, Z |-> 1, NC |-> 2, C |-> 3]

R == DOMAIN r
IndexRegisters == {"IX", "IY"}
Prefix == [IX |-> 221, IY |-> 253]
High == [IX |-> "IXH", IY |-> "IYH"]
Low == [IX |-> "IXL", IY |-> "IYL"]
Indexed == [IX |-> "(IX+d)", IY |-> "(IY+d)"]

-----------------------------------------------------------------------------
(* Loads. *)

RegisterLoads ==
  {Row(<<"LD", x, y>>, <<64 + 8 * r[x] + r[y]>>) : x \in R, y \in R}
  \cup {Row(<<"LD", x, High[i]>>, <<Prefix[i], 68 + 8 * r[x]>>) : x \in R, i \in IndexRegisters}
  \cup {Row(<<"LD", x, Low[i]>>, <<Prefix[i], 69 + 8 * r[x]>>) : x \in R, i \in IndexRegisters}

ByteLoads ==
  {RowWith(<<"LD", x, "n">>, <<6 + 8 * r[x], 0>>, Num(1)) : x \in R}
  \cup {RowWith(<<"LD", High[i], "n">>, <<Prefix[i], 38, 0>>, Num(2)) : i \in IndexRegisters}
  \cup {RowWith(<<"LD", Low[i], "n">>, <<Prefix[i], 46, 0>>, Num(2)) : i \in IndexRegisters}
  \cup {RowWith(<<"LD", "(HL)", "n">>, <<54, 0>>, Num(1))}
  \cup {RowWith(<<"LD", Indexed[i], "n">>, <<Prefix[i], 54, 0, 0>>, Disp(2) \o Num(3)) :
          i \in IndexRegisters}

PointerLoads ==
  {Row(<<"LD", x, "(HL)">>, <<70 + 8 * r[x]>>) : x \in R}
  \cup {Row(<<"LD", "(HL)", x>>, <<112 + r[x]>>) : x \in R}
  \cup {RowWith(<<"LD", x, Indexed[i]>>, <<Prefix[i], 70 + 8 * r[x], 0>>, Disp(2)) :
          x \in R, i \in IndexRegisters}
  \cup {RowWith(<<"LD", Indexed[i], x>>, <<Prefix[i], 112 + r[x], 0>>, Disp(2)) :
          x \in R, i \in IndexRegisters}

\* Only register A is valid.
AccumulatorLoads ==
  {Row(<<"LD", "A", "(BC)">>, <<10>>), Row(<<"LD", "A", "(DE)">>, <<26>>),
   RowWith(<<"LD", "A", "(nn)">>, <<58, 0, 0>>, Addr(1, 3)),
   Row(<<"LD", "(BC)", "A">>, <<2>>), Row(<<"LD", "(DE)", "A">>, <<18>>),
   RowWith(<<"LD", "(nn)", "A">>, <<50, 0, 0>>, Addr(1, 3)),
   Row(<<"LD", "A", "I">>, <<237, 87>>), Row(<<"LD", "A", "R">>, <<237, 95>>),
   Row(<<"LD", "I", "A">>, <<237, 71>>), Row(<<"LD", "R", "A">>, <<237, 79>>)}

\* Registers H and L not allowed.
IndexHalfLoads ==
  {Row(<<"LD", High[i], x>>, <<Prefix[i], 96 + r[x]>>) : i \in IndexRegisters, x \in R \ {"H", "L"}}
  \cup {Row(<<"LD", Low[i], x>>, <<Prefix[i], 104 + r[x]>>) : i \in IndexRegisters, x \in R \ {"H", "L"}}
  \cup {Row(<<"LD", High[i], High[i]>>, <<Prefix[i], 100>>) : i \in IndexRegisters}
  \cup {Row(<<"LD", High[i], Low[i]>>, <<Prefix[i], 101>>) : i \in IndexRegisters}
  \cup {Row(<<"LD", Low[i], High[i]>>, <<Prefix[i], 108>>) : i \in IndexRegisters}
  \cup {Row(<<"LD", Low[i], Low[i]>>, <<Prefix[i], 109>>) : i \in IndexRegisters}

WordLoads ==
  {RowWith(<<"LD", x, "nn">>, <<1 + 16 * dd[x], 0, 0>>, Addr(1, 3)) : x \in DOMAIN dd}
  \cup {RowWith(<<"LD", i, "nn">>, <<Prefix[i], 33, 0, 0>>, Addr(2, 4)) : i \in IndexRegisters}

MemoryLoads ==
  {RowWith(<<"LD", "HL", "(nn)">>, <<42, 0, 0>>, Addr(1, 3)),
   RowWith(<<"LD", "(nn)", "HL">>, <<34, 0, 0>>, Addr(1, 3))}
  \cup {RowWith(<<"LD", x, "(nn)">>, <<237, 75 + 16 * dd[x], 0, 0>>, Addr(2, 4)) :
          x \in DOMAIN dd \ {"HL"}}
  \cup {RowWith(<<"LD", "(nn)", x>>, <<237, 67 + 16 * dd[x], 0, 0>>, Addr(2, 4)) :
          x \in DOMAIN dd \ {"HL"}}
  \cup {RowWith(<<"LD", i, "(nn)">>, <<Prefix[i], 42, 0, 0>>, Addr(2, 4)) : i \in IndexRegisters}
  \cup {RowWith(<<"LD", "(nn)", i>>, <<Prefix[i], 34, 0, 0>>, Addr(2, 4)) : i \in IndexRegisters}

\* Only register SP is valid.
StackLoads ==
  {Row(<<"LD", "SP", "HL">>, <<249>>)}
  \cup {Row(<<"LD", "SP", i>>, <<Prefix[i], 249>>) : i \in IndexRegisters}
  \cup {Row(<<"PUSH", x>>, <<197 + 16 * qq[x]>>) : x \in DOMAIN qq}
  \cup {Row(<<"PUSH", i>>, <<Prefix[i], 229>>) : i \in IndexRegisters}
  \cup {Row(<<"POP", x>>, <<193 + 16 * qq[x]>>) : x \in DOMAIN qq}
  \cup {Row(<<"POP", i>>, <<Prefix[i], 225>>) : i \in IndexRegisters}

Exchanges ==
  {Row(<<"EX", "DE", "HL">>, <<235>>), Row(<<"EX", "AF", "AF'">>, <<8>>),
   Row(<<"EXX">>, <<217>>), Row(<<"EX", "(SP)", "HL">>, <<227>>)}
  \cup {Row(<<"EX", "(SP)", i>>, <<Prefix[i], 227>>) : i \in IndexRegisters}

BlockMoves ==
  LET code == [LDI |-> 160, LDIR |-> 176, LDD |-> 168, LDDR |-> 184,
               CPI |-> 161, CPIR |-> 177, CPD |-> 169, CPDR |-> 185]
  IN {Row(<<x>>, <<237, code[x]>>) : x \in DOMAIN code}

-----------------------------------------------------------------------------
(* Arithmetic. *)

Accumulating(op, operand) ==
  IF op \in {"ADD", "ADC", "SBC"} THEN <<op, "A", operand>> ELSE <<op, operand>>

\* The eight actions of an operation on A: code is that of the operand B.
Arithmetic(op, code) ==
  {Row(Accumulating(op, x), <<code + r[x]>>) : x \in R}
  \cup {Row(Accumulating(op, High[i]), <<Prefix[i], code + 4>>) : i \in IndexRegisters}
  \cup {Row(Accumulating(op, Low[i]), <<Prefix[i], code + 5>>) : i \in IndexRegisters}
  \cup {RowWith(Accumulating(op, "n"), <<code + 70, 0>>, Num(1))}
  \cup {Row(Accumulating(op, "(HL)"), <<code + 6>>)}
  \cup {RowWith(Accumulating(op, Indexed[i]), <<Prefix[i], code + 6, 0>>, Disp(2)) :
          i \in IndexRegisters}

Additions == Arithmetic("ADD", 128) \cup Arithmetic("ADC", 136)
Subtractions == Arithmetic("SUB", 144) \cup Arithmetic("SBC", 152)
BitwiseOperations == Arithmetic("AND", 160) \cup Arithmetic("OR", 176) \cup Arithmetic("XOR", 168)
Comparisons == Arithmetic("CP", 184)

Steps(op, code) ==
  {Row(<<op, x>>, <<code + 8 * r[x]>>) : x \in R}
  \cup {Row(<<op, High[i]>>, <<Prefix[i], code + 32>>) : i \in IndexRegisters}
  \cup {Row(<<op, Low[i]>>, <<Prefix[i], code + 40>>) : i \in IndexRegisters}
  \cup {Row(<<op, "(HL)">>, <<code + 48>>)}
  \cup {RowWith(<<op, Indexed[i]>>, <<Prefix[i], code + 48, 0>>, Disp(2)) : i \in IndexRegisters}

IncrementsAndDecrements == Steps("INC", 4) \cup Steps("DEC", 5)

Control ==
  {Row(<<"DAA">>, <<39>>), Row(<<"CPL">>, <<47>>), Row(<<"NEG">>, <<237, 68>>),
   Row(<<"CCF">>, <<63>>), Row(<<"SCF">>, <<55>>), Row(<<"NOP">>, <<0>>),
   Row(<<"HALT">>, <<118>>), Row(<<"DI">>, <<243>>), Row(<<"EI">>, <<251>>)}

\* Integer is 0-2.
InterruptModes ==
  {Row(<<"IM", Written(i)>>, <<237, <<70, 86, 94>>[i + 1]>>) : i \in Literals \cap 0 .. 2}

WordArithmetic ==
  {Row(<<"ADD", "HL", x>>, <<9 + 16 * dd[x]>>) : x \in DOMAIN dd}
  \cup {Row(<<"ADC", "HL", x>>, <<237, 74 + 16 * dd[x]>>) : x \in DOMAIN dd}
  \cup {Row(<<"SBC", "HL", x>>, <<237, 66 + 16 * dd[x]>>) : x \in DOMAIN dd}
  \cup {Row(<<"ADD", "IX", x>>, <<221, 9 + 16 * pp[x]>>) : x \in DOMAIN pp}
  \cup {Row(<<"ADD", "IY", x>>, <<253, 9 + 16 * rr[x]>>) : x \in DOMAIN rr}
  \cup {Row(<<"INC", x>>, <<3 + 16 * dd[x]>>) : x \in DOMAIN dd}
  \cup {Row(<<"INC", i>>, <<Prefix[i], 35>>) : i \in IndexRegisters}
  \cup {Row(<<"DEC", x>>, <<11 + 16 * dd[x]>>) : x \in DOMAIN dd}
  \cup {Row(<<"DEC", i>>, <<Prefix[i], 43>>) : i \in IndexRegisters}

-----------------------------------------------------------------------------
(* Rotates, shifts and bits. *)

AccumulatorRotates ==
  {Row(<<"RLA">>, <<23>>), Row(<<"RLCA">>, <<7>>), Row(<<"RRCA">>, <<15>>), Row(<<"RRA">>, <<31>>),
   Row(<<"RLD">>, <<237, 111>>), Row(<<"RRD">>, <<237, 103>>)}

\* The six actions of one operation on a register or on memory: code is that of
\* the operand B, name the text before the operand.
OnBits(name, code) ==
  {Row(name \o <<x>>, <<203, code + r[x]>>) : x \in R}
  \cup {Row(name \o <<"(HL)">>, <<203, code + 6>>)}
  \cup {RowWith(name \o <<Indexed[i]>>, <<Prefix[i], 203, 0, code + 6>>, Disp(2)) :
          i \in IndexRegisters}
  \cup {RowWith(name \o <<Indexed[i], x>>, <<Prefix[i], 203, 0, code + r[x]>>, Disp(2)) :
          i \in IndexRegisters, x \in R}

RotatesRight == OnBits(<<"RRC">>, 8) \cup OnBits(<<"RR">>, 24)
RotatesLeft == OnBits(<<"RLC">>, 0) \cup OnBits(<<"RL">>, 16)
ShiftsLeft == OnBits(<<"SLA">>, 32) \cup OnBits(<<"SLL">>, 48)
ShiftsRight == OnBits(<<"SRA">>, 40) \cup OnBits(<<"SRL">>, 56)

BitTests == UNION {OnBits(<<"BIT", Written(i)>>, 64 + 8 * Integer(i)) :
                     i \in {i \in Literals : Integer(i) <= 7}}
BitResets == UNION {OnBits(<<"RES", Written(i)>>, 128 + 8 * Integer(i)) :
                      i \in {i \in Literals : Integer(i) <= 7}}

\* SET integer ',' '(' IX plus_minus expr ')' keeps the integer in an int16_t.
SetIndexed ==
  {RowWith(<<"SET", Written(i), "(IX+d)">>, <<221, 203, 0, 198 + 8 * (Integer(i) % 8)>>, Disp(2)) :
     i \in {i \in Literals : Integer(i) \notin 8 .. 32767}}

BitSets == SetIndexed \cup UNION {OnBits(<<"SET", Written(i)>>, 192 + 8 * Integer(i)) :
                                    i \in {i \in Literals : Integer(i) <= 7}}

-----------------------------------------------------------------------------
(* Jumps, calls and ports. *)

Jumps ==
  {RowWith(<<"JP", "nn">>, <<195, 0, 0>>, Addr(1, 3)), Row(<<"JP", "(HL)">>, <<233>>)}
  \cup {Row(<<"JP", "(" \o i \o ")">>, <<Prefix[i], 233>>) : i \in IndexRegisters}
  \cup {RowWith(<<"JP", x, "nn">>, <<194 + 8 * cc[x], 0, 0>>, Addr(1, 3)) : x \in DOMAIN cc}

RelativeJumps ==
  {RowWith(<<"JR", "e">>, <<24, 0>>, Jump(1)), RowWith(<<"DJNZ", "e">>, <<16, 0>>, Jump(1))}
  \cup {RowWith(<<"JR", x, "e">>, <<32 + 8 * c[x], 0>>, Jump(1)) : x \in DOMAIN c}

CallsAndReturns ==
  {RowWith(<<"CALL", "nn">>, <<205, 0, 0>>, Addr(1, 3)), Row(<<"RET">>, <<201>>),
   Row(<<"RETI">>, <<237, 77>>), Row(<<"RETN">>, <<237, 69>>)}
  \cup {RowWith(<<"CALL", x, "nn">>, <<196 + 8 * cc[x], 0, 0>>, Addr(1, 3)) : x \in DOMAIN cc}
  \cup {Row(<<"RET", x>>, <<192 + 8 * cc[x]>>) : x \in DOMAIN cc}

\* RST takes the address, not its number.
Restarts ==
  {Row(<<"RST", Written(i)>>, <<199 + Integer(i)>>) :
     i \in {i \in Literals : Integer(i) \in {8 * k : k \in 0 .. 7}}}

Inputs ==
  {RowWith(<<"IN", "A", "(n)">>, <<219, 0>>, Num(1)),
   Row(<<"IN", "F", "(C)">>, <<237, 112>>), Row(<<"IN", "(C)">>, <<237, 112>>),
   Row(<<"INI">>, <<237, 162>>), Row(<<"INIR">>, <<237, 178>>),
   Row(<<"IND">>, <<237, 170>>), Row(<<"INDR">>, <<237, 186>>)}
  \cup {Row(<<"IN", x, "(C)">>, <<237, 64 + 8 * r[x]>>) : x \in R}

Outputs ==
  {RowWith(<<"OUT", "(n)", "A">>, <<211, 0>>, Num(1)),
   Row(<<"OUTI">>, <<237, 163>>), Row(<<"OTIR">>, <<237, 179>>),
   Row(<<"OUTD">>, <<237, 171>>), Row(<<"OTDR">>, <<237, 187>>)}
  \cup {Row(<<"OUT", "(C)", Written(i)>>, <<237, 113>>) : i \in {i \in Literals : Integer(i) = 0}}
  \cup {Row(<<"OUT", "(C)", x>>, <<237, 65 + 8 * r[x]>>) : x \in R}

-----------------------------------------------------------------------------
Instructions ==
  RegisterLoads \cup ByteLoads \cup PointerLoads \cup AccumulatorLoads \cup IndexHalfLoads
  \cup WordLoads \cup MemoryLoads \cup StackLoads \cup Exchanges \cup BlockMoves
  \cup Additions \cup Subtractions \cup BitwiseOperations \cup Comparisons
  \cup IncrementsAndDecrements \cup Control \cup InterruptModes \cup WordArithmetic
  \cup AccumulatorRotates \cup RotatesRight \cup RotatesLeft \cup ShiftsLeft \cup ShiftsRight
  \cup BitTests \cup BitResets \cup BitSets
  \cup Jumps \cup RelativeJumps \cup CallsAndReturns \cup Restarts \cup Inputs \cup Outputs
=============================================================================
