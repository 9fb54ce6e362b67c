----------------------------- MODULE Mnemonics -----------------------------
(***************************************************************************)
(* The instructions the disassembler knows: the switches of disassem.cpp.  *)
(*                                                                         *)
(* A row is one case.  Its text is what is printed, with operands written  *)
(* as in Opcodes; its bytes are the opcode with zeros for the operands it  *)
(* reads, which its holes name in the order of the text.  A byte no case   *)
(* takes is printed with DB.                                               *)
(***************************************************************************)
EXTENDS Opcodes

ByteOperand == <<"B", "C", "D", "E", "H", "L", "(HL)", "A">>
Pair == <<"BC", "DE", "HL", "SP">>
Condition == <<"NZ", "Z", "NC", "C", "PO", "PE", "P", "M">>
Operation == <<"ADD", "ADC", "SUB", "SBC", "AND", "XOR", "OR", "CP">>
\* Rotate, were the rotates through carry listed first.
RotateCarryFirst == <<"RL", "RR", "RLC", "RRC", "SLA", "SRA", "SLL", "SRL">>
Rotate == <<"RLC", "RRC", "RL", "RR", "SLA", "SRA", "SLL", "SRL">>

Eight == 1 .. 8
Four == 1 .. 4

\* The value of a byte that has opcode k (from 1) of its row of eight.
Nth(base, k) == base + 8 * (k - 1)
\* The same for a row of four.
Every16(base, k) == base + 16 * (k - 1)

-----------------------------------------------------------------------------
(* fetch_opcode. *)

\* The cases that come once for every pair of registers, every register or every
\* condition, of which half is in each half of the quarter.
Quarter00(pairs, registers) ==
  {RowWith(<<"LD", Pair[p], "nn">>, <<Every16(1, p), 0, 0>>, Addr(1, 0)) : p \in pairs}
  \cup {Row(<<"INC", Pair[p]>>, <<Every16(3, p)>>) : p \in pairs}
  \cup {Row(<<"DEC", Pair[p]>>, <<Every16(11, p)>>) : p \in pairs}
  \cup {Row(<<"ADD", "HL", Pair[p]>>, <<Every16(9, p)>>) : p \in pairs}
  \cup {Row(<<"INC", ByteOperand[k]>>, <<Nth(4, k)>>) : k \in registers}
  \cup {Row(<<"DEC", ByteOperand[k]>>, <<Nth(5, k)>>) : k \in registers}
  \cup {RowWith(<<"LD", ByteOperand[k], "n">>, <<Nth(6, k), 0>>, Num(1)) : k \in registers}
  \cup {Row(<< <<"RLCA", "RRCA", "RLA", "RRA", "DAA", "CPL", "SCF", "CCF">>[k] >>, <<Nth(7, k)>>) :
          k \in registers}

Cases00To1F ==
  Quarter00(1 .. 2, 1 .. 4)
  \cup {RowWith(<<"DJNZ", "e">>, <<16, 0>>, Jump(1)), RowWith(<<"JR", "e">>, <<24, 0>>, Jump(1)),
        Row(<<"NOP">>, <<0>>), Row(<<"EX", "AF", "AF'">>, <<8>>),
        Row(<<"LD", "(BC)", "A">>, <<2>>), Row(<<"LD", "A", "(BC)">>, <<10>>),
        Row(<<"LD", "(DE)", "A">>, <<18>>), Row(<<"LD", "A", "(DE)">>, <<26>>)}

Cases20To3F ==
  Quarter00(3 .. 4, 5 .. 8)
  \cup {RowWith(<<"JR", Condition[k], "e">>, <<Nth(32, k), 0>>, Jump(1)) : k \in Four}
  \cup {RowWith(<<"LD", "(nn)", "HL">>, <<34, 0, 0>>, Addr(1, 0)),
        RowWith(<<"LD", "HL", "(nn)">>, <<42, 0, 0>>, Addr(1, 0)),
        RowWith(<<"LD", "(nn)", "A">>, <<50, 0, 0>>, Addr(1, 0)),
        RowWith(<<"LD", "A", "(nn)">>, <<58, 0, 0>>, Addr(1, 0))}

Cases40To7F ==
  {Row(<<"LD", ByteOperand[p[1]], ByteOperand[p[2]]>>, <<Nth(64, p[1]) + p[2] - 1>>) :
     p \in (Eight \X Eight) \ {<<7, 7>>}}
  \cup {Row(<<"HALT">>, <<118>>)}

ArithmeticCases ==
  {Row(Accumulating(Operation[j], ByteOperand[k]), <<Nth(128, j) + k - 1>>) :
     j \in Four, k \in Eight}
LogicCases ==
  {Row(Accumulating(Operation[j], ByteOperand[k]), <<Nth(128, j) + k - 1>>) :
     j \in Eight \ Four, k \in Eight}

QuarterC0(pairs, conditions) ==
  {Row(<<"RET", Condition[k]>>, <<Nth(192, k)>>) : k \in conditions}
  \cup {RowWith(<<"JP", Condition[k], "nn">>, <<Nth(194, k), 0, 0>>, Addr(1, 0)) : k \in conditions}
  \cup {RowWith(<<"CALL", Condition[k], "nn">>, <<Nth(196, k), 0, 0>>, Addr(1, 0)) : k \in conditions}
  \cup {RowWith(Accumulating(Operation[k], "n"), <<Nth(198, k), 0>>, Num(1)) : k \in conditions}
  \cup {Row(<<"RST", Written(8 * (k - 1))>>, <<Nth(199, k)>>) : k \in conditions}
  \cup {Row(<<"POP", <<"BC", "DE", "HL", "AF">>[p]>>, <<Every16(193, p)>>) : p \in pairs}
  \cup {Row(<<"PUSH", <<"BC", "DE", "HL", "AF">>[p]>>, <<Every16(197, p)>>) : p \in pairs}

CasesC0ToDF ==
  QuarterC0(1 .. 2, 1 .. 4)
  \cup {RowWith(<<"JP", "nn">>, <<195, 0, 0>>, Addr(1, 0)), Row(<<"RET">>, <<201>>),
        RowWith(<<"CALL", "nn">>, <<205, 0, 0>>, Addr(1, 0)),
        RowWith(<<"OUT", "(n)", "A">>, <<211, 0>>, Num(1)), Row(<<"EXX">>, <<217>>),
        RowWith(<<"IN", "A", "(n)">>, <<219, 0>>, Num(1))}

CasesE0ToFF ==
  QuarterC0(3 .. 4, 5 .. 8)
  \cup {Row(<<"EX", "(SP)", "HL">>, <<227>>), Row(<<"JP", "(HL)">>, <<233>>),
        Row(<<"EX", "DE", "HL">>, <<235>>), Row(<<"DI">>, <<243>>),
        Row(<<"LD", "SP", "HL">>, <<249>>), Row(<<"EI">>, <<251>>)}

-----------------------------------------------------------------------------
(* dump_bits and dump_IX_IY_bits: after CB, and after DD CB or FD CB and a displacement. *)

\* The bit and the operand in a byte.
BitOf(b) == Written((b % 64) \div 8)
OperandOf(b) == ByteOperand[(b % 8) + 1]

BitRotate(b) == Row(<<Rotate[(b \div 8) + 1], OperandOf(b)>>, <<203, b>>)
BitTest(b) == Row(<<"BIT", BitOf(b), OperandOf(b)>>, <<203, b>>)
BitReset(b) == Row(<<"RES", BitOf(b), OperandOf(b)>>, <<203, b>>)
BitSet(b) == Row(<<"SET", BitOf(b), OperandOf(b)>>, <<203, b>>)

\* The register that receives the result too; in the place of (HL) there is none.
AlsoTo(b) == IF b % 8 = 6 THEN <<>> ELSE <<OperandOf(b)>>

IndexedRotate(i, b) ==
  RowWith(<<Rotate[(b \div 8) + 1], Indexed[i]>> \o AlsoTo(b), <<Prefix[i], 203, 0, b>>, Disp(2))
IndexedTest(i, b) ==
  RowWith(<<"BIT", BitOf(b), Indexed[i]>> \o AlsoTo(b), <<Prefix[i], 203, 0, b>>, Disp(2))
IndexedReset(i, b) ==
  RowWith(<<"RES", BitOf(b), Indexed[i]>> \o AlsoTo(b), <<Prefix[i], 203, 0, b>>, Disp(2))
IndexedSet(i, b) ==
  RowWith(<<"SET", BitOf(b), Indexed[i]>> \o AlsoTo(b), <<Prefix[i], 203, 0, b>>, Disp(2))

-----------------------------------------------------------------------------
(* dump_ext: after ED. *)

ExtendedRegisterCases ==
  {Row(<<"IN", <<"B", "C", "D", "E", "H", "L", "F", "A">>[k], "(C)">>, <<237, Nth(64, k)>>) : k \in Eight}
  \cup {Row(<<"OUT", "(C)", <<"B", "C", "D", "E", "H", "L", "0", "A">>[k]>>, <<237, Nth(65, k)>>) : k \in Eight}
  \cup {Row(<<"SBC", "HL", Pair[p]>>, <<237, Every16(66, p)>>) : p \in Four}
  \cup {Row(<<"ADC", "HL", Pair[p]>>, <<237, Every16(74, p)>>) : p \in Four}
  \cup {RowWith(<<"LD", "(nn)", Pair[p]>>, <<237, Every16(67, p), 0, 0>>, Addr(2, 0)) : p \in Four}
  \cup {RowWith(<<"LD", Pair[p], "(nn)">>, <<237, Every16(75, p), 0, 0>>, Addr(2, 0)) : p \in Four}
  \cup {Row(<<"NEG">>, <<237, Nth(68, k)>>) : k \in Eight}
  \cup {Row(<<IF k = 2 THEN "RETI" ELSE "RETN">>, <<237, Nth(69, k)>>) : k \in Eight}
  \cup {Row(<<"IM", <<"0", "0/1", "1", "2">>[((k - 1) % 4) + 1]>>, <<237, Nth(70, k)>>) : k \in Eight}
  \cup {Row(<<"LD", "I", "A">>, <<237, 71>>), Row(<<"LD", "R", "A">>, <<237, 79>>),
        Row(<<"LD", "A", "I">>, <<237, 87>>), Row(<<"LD", "A", "R">>, <<237, 95>>),
        Row(<<"RRD">>, <<237, 103>>), Row(<<"RLD">>, <<237, 111>>)}

ExtendedBlockCases ==
  {Row(<< <<"LDI", "CPI", "INI", "OUTI">>[k] >>, <<237, 159 + k>>) : k \in Four}
  \cup {Row(<< <<"LDD", "CPD", "IND", "OUTD">>[k] >>, <<237, 167 + k>>) : k \in Four}
  \cup {Row(<< <<"LDIR", "CPIR", "INIR", "OTIR">>[k] >>, <<237, 175 + k>>) : k \in Four}
  \cup {Row(<< <<"LDDR", "CPDR", "INDR", "OTDR">>[k] >>, <<237, 183 + k>>) : k \in Four}

\* The default case: both bytes as data.
ExtendedDefault(b) == RowWith(<<"DB", "237", "n">>, <<237, b>>, Num(1))

-----------------------------------------------------------------------------
(* dump_IX_IY: after DD or FD. *)

IndexLoads(i) ==
  {RowWith(<<"LD", i, "nn">>, <<Prefix[i], 33, 0, 0>>, Addr(2, 0)),
   RowWith(<<"LD", "(nn)", i>>, <<Prefix[i], 34, 0, 0>>, Addr(2, 0)),
   RowWith(<<"LD", i, "(nn)">>, <<Prefix[i], 42, 0, 0>>, Addr(2, 0)),
   RowWith(<<"LD", High[i], "n">>, <<Prefix[i], 38, 0>>, Num(2)),
   RowWith(<<"LD", Low[i], "n">>, <<Prefix[i], 46, 0>>, Num(2)),
   RowWith(<<"LD", Indexed[i], "n">>, <<Prefix[i], 54, 0, 0>>, Disp(2) \o Num(3)),
   Row(<<"LD", "SP", i>>, <<Prefix[i], 249>>)}
  \cup {Row(<<"LD", ByteOperand[k], High[i]>>, <<Prefix[i], Nth(68, k)>>) : k \in Eight \ {5, 6, 7}}
  \cup {Row(<<"LD", ByteOperand[k], Low[i]>>, <<Prefix[i], Nth(69, k)>>) : k \in Eight \ {5, 6, 7}}
  \cup {RowWith(<<"LD", ByteOperand[k], Indexed[i]>>, <<Prefix[i], Nth(70, k), 0>>, Disp(2)) :
          k \in Eight \ {7}}
  \cup {RowWith(<<"LD", Indexed[i], ByteOperand[k]>>, <<Prefix[i], 111 + k, 0>>, Disp(2)) :
          k \in Eight \ {7}}
  \cup {Row(<<"LD", High[i], [[ByteOperand EXCEPT ![5] = High[i]] EXCEPT ![6] = Low[i]][k]>>,
            <<Prefix[i], 95 + k>>) : k \in Eight \ {7}}
  \cup {Row(<<"LD", Low[i], [[ByteOperand EXCEPT ![5] = High[i]] EXCEPT ![6] = Low[i]][k]>>,
            <<Prefix[i], 103 + k>>) : k \in Eight \ {7}}

IndexArithmetic(i) ==
  {Row(<<"ADD", i, [Pair EXCEPT ![3] = i][p]>>, <<Prefix[i], Every16(9, p)>>) : p \in Four}
  \cup {Row(<<"INC", i>>, <<Prefix[i], 35>>), Row(<<"DEC", i>>, <<Prefix[i], 43>>),
        Row(<<"INC", High[i]>>, <<Prefix[i], 36>>), Row(<<"DEC", High[i]>>, <<Prefix[i], 37>>),
        Row(<<"INC", Low[i]>>, <<Prefix[i], 44>>), Row(<<"DEC", Low[i]>>, <<Prefix[i], 45>>),
        RowWith(<<"INC", Indexed[i]>>, <<Prefix[i], 52, 0>>, Disp(2)),
        RowWith(<<"DEC", Indexed[i]>>, <<Prefix[i], 53, 0>>, Disp(2))}
  \cup {Row(Accumulating(Operation[k], High[i]), <<Prefix[i], Nth(132, k)>>) : k \in Eight}
  \cup {Row(Accumulating(Operation[k], Low[i]), <<Prefix[i], Nth(133, k)>>) : k \in Eight}
  \cup {RowWith(Accumulating(Operation[k], Indexed[i]), <<Prefix[i], Nth(134, k), 0>>, Disp(2)) :
          k \in Eight}

IndexStack(i) ==
  {Row(<<"POP", i>>, <<Prefix[i], 225>>), Row(<<"EX", "(SP)", i>>, <<Prefix[i], 227>>),
   Row(<<"PUSH", i>>, <<Prefix[i], 229>>), Row(<<"JP", "(" \o i \o ")">>, <<Prefix[i], 233>>)}

\* The default case: the byte after the prefix as data, the prefix not at all.
IndexDefault(i, b) == RowWith(<<"DB", "n">>, <<Prefix[i], b>>, Num(1))

-----------------------------------------------------------------------------
(* The switches. *)

MainCases ==
  Cases00To1F \cup Cases20To3F \cup Cases40To7F \cup ArithmeticCases \cup LogicCases
  \cup CasesC0ToDF \cup CasesE0ToFF
MainCase(b) == {row \in MainCases : row.bytes[1] = b}

ExtendedCases == ExtendedRegisterCases \cup ExtendedBlockCases
ExtendedCase(b) ==
  LET known == {row \in ExtendedCases : row.bytes[2] = b}
  IN IF known = {} THEN {ExtendedDefault(b)} ELSE known

BitCase(b) ==
  CASE b \div 64 = 0 -> BitRotate(b) [] b \div 64 = 1 -> BitTest(b)
    [] b \div 64 = 2 -> BitReset(b) [] b \div 64 = 3 -> BitSet(b)

IndexedBitCase(i, b) ==
  CASE b \div 64 = 0 -> IndexedRotate(i, b) [] b \div 64 = 1 -> IndexedTest(i, b)
    [] b \div 64 = 2 -> IndexedReset(i, b) [] b \div 64 = 3 -> IndexedSet(i, b)

IndexCases == [i \in IndexRegisters |-> IndexLoads(i) \cup IndexArithmetic(i) \cup IndexStack(i)]
IndexCase(i, b) ==
  LET known == {row \in IndexCases[i] : row.bytes[2] = b}
  IN IF known = {} THEN {IndexDefault(i, b)} ELSE known

\* No two cases of a switch have the same label.
OneCase ==
  \A b \in 0 .. 255 :
    /\ \A row, other \in MainCase(b) : row = other
    /\ \A row, other \in ExtendedCase(b) : row = other
    /\ \A i \in IndexRegisters : \A row, other \in IndexCase(i, b) : row = other

\* The case taken at offset at, in a set that is empty when the memory ends
\* before the opcode does.
CaseAt(memory, at) ==
  LET left == Len(memory) - at
      b(k) == memory[at + k]
      AfterIndex(i) ==
        IF left < 2 THEN {} ELSE IF b(2) # 203 THEN IndexCase(i, b(2))
        ELSE IF left < 4 THEN {} ELSE {IndexedBitCase(i, b(4))}
  IN CASE left < 1 -> {}
       [] b(1) = 203 -> IF left < 2 THEN {} ELSE {BitCase(b(2))}
       [] b(1) = 237 -> IF left < 2 THEN {} ELSE ExtendedCase(b(2))
       [] b(1) = 221 -> AfterIndex("IX")
       [] b(1) = 253 -> AfterIndex("IY")
       [] OTHER -> MainCase(b(1))
=============================================================================
