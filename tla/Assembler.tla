----------------------------- MODULE Assembler -----------------------------
(***************************************************************************)
(* The one-pass assembler of parsers.cpp and data.cpp, driven as main.cpp  *)
(* drives it: the grammar actions emit bytes with zero placeholders and    *)
(* record what must be patched, data::fixup_addresses patches the          *)
(* placeholders through data::parse_expr, and main checks the size limit.  *)
(*                                                                         *)
(* Properties are stated after Spec; those that need the abstract          *)
(* specification are in AssemblerRefinement, the proofs in                 *)
(* Assembler_proofs.                                                       *)
(***************************************************************************)
EXTENDS Source

-----------------------------------------------------------------------------
VARIABLES
  source,     \* the text being assembled
  relative,   \* --jr_offset or --jr_address
  phase,      \* what the program is doing: see Phases
  line,       \* the line the lexer is in
  item,       \* elements of a DB or DW list reduced so far
  todo,       \* fixups the current loop of fixup_addresses has still to do
  pos,        \* tokens consumed by the current parse_expr
  acc,        \* data::_acc
  org, org_set, last_size, memory, mem_type,   \* struct program
  label, equ,                                  \* data::_label, data::_equ
  rel_addr, byte_expr, word_expr               \* data::_rel_addr and so on

input == <<source, relative>>
program == <<org, org_set, last_size, memory, mem_type>>
symbols == <<label, equ>>
fixups == <<rel_addr, byte_expr, word_expr>>
evaluation == <<pos, acc>>
vars == <<source, relative, phase, line, item, todo, pos, acc, org, org_set,
          last_size, memory, mem_type, label, equ, rel_addr, byte_expr, word_expr>>

Terminal == {"done", "error", "undefined"}
Patching == {"rel", "byte", "word"}
Phases == {"line", "body", "opcode", "equ", "check"} \cup Patching \cup Terminal

Empty == [x \in {} |-> x]

\* A data object nothing has been read into.
Fresh(origin) ==
  /\ phase = "line" /\ line = 1 /\ item = 0
  /\ todo = {} /\ pos = 0 /\ acc = <<>>
  /\ org = origin /\ org_set = FALSE /\ last_size = 0
  /\ memory = <<>> /\ mem_type = <<>>
  /\ label = Empty /\ equ = Empty
  /\ rel_addr = Empty /\ byte_expr = Empty /\ word_expr = Empty

Init ==
  /\ source \in Sources
  /\ relative \in {"offset", "absolute"}
  /\ Fresh(DefaultOrg)

-----------------------------------------------------------------------------
(* Helpers. *)

Size == Len(memory)
Body == source[line].body

\* The line's body is next: its label, when it has one, has been reduced.
AtBody ==
  /\ line <= Len(source)
  /\ phase = "body" \/ (phase = "line" /\ source[line].label = NoName)

NextLine == phase' = "line" /\ line' = line + 1 /\ item' = 0

\* An exception reaches main, which reports it and returns 1: nothing of the
\* data survives.
Fail == phase' = "error" /\ UNCHANGED <<line, item, todo, pos, acc>>

Zeros(n) == [i \in 1 .. n |-> 0]


\* The addresses of the offsets D of a statement at address base.
From(base, D) == {base + o : o \in D}

\* Merge, were the keys one past the last byte pushed.
MergeLate(m, base, new) ==
  [a \in DOMAIN m \cup From(base + 1, DOMAIN new) |->
     IF a - base - 1 \in DOMAIN new THEN new[a - base - 1] ELSE m[a]]

\* A std::map after m[base + o] = new[o] for every o of new.
Merge(m, base, new) ==
  [a \in DOMAIN m \cup From(base, DOMAIN new) |->
     IF a - base \in DOMAIN new THEN new[a - base] ELSE m[a]]


\* Dollar, were the offset argument of wexpr forgotten.
DollarPastOpcode(at, back) == (org + ((at + 2) % WordSize)) % WordSize

\* Dollar, were addr an int.
DollarUnwrapped(at, back) == org + at + 2 - back

\* The address wexpr computes for $, when the placeholder is at address at.
Dollar(at, back) == (org + ((at + 2) % WordSize) - back) % WordSize


\* Account, were the block not compared with the last one's type.
AccountSameBlock(type, size) ==
  /\ mem_type' =
       IF mem_type = <<>>
       THEN Append(mem_type, [type |-> type, count |-> size - last_size])
       ELSE [mem_type EXCEPT ![Len(mem_type)].count = @ + size - last_size]
  /\ last_size' = size

\* Account, were last_size forgotten.
AccountNoReset(type, size) ==
  /\ mem_type' = Append(mem_type, [type |-> type, count |-> size - last_size])
  /\ UNCHANGED last_size

\* Close the statement's bytes into the last block, or into a new one: they
\* are the memory from last_size to size.
Account(type, size) ==
  /\ mem_type' =
       IF mem_type = <<>> \/ mem_type[Len(mem_type)].type # type
       THEN Append(mem_type, [type |-> type, count |-> size - last_size])
       ELSE [mem_type EXCEPT ![Len(mem_type)].count = @ + size - last_size]
  /\ last_size' = size

-----------------------------------------------------------------------------
(* Parsing: one action per grammar action that changes state. *)

\* label: Name.
DefineLabel ==
  /\ phase = "line" /\ line <= Len(source)
  /\ source[line].label # NoName
  /\ LET n == source[line].label IN
     IF n \in DOMAIN label \/ n \in DOMAIN equ
     THEN Fail /\ UNCHANGED label
     ELSE /\ label' = [m \in DOMAIN label \cup {n} |->
                         IF m = n THEN Size % WordSize ELSE label[m]]
          /\ phase' = "body"
          /\ UNCHANGED <<line, item, todo, pos, acc>>
  /\ UNCHANGED <<input, program, equ, fixups>>

\* line: %empty, or a label alone on its line.
EmptyLine ==
  /\ AtBody /\ Body.k = "empty"
  /\ NextLine
  /\ UNCHANGED <<input, todo, evaluation, program, symbols, fixups>>

\* A line the grammar, or the operand check of an opcode action, rejects.
RejectLine ==
  /\ AtBody /\ Body.k = "rejected"
  /\ Fail
  /\ UNCHANGED <<input, program, symbols, fixups>>

\* line: Name EQU full_expr, up to the call of parse_expr; ReturnEqu is the rest.
CallEqu ==
  /\ AtBody /\ Body.k = "equ"
  /\ phase' = "equ" /\ pos' = 0
  /\ UNCHANGED <<input, line, item, todo, acc, program, symbols, fixups>>

\* line: ORG integer.
SetOrg ==
  /\ AtBody /\ Body.k = "org"
  /\ IF org_set
     THEN Fail /\ UNCHANGED <<org, org_set>>
     ELSE /\ org' = Body.literal % WordSize
          /\ org_set' = TRUE
          /\ NextLine
          /\ UNCHANGED <<todo, evaluation>>
  /\ UNCHANGED <<input, last_size, memory, mem_type, symbols, fixups>>

\* Any opcode action: push the bytes, record the placeholders.
PushOpcode ==
  /\ AtBody /\ Body.k = "opcode"
  /\ LET f == Body.form IN
     IF \E o \in DOMAIN f.byte : HasDollar(f.byte[o].expr)
     THEN Fail /\ UNCHANGED <<memory, fixups>>
     ELSE /\ memory' = memory \o f.bytes
          /\ rel_addr' = Merge(rel_addr, Size, f.rel)
          /\ byte_expr' = Merge(byte_expr, Size, f.byte)
          /\ word_expr' = Merge(word_expr, Size,
               [o \in DOMAIN f.word |->
                  ReplaceDollar(f.word[o].expr, Dollar(Size + o, f.word[o].back))])
          /\ phase' = "opcode"
          /\ UNCHANGED <<line, item, todo, pos, acc>>
  /\ UNCHANGED <<input, org, org_set, last_size, mem_type, symbols>>

\* line: opcode, and opt_opcode_data: opcode.
AccountCode ==
  /\ phase = "opcode"
  /\ Account("code", Size)
  /\ NextLine
  /\ UNCHANGED <<input, todo, evaluation, org, org_set, memory, symbols, fixups>>

\* db_list: full_expr or String, and db_list: db_list ',' full_expr or String.
PushDbItem ==
  /\ AtBody /\ Body.k = "db" /\ item < Len(Body.items)
  /\ LET i == Body.items[item + 1] IN
     \/ /\ i.k = "string"
        /\ memory' = memory \o i.str
        /\ item' = item + 1
        /\ UNCHANGED <<phase, line, todo, evaluation, byte_expr>>
     \/ /\ i.k = "expr" /\ HasDollar(i.expr)
        /\ Fail /\ UNCHANGED <<memory, byte_expr>>
     \/ /\ i.k = "expr" /\ ~HasDollar(i.expr)
        /\ memory' = Append(memory, 0)
        /\ byte_expr' = Merge(byte_expr, Size, [o \in {0} |-> [expr |-> i.expr, op |-> "+"]])
        /\ item' = item + 1
        /\ UNCHANGED <<phase, line, todo, evaluation>>
  /\ UNCHANGED <<input, org, org_set, last_size, mem_type, symbols, rel_addr, word_expr>>

\* data: DB db_list.
AccountDb ==
  /\ AtBody /\ Body.k = "db" /\ item = Len(Body.items)
  /\ Account("db", Size)
  /\ NextLine
  /\ UNCHANGED <<input, todo, evaluation, org, org_set, memory, symbols, fixups>>

\* data: DS integer.
ReserveDs ==
  /\ AtBody /\ Body.k = "ds"
  /\ memory' = memory \o Zeros(Body.literal % WordSize)
  /\ Account("ds", Size + (Body.literal % WordSize))
  /\ NextLine
  /\ UNCHANGED <<input, todo, evaluation, org, org_set, symbols, fixups>>

\* dw_list: full_expr, and dw_list: dw_list ',' full_expr.
PushDwItem ==
  /\ AtBody /\ Body.k = "dw" /\ item < Len(Body.items)
  /\ memory' = memory \o Zeros(2)
  /\ word_expr' = Merge(word_expr, Size,
       [o \in {0} |-> ReplaceDollar(Body.items[item + 1], Dollar(Size, 2))])
  /\ item' = item + 1
  /\ UNCHANGED <<input, phase, line, todo, evaluation, org, org_set, last_size,
                 mem_type, symbols, rel_addr, byte_expr>>

\* data: DW dw_list.
AccountDw ==
  /\ AtBody /\ Body.k = "dw" /\ item = Len(Body.items)
  /\ Account("dw", Size)
  /\ NextLine
  /\ UNCHANGED <<input, todo, evaluation, org, org_set, memory, symbols, fixups>>

\* data::parse accepts; fixup_addresses starts its first loop.
StartFixups ==
  /\ phase = "line" /\ line > Len(source)
  /\ phase' = "rel" /\ todo' = DOMAIN rel_addr /\ pos' = 0
  /\ UNCHANGED <<input, line, item, acc, program, symbols, fixups>>

-----------------------------------------------------------------------------
(* data::parse_expr: one action per reduction of the expression grammar. *)

Least(S) == {a \in S : \A b \in S : a <= b}

\* The text parse_expr was called with, while a call is under way.  Each loop of
\* fixup_addresses goes through its std::map from the lowest address up.
Current ==
  CASE phase = "equ" -> {Body.expr}
    [] phase = "rel" -> {rel_addr[a] : a \in Least(todo)}
    [] phase = "byte" -> {byte_expr[a].expr : a \in Least(todo)}
    [] phase = "word" -> {word_expr[a] : a \in Least(todo)}
    [] OTHER -> {}

\* What the next reduction consumes.
Reduces(t) == \E e \in Current : pos < Len(e) /\ e[pos + 1] = t

Top == acc[Len(acc)]
Rest == SubSeq(acc, 1, Len(acc) - 1)

\* What a name stands for: a label is an address, an EQU its value.
Meanings(n) ==
  IF n \in DOMAIN label THEN {org + label[n]}
  ELSE IF n \in DOMAIN equ THEN {equ[n]} ELSE {}

Step == pos' = pos + 1 /\ UNCHANGED <<phase, line, item, todo>>


\* PushNumber, were the value stored in _integer but not pushed.
PushNumberForgotten ==
  /\ \E v \in Word : Reduces([t |-> "num", v |-> v])
  /\ Step /\ UNCHANGED acc
  /\ UNCHANGED <<input, program, symbols, fixups>>

\* integer: Binary, Hex, Char or Integer.
PushNumber ==
  /\ \E v \in Word :
       /\ Reduces([t |-> "num", v |-> v])
       /\ acc' = Append(acc, v)
  /\ Step
  /\ UNCHANGED <<input, program, symbols, fixups>>

\* expr: Name.
PushName ==
  /\ \E n \in Names :
       /\ Reduces([t |-> "name", n |-> n])
       /\ \/ Meanings(n) = {} /\ Fail
          \/ \E m \in Meanings(n) : acc' = Append(acc, m) /\ Step
  /\ UNCHANGED <<input, program, symbols, fixups>>

\* expr: '-' expr.
Negate ==
  /\ Reduces([t |-> "neg"])
  /\ Len(acc) > 0
  /\ acc' = Append(Rest, Wrap(-Top))
  /\ Step
  /\ UNCHANGED <<input, program, symbols, fixups>>

\* expr: expr op expr.  The left operand is below the right one.
BinaryOp ==
  /\ \E op \in Operators :
       /\ Reduces([t |-> op])
       /\ Len(acc) > 1
       /\ LET x == acc[Len(acc) - 1] IN
          IF Traps(op, x, Top)
          THEN phase' = "undefined" /\ UNCHANGED <<line, item, todo, pos, acc>>
          ELSE acc' = Append(SubSeq(acc, 1, Len(acc) - 2), Apply(op, x, Top)) /\ Step
  /\ UNCHANGED <<input, program, symbols, fixups>>


\* SyntaxError, were the error action not tested by parse_expr's loop.
SyntaxErrorIgnored ==
  /\ Reduces([t |-> "$"])
  /\ UNCHANGED vars

\* No production of the expression grammar has a '$': the loop ends there,
\* without an exception, and what was reduced before it stays on the stack.
SyntaxError ==
  /\ Reduces([t |-> "$"])
  /\ \E e \in Current : pos' = Len(e)
  /\ UNCHANGED <<input, phase, line, item, todo, acc, program, symbols, fixups>>

AtReturn == \E e \in Current : pos = Len(e)

\* _acc.top() of an empty stack.
ReturnNothing ==
  /\ AtReturn /\ acc = <<>>
  /\ phase' = "undefined"
  /\ UNCHANGED <<input, line, item, todo, evaluation, program, symbols, fixups>>

Result == Top % WordSize

\* Returns, were the pop forgotten.
ReturnsUnpopped == AtReturn /\ acc # <<>> /\ acc' = acc /\ pos' = 0

Returns == AtReturn /\ acc # <<>> /\ acc' = Rest /\ pos' = 0

-----------------------------------------------------------------------------
(* What the callers of parse_expr do with its result. *)


\* ReturnEqu, were labels not looked up.
ReturnEquUnchecked ==
  /\ phase = "equ" /\ Returns
  /\ equ' = [m \in DOMAIN equ \cup {Body.name} |-> IF m = Body.name THEN Result ELSE equ[m]]
  /\ NextLine
  /\ UNCHANGED <<input, todo, program, label, fixups>>

\* The rest of line: Name EQU full_expr.
ReturnEqu ==
  /\ phase = "equ" /\ Returns
  /\ IF Body.name \in DOMAIN label
     THEN phase' = "error" /\ UNCHANGED <<line, item, equ>>
     ELSE /\ equ' = [m \in DOMAIN equ \cup {Body.name} |->
                       IF m = Body.name THEN Result ELSE equ[m]]
          /\ NextLine
  /\ UNCHANGED <<input, todo, program, label, fixups>>


\* RelOffset, were it counted from the displacement and not from what follows it.
RelOffsetFromOperand(a) ==
  IF relative = "absolute" THEN Result - (org + a) ELSE SignedByte(Result % ByteSize)

\* The value the first loop stores at address a.
RelOffset(a) ==
  IF relative = "absolute" THEN Result - (org + a + 1) ELSE SignedByte(Result % ByteSize)

\* fixup_addresses' first loop: the operands of JR and DJNZ.
PatchRel ==
  /\ phase = "rel" /\ Returns
  /\ \E a \in Least(todo) :
       IF InReach(RelOffset(a))
       THEN /\ memory' = [memory EXCEPT ![a + 1] = RelOffset(a) % ByteSize]
            /\ todo' = todo \ {a}
            /\ UNCHANGED phase
       ELSE phase' = "error" /\ UNCHANGED <<memory, todo>>
  /\ UNCHANGED <<input, line, item, org, org_set, last_size, mem_type, symbols, fixups>>


\* PatchByte, were the address one past the placeholder.
PatchByteLate ==
  /\ phase = "byte" /\ Returns
  /\ \E a \in Least(todo) :
       /\ memory' = [memory EXCEPT ![a + 2] = Result % ByteSize]
       /\ todo' = todo \ {a}
  /\ UNCHANGED <<input, phase, line, item, org, org_set, last_size, mem_type, symbols, fixups>>

\* The second loop: immediate bytes, displacements and the elements of DB.
PatchByte ==
  /\ phase = "byte" /\ Returns
  /\ \E a \in Least(todo) :
       /\ LET val == IF byte_expr[a].op = "-" THEN -Result ELSE Result
          IN memory' = [memory EXCEPT ![a + 1] = val % ByteSize]
       /\ todo' = todo \ {a}
  /\ UNCHANGED <<input, phase, line, item, org, org_set, last_size, mem_type, symbols, fixups>>

\* The third loop: addresses, immediate words and the elements of DW.
PatchWord ==
  /\ phase = "word" /\ Returns
  /\ \E a \in Least(todo) :
       /\ memory' = [memory EXCEPT ![a + 1] = Result % ByteSize,
                                   ![a + 2] = Result \div ByteSize]
       /\ todo' = todo \ {a}
  /\ UNCHANGED <<input, phase, line, item, org, org_set, last_size, mem_type, symbols, fixups>>

\* A loop of fixup_addresses ends.
NextLoop ==
  /\ todo = {}
  /\ \/ phase = "rel" /\ phase' = "byte" /\ todo' = DOMAIN byte_expr
     \/ phase = "byte" /\ phase' = "word" /\ todo' = DOMAIN word_expr
     \/ phase = "word" /\ phase' = "check" /\ todo' = {}
  /\ UNCHANGED <<input, line, item, evaluation, program, symbols, fixups>>

\* main's memory limit.  The sum is a size_t: 0 - 1 is its largest value.
CheckLimit ==
  /\ phase = "check"
  /\ phase' = IF org + Size = 0 \/ org + Size - 1 > WordSize - 1
              THEN "error" ELSE "done"
  /\ UNCHANGED <<input, line, item, todo, evaluation, program, symbols, fixups>>

-----------------------------------------------------------------------------
Parsing ==
  \/ DefineLabel \/ EmptyLine \/ RejectLine \/ CallEqu \/ SetOrg
  \/ PushOpcode \/ AccountCode
  \/ PushDbItem \/ AccountDb \/ ReserveDs \/ PushDwItem \/ AccountDw
  \/ StartFixups

Evaluating ==
  \/ PushNumber \/ PushName \/ Negate \/ BinaryOp \/ SyntaxError \/ ReturnNothing

FixingUp == PatchRel \/ PatchByte \/ PatchWord \/ NextLoop

\* The process has ended.
Ended == phase \in Terminal /\ UNCHANGED vars

Next == Parsing \/ Evaluating \/ ReturnEqu \/ FixingUp \/ CheckLimit \/ Ended

\* One thread that never waits: it takes a step whenever it has one.
Spec == Init /\ [][Next]_vars /\ WF_vars(Next)

-----------------------------------------------------------------------------
(* Properties. *)

IsMap(f, S, T) ==
  /\ f = [x \in DOMAIN f |-> f[x]]
  /\ DOMAIN f \subseteq S
  /\ \A x \in DOMAIN f : f[x] \in T

ByteExpr == [expr : Expr, op : {"+", "-"}]
Blocks == [type : {"code", "db", "ds", "dw"}, count : Nat]

\* Every variable keeps its type; in particular the accumulator holds ints, the
\* memory bytes, and the origin and every symbol's value a uint16_t.
TypeOK ==
  /\ source \in Sources /\ relative \in {"offset", "absolute"}
  /\ phase \in Phases /\ line \in Nat \ {0} /\ item \in Nat
  /\ todo \in SUBSET Nat /\ pos \in Nat /\ acc \in Seq(CInt)
  /\ org \in Word /\ org_set \in BOOLEAN /\ last_size \in Nat
  /\ memory \in Seq(Byte) /\ mem_type \in Seq(Blocks)
  /\ IsMap(label, Names, Word) /\ IsMap(equ, Names, Word)
  /\ IsMap(rel_addr, Nat, Expr)
  /\ IsMap(byte_expr, Nat, ByteExpr)
  /\ IsMap(word_expr, Nat, Expr)

Holes == DOMAIN rel_addr \cup DOMAIN byte_expr \cup WordCells(DOMAIN word_expr)

\* The three fixup maps name bytes that were pushed, and no byte is in two of
\* them or is both halves of words: _memory[address] and [address + 1] in
\* fixup_addresses are unchecked, and its loops may not undo each other.
HolesSound ==
  /\ Holes \subseteq 0 .. Size - 1
  /\ DOMAIN rel_addr \cap DOMAIN byte_expr = {}
  /\ WordCells(DOMAIN word_expr) \cap (DOMAIN rel_addr \cup DOMAIN byte_expr) = {}
  /\ \A a \in DOMAIN word_expr : a + 1 \notin DOMAIN word_expr

\* The bytes the rest of fixup_addresses is still to write.
Unwritten ==
  CASE phase = "rel" -> todo \cup DOMAIN byte_expr \cup WordCells(DOMAIN word_expr)
    [] phase = "byte" -> todo \cup WordCells(DOMAIN word_expr)
    [] phase = "word" -> WordCells(todo)
    [] OTHER -> {}

WritesOnce ==
  phase \in Patching =>
    /\ Len(memory') = Len(memory)
    /\ \A i \in 1 .. Len(memory) :
         memory'[i] # memory[i] => i - 1 \in Unwritten /\ i - 1 \notin Unwritten'

\* A step of fixup_addresses writes bytes that were waiting to be written, and
\* writes each for good: no opcode byte, string or earlier fixup is overwritten.
FixupsWriteOnce == [][WritesOnce]_vars

\* What makes TypeOK and HolesSound inductive: the loops of fixup_addresses walk
\* the maps the parsing filled, an EQU is evaluated on its own line, and no
\* statement takes bytes away.
TodoPending ==
  /\ phase = "rel" => todo \subseteq DOMAIN rel_addr
  /\ phase = "byte" => todo \subseteq DOMAIN byte_expr
  /\ phase = "word" => todo \subseteq DOMAIN word_expr
EquOnItsLine == phase = "equ" => line <= Len(source) /\ Body.k = "equ"
Accounted == last_size <= Size
IInv == TypeOK /\ HolesSound /\ TodoPending /\ EquOnItsLine /\ Accounted

\* No name is both a label and an EQU, whichever came first: PushName's choice
\* of the label could otherwise hide an EQU.
SymbolsDisjoint == DOMAIN label \cap DOMAIN equ = {}

\* What waits in _byte_expr and _word_expr has no $ left: fixup_addresses could
\* not parse it.
NoDollarDeferred ==
  /\ \A a \in DOMAIN byte_expr : ~HasDollar(byte_expr[a].expr)
  /\ \A a \in DOMAIN word_expr : ~HasDollar(word_expr[a])

\* The source gives parse_expr a $: an EQU or a relative jump has one.
DollarReachesParser ==
  \E i \in 1 .. Len(source) :
    LET b == source[i].body IN
    \/ b.k = "equ" /\ HasDollar(b.expr)
    \/ b.k = "opcode" /\ \E o \in DOMAIN b.form.rel : HasDollar(b.form.rel[o])

\* Between two evaluations _acc is empty, so no evaluation sees what another left.
AccBalanced ==
  pos = 0 /\ phase \notin Terminal /\ ~DollarReachesParser => acc = <<>>

Divides(e) == \E i \in 1 .. Len(e) : e[i].t = "/"
SourceDivides ==
  \E i \in 1 .. Len(source) :
    LET b == source[i].body IN
    \/ b.k = "equ" /\ Divides(b.expr)
    \/ /\ b.k = "opcode"
       /\ \/ \E o \in DOMAIN b.form.rel : Divides(b.form.rel[o])
          \/ \E o \in DOMAIN b.form.byte : Divides(b.form.byte[o].expr)
          \/ \E o \in DOMAIN b.form.word : Divides(b.form.word[o].expr)
    \/ /\ b.k = "db"
       /\ \E j \in 1 .. Len(b.items) : b.items[j].k = "expr" /\ Divides(b.items[j].expr)
    \/ b.k = "dw" /\ \E j \in 1 .. Len(b.items) : Divides(b.items[j])

\* The program leaves C++ only through an expression that divides or that has
\* the $ of an EQU or a relative jump: no other text can empty _acc.  (The overflow
\* of an int, which C++ leaves open as well, wraps here as it does in the build.)
UndefinedOnlyFrom == phase = "undefined" => DollarReachesParser \/ SourceDivides

\* A reduction finds its operands on _acc, whatever earlier evaluations left there.
OperandsOnStack == \A e \in Current : pos < Len(e) => Arity(e[pos + 1]) <= Len(acc)

\* Absolute mode: once assembled, the displacement of a jump to a label leads
\* from the end of the jump to the label, also when an ORG came in between.
RelativeLandsOnTarget ==
  phase = "done" /\ relative = "absolute" =>
    \A a \in DOMAIN rel_addr : \A n \in DOMAIN label :
      rel_addr[a] = <<[t |-> "name", n |-> n]>> =>
        org + a + 1 + SignedByte(memory[a + 1]) = (org + label[n]) % WordSize

\* Assembling ends, whatever the text: parse_expr's loop and the loops of
\* fixup_addresses cannot go on for ever.
Termination == <>(phase \in Terminal)
=============================================================================
