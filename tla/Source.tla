------------------------------- MODULE Source -------------------------------
(***************************************************************************)
(* What the assembler works on: machine integers, expressions and source   *)
(* texts, with the arithmetic the expression parser does on int.           *)
(*                                                                         *)
(* A source text is a sequence of lines, a line the parts its grammar      *)
(* actions receive.  An expression is its tokens in the order in which the *)
(* expression parser reduces them (postfix).  An opcode is a template: the *)
(* bytes its action pushes and, by byte offset, the placeholders.          *)
(***************************************************************************)
EXTENDS Integers, Sequences

CONSTANTS
  ByteSize,     \* values of a uint8_t (256 in the code)
  WordSize,     \* values of a uint16_t (65536 in the code)
  DefaultOrg,   \* program::_org before any ORG (23296 in the code)
  Names,        \* the identifiers a source can use
  NoName,       \* "this line has no label"
  Sources,      \* the source texts considered
  BitOr(_, _),  \* int | int
  BitAnd(_, _)  \* int & int

Byte == 0 .. ByteSize - 1
Word == 0 .. WordSize - 1
\* An int is as much wider than a uint16_t as a uint16_t is than a byte.
IntSize == WordSize * WordSize
MinInt == -(IntSize \div 2)
CInt == MinInt .. (IntSize \div 2) - 1
Operators == {"|", "&", "+", "-", "*", "/"}

Token == [t : {"num"}, v : Word] \cup [t : {"name"}, n : Names]
         \cup [t : {"$", "neg"} \cup Operators]

\* How many values a reduction takes off the stack; it leaves one.
Arity(t) == IF t.t \in Operators THEN 2 ELSE IF t.t = "neg" THEN 1 ELSE 0

\* Height(e)[i]: the values on the stack after the first i reductions of e.
Height(e) ==
  LET height[i \in 0 .. Len(e)] ==
        IF i = 0 THEN 0 ELSE height[i - 1] + 1 - Arity(e[i])
  IN height

\* The reductions of a text the grammar takes: every operator has its operands,
\* and one value is left.
Expr ==
  {e \in Seq(Token) :
     /\ \A i \in 1 .. Len(e) : Arity(e[i]) <= Height(e)[i - 1]
     /\ Height(e)[Len(e)] = 1}
HasDollar(e) == \E i \in 1 .. Len(e) : e[i].t = "$"

(***************************************************************************)
(* An opcode template.  rel, byte and word give, by offset of the          *)
(* placeholder in bytes, what rel_label, bexpr and wexpr were called with: *)
(* word[o].back is the offset argument of wexpr.  No two placeholders of   *)
(* one opcode overlap.                                                     *)
(***************************************************************************)
WordCells(D) == D \cup {o + 1 : o \in D}

IsTemplate(f) ==
  /\ f.bytes \in Seq(Byte)
  /\ DOMAIN f.rel \cup DOMAIN f.byte \cup WordCells(DOMAIN f.word)
       \subseteq 0 .. Len(f.bytes) - 1
  /\ \A o \in DOMAIN f.rel : f.rel[o] \in Expr
  /\ \A o \in DOMAIN f.byte : f.byte[o] \in [expr : Expr, op : {"+", "-"}]
  /\ \A o \in DOMAIN f.word : f.word[o] \in [expr : Expr, back : Nat]
  /\ DOMAIN f.rel \cap DOMAIN f.byte = {}
  /\ WordCells(DOMAIN f.word) \cap (DOMAIN f.rel \cup DOMAIN f.byte) = {}
  /\ \A o \in DOMAIN f.word : o + 1 \notin DOMAIN f.word

DbItem == [k : {"expr"}, expr : Expr] \cup [k : {"string"}, str : Seq(Byte)]

IsBody(b) ==
  \/ b.k \in {"empty", "rejected"}
  \/ b.k = "equ" /\ b.name \in Names /\ b.expr \in Expr
  \/ b.k \in {"org", "ds"} /\ b.literal \in Nat
  \/ b.k = "opcode" /\ IsTemplate(b.form)
  \/ b.k = "db" /\ b.items \in Seq(DbItem) /\ b.items # <<>>
  \/ b.k = "dw" /\ b.items \in Seq(Expr) /\ b.items # <<>>

IsSource(s) ==
  /\ Len(s) \in Nat /\ DOMAIN s = 1 .. Len(s)
  /\ \A i \in 1 .. Len(s) :
       /\ s[i].label \in Names \cup {NoName}
       /\ IsBody(s[i].body)
       /\ s[i].body.k \in {"equ", "org"} => s[i].label = NoName

ASSUME WidthAssumption ==
  /\ ByteSize \in Nat \ {0, 1}
  /\ ByteSize % 2 = 0
  /\ WordSize = ByteSize * ByteSize
ASSUME OrgAssumption == DefaultOrg \in Word
ASSUME NameAssumption == NoName \notin Names
ASSUME SourceAssumption == \A s \in Sources : IsSource(s)
ASSUME BitAssumption == \A x, y \in CInt : BitOr(x, y) \in CInt /\ BitAnd(x, y) \in CInt

-----------------------------------------------------------------------------
(* Arithmetic. *)

\* Signed overflow wraps, as the compilers of the Makefile and the project make it.
Wrap(v) == ((v + (IntSize \div 2)) % IntSize) - (IntSize \div 2)
\* Division of ints: towards zero.
CDiv(x, y) ==
  LET q == (IF x < 0 THEN -x ELSE x) \div (IF y < 0 THEN -y ELSE y)
  IN IF (x < 0) = (y < 0) THEN q ELSE -q

Apply(op, x, y) ==
  CASE op = "|" -> BitOr(x, y)
    [] op = "&" -> BitAnd(x, y)
    [] op = "+" -> Wrap(x + y)
    [] op = "-" -> Wrap(x - y)
    [] op = "*" -> Wrap(x * y)
    [] OTHER -> CDiv(x, y)

\* The processor traps: main's handler does not run.
Traps(op, x, y) == op = "/" /\ (y = 0 \/ (x = MinInt /\ y = -1))

SignedByte(b) == IF b < ByteSize \div 2 THEN b ELSE b - ByteSize

InReach(off) == -(ByteSize \div 2) <= off /\ off < ByteSize \div 2

\* ReplaceDollar, were the last replacement the only one made.
ReplaceOneDollar(e, addr) ==
  [i \in 1 .. Len(e) |->
     IF e[i].t = "$" /\ \A j \in i + 1 .. Len(e) : e[j].t # "$"
     THEN [t |-> "num", v |-> addr] ELSE e[i]]

\* What wexpr records: every $ of the expression is replaced by an address.
ReplaceDollar(e, addr) ==
  [i \in 1 .. Len(e) |-> IF e[i].t = "$" THEN [t |-> "num", v |-> addr] ELSE e[i]]
=============================================================================
