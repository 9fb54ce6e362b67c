---------------------------- MODULE MCAssembler ----------------------------
(* Small instances of the assembler: bytes of two bits, words of four. *)
EXTENDS AssemblerRefinement

Bits(x) == [i \in 0 .. 7 |-> ((x % 256) \div 2^i) % 2]
Signed(u) == IF u < 128 THEN u ELSE u - 256
FromBits(f) == Signed(f[0] + 2*f[1] + 4*f[2] + 8*f[3] + 16*f[4] + 32*f[5] + 64*f[6] + 128*f[7])
MCBitOr(x, y) ==
  LET p == Bits(x) q == Bits(y)
  IN FromBits([i \in 0 .. 7 |-> IF p[i] + q[i] > 0 THEN 1 ELSE 0])
MCBitAnd(x, y) ==
  LET p == Bits(x) q == Bits(y) IN FromBits([i \in 0 .. 7 |-> p[i] * q[i]])

-----------------------------------------------------------------------------
(* Lines. *)

Num(v) == [t |-> "num", v |-> v]
Name(n) == [t |-> "name", n |-> n]
Op(op) == [t |-> op]
Here == [t |-> "$"]
A == <<Name("a")>>
B == <<Name("b")>>

Map(o, x) == [i \in {o} |-> x]
Plus(e) == [expr |-> e, op |-> "+"]
Minus(e) == [expr |-> e, op |-> "-"]
Template(bytes, rel, byte, word) ==
  [bytes |-> bytes, rel |-> rel, byte |-> byte, word |-> word]

\* One template of each shape the opcode actions produce.
Nop == Template(<<1>>, Empty, Empty, Empty)
JrTo(e) == Template(<<1, 0>>, Map(1, e), Empty, Empty)
LdN(e) == Template(<<2, 0>>, Empty, Map(1, Plus(e)), Empty)
LdIxdN(d, n) == Template(<<3, 1, 0, 0>>, Empty, [o \in {2, 3} |-> IF o = 2 THEN Minus(d) ELSE Plus(n)], Empty)
Jp(e) == Template(<<3, 0, 0>>, Empty, Empty, Map(1, [expr |-> e, back |-> 3]))
LdIx(e) == Template(<<3, 2, 0, 0>>, Empty, Empty, Map(2, [expr |-> e, back |-> 4]))

Line(b) == [label |-> "none", body |-> b]
At(n, b) == [label |-> n, body |-> b]
Nothing == [k |-> "empty"]
Rejected == [k |-> "rejected"]
Code(f) == [k |-> "opcode", form |-> f]
Equ(n, e) == [k |-> "equ", name |-> n, expr |-> e]
OrgIs(v) == [k |-> "org", literal |-> v]
Ds(v) == [k |-> "ds", literal |-> v]
Db(items) == [k |-> "db", items |-> items]
Dw(items) == [k |-> "dw", items |-> items]
Str(s) == [k |-> "string", str |-> s]
Exp(e) == [k |-> "expr", expr |-> e]

UpTo(n, S) == UNION {[1 .. k -> S] : k \in 1 .. n}

\* Who defines what, when, and where it lands.
SymbolLines == {
  At("a", Nothing), At("b", Code(Nop)), At("a", Dw(<<B, <<Here>>>>)),
  Line(Equ("a", <<Num(1)>>)), Line(Equ("a", <<Name("b"), Num(1), Op("+")>>)), Line(Equ("b", A)),
  Line(OrgIs(3)), Line(OrgIs(29)),
  Line(Code(JrTo(A))), Line(Code(JrTo(B))), Line(Code(Jp(<<Here, Name("b"), Op("-")>>))),
  Line(Ds(3)), Line(Ds(20)), Line(Db(<<Exp(A), Str(<<3, 2>>)>>))}
SymbolSources == UpTo(3, SymbolLines)

\* What the expression parser is given, and by whom.
Expressions == {
  A, <<Num(9)>>, <<Num(14)>>, <<Here>>, <<Num(6), Op("neg")>>,
  <<Num(7), Here, Op("+")>>, <<Here, Here, Op("-")>>, <<Num(15), Num(15), Op("*")>>,
  <<Num(9), Name("a"), Op("/")>>, <<Num(7), Op("neg"), Num(2), Op("/")>>,
  <<Num(1), Num(0), Op("/"), Name("b"), Op("+")>>,
  <<Num(3), Num(4), Num(2), Op("*"), Op("-")>>,
  <<Num(10), Name("a"), Op("|")>>, <<Num(6), Op("neg"), Num(11), Op("&")>>,
  <<Num(1), Num(2), Op("*"), Num(3), Here, Op("*"), Op("+")>>}
ExpressionLines ==
  UNION {{Line(Equ("a", e)), Line(Code(JrTo(e))), Line(Code(LdN(e))), Line(Code(LdIxdN(e, <<Num(5)>>))),
          Line(Code(LdIx(e))), Line(Db(<<Str(<<>>), Exp(e)>>)), Line(Dw(<<<<Num(6)>>, e>>))} :
           e \in Expressions}
  \cup {Line(Rejected), At("a", Rejected), At("a", Code(Nop)), Line(OrgIs(16)), Line(Nothing)}
ExpressionSources == UpTo(2, ExpressionLines)
=============================================================================
