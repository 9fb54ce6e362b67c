-------------------------- MODULE Assembler_proofs --------------------------
(***************************************************************************)
(* The assembler keeps its types and its fixup maps sound, for every       *)
(* source text and every width of a byte.  The invariant is IInv: the type *)
(* of memory after fixup_addresses needs the fixups in bounds, the bounds  *)
(* need the shape of the templates, and both need what the loops walk.     *)
(*                                                                         *)
(* data::_acc, the stack of parse_expr: a reduction finds its operands     *)
(* there, an evaluation leaves nothing behind, and only a division or a $  *)
(* can lead the program out of C++.  AccMatches compares the stack with    *)
(* Height, what the reductions done so far make of an empty one.  Where    *)
(* the lexer has to stop at a $ the rest of the expression is not reduced, *)
(* and the stack may only be higher.                                       *)
(*                                                                         *)
(* The jumps: the byte stored for one leads to its label.                  *)
(***************************************************************************)
EXTENDS Assembler, Data_proofs

-----------------------------------------------------------------------------
(* Arithmetic and expressions. *)

\* Division by a positive natural, the facts the others rest on.
LEMMA DivBound ==
  ASSUME NEW a \in Nat, NEW b \in Nat \ {0}
  PROVE  a \div b \in Nat /\ a \div b <= a
  BY SMT

LEMMA DivBound2 ==
  ASSUME NEW a \in Nat, NEW b \in Nat \ {0, 1}
  PROVE  2 * (a \div b) <= a
  BY SMT

LEMMA ModBound ==
  ASSUME NEW a \in Int, NEW b \in Nat \ {0}
  PROVE  a % b \in 0 .. b - 1
  BY SMT

LEMMA DivWord ==
  ASSUME NEW a \in Nat, NEW b \in Nat \ {0}, a < b * b
  PROVE  a \div b \in 0 .. b - 1
  BY SMT

\* How the three widths compare, whatever the width of a byte.
LEMMA Widths ==
  /\ ByteSize \in Nat \ {0} /\ ByteSize >= 2
  /\ WordSize \in Nat \ {0} /\ WordSize >= 4
  /\ IntSize \in Nat \ {0} /\ IntSize >= 4 * WordSize
  /\ IntSize % 2 = 0
  <1> USE WidthAssumption
  <1>1. ByteSize \in Nat /\ ByteSize >= 2
    OBVIOUS
  <1>2. WordSize \in Nat /\ WordSize >= 4
    BY <1>1, SMT
  <1>3. IntSize \in Nat
    BY <1>2 DEF IntSize
  <1>4. IntSize >= 4 * WordSize
    BY <1>2, SMT DEF IntSize
  <1>5. IntSize % 2 = 0
    <2> DEFINE k == ByteSize \div 2
    <2>1. k \in Nat /\ ByteSize = 2 * k
      BY <1>1, SMT
    <2> HIDE DEF k
    <2>2. WordSize = 2 * (k * ByteSize)
      BY <2>1, <1>1, SMT
    <2>3. IntSize = 2 * ((k * ByteSize) * WordSize)
      BY <2>2, <2>1, <1>1, <1>2, SMT DEF IntSize
    <2>. QED
      BY <2>3, <2>1, <1>1, <1>2, SMT
  <1>. QED
    BY <1>1, <1>2, <1>3, <1>4, <1>5

\* A conversion to uint8_t or uint16_t.
LEMMA ResidueType ==
  ASSUME NEW n \in Int
  PROVE  n % ByteSize \in Byte /\ n % WordSize \in Word
  BY Widths, ModBound DEF Byte, Word

\* The high byte of a uint16_t is a byte.
LEMMA HighByteType ==
  ASSUME NEW w \in Word
  PROVE  w \div ByteSize \in Byte
  <1>1. w \in Nat /\ w < ByteSize * ByteSize
    BY Widths, WidthAssumption DEF Word
  <1>2. w \div ByteSize \in 0 .. ByteSize - 1
    BY <1>1, Widths, DivWord
  <1>. QED
    BY <1>2 DEF Byte

\* uint16_t promotes to int, and the sum of two of them is an int.
LEMMA WordIsInt == Word \subseteq CInt /\ \A x, y \in Word : x + y \in CInt
  <1>1. IntSize \div 2 \in Nat /\ 2 * (IntSize \div 2) = IntSize
    BY Widths, SMT
  <1>. QED
    BY Widths, <1>1, SMT DEF Word, CInt, MinInt

\* Wrapping gives an int.
LEMMA WrapType ==
  ASSUME NEW v \in Int
  PROVE  Wrap(v) \in CInt
  <1> DEFINE N == IntSize
  <1>1. N \in Nat /\ N > 0 /\ N % 2 = 0
    BY Widths
  <1>2. N \div 2 \in Nat /\ 2 * (N \div 2) = N
    BY <1>1, SMT
  <1> HIDE DEF N
  <1>3. (v + N \div 2) % N \in 0 .. N - 1
    BY <1>1, <1>2, ModBound
  <1>. QED
    BY <1>1,<1>2,<1>3, SMT DEF Wrap, CInt, MinInt, N

\* A division that does not trap gives an int.
LEMMA CDivType ==
  ASSUME NEW x \in CInt, NEW y \in CInt, y # 0, ~(x = MinInt /\ y = -1)
  PROVE  CDiv(x, y) \in CInt
  <1> DEFINE N == IntSize \div 2
             u == IF x < 0 THEN -x ELSE x
             w == IF y < 0 THEN -y ELSE y
  <1>1. N \in Nat /\ CInt = -N .. N - 1 /\ MinInt = -N
    BY Widths, SMT DEF CInt, MinInt
  <1>2. x \in -N .. N - 1 /\ y \in -N .. N-1
    BY <1>1
  <1> HIDE DEF N
  <1>3. u \in Nat /\ u <= N /\ w \in Nat \ {0} /\ (x >= 0 => u <= N - 1)
    BY <1>1, <1>2, SMT
  <1>4. w # 1 => w \in Nat \ {0, 1}
    BY <1>3
  <1>5. w = 1 <=> y \in {1, -1}
    BY <1>2, <1>1, SMT
  <1> DEFINE q == u \div w
  <1>6. q \in Nat /\ q <= u /\ (w # 1 => 2 * q <= u)
    <2> HIDE DEF u, w
    <2>. QED
      BY <1>3, <1>4, DivBound, DivBound2 DEF q
  <1>7. CDiv(x, y) = IF (x < 0) = (y < 0) THEN q ELSE -q
    BY DEF CDiv
  <1> HIDE DEF q
  <1>8. CASE (x < 0) = (y < 0)
    <2>1. q <= N - 1
      <3>1. CASE x >= 0
        BY <3>1, <1>3, <1>6, <1>1, SMT
      <3>2. CASE x < 0 /\ w = 1 
         <4>1. y = -1
           BY <3>2, <1>5, <1>8, SMT
         <4>2. x # -N
           BY <4>1, <1>1
         <4>. QED
           BY <3>2, <4>2, <1>1, <1>2, <1>6, SMT
      <3>3. CASE x < 0 /\ w # 1
        BY <3>3, <1>6, <1>3, <1>1, <1>2, SMT
      <3>. QED
        BY <3>1, <3>2, <3>3, <1>1, <1>2, SMT
    <2>. QED
      BY <2>1, <1>1, <1>6, <1>7, <1>8, SMT
  <1>9. CASE (x < 0) # (y < 0)
    BY <1>1, <1>3, <1>6, <1>7, <1>9, SMT
  <1>. QED
    BY <1>8, <1>9
\* So does every operator of the expression grammar.
LEMMA ApplyType ==
  ASSUME NEW x \in CInt, NEW y \in CInt, NEW op \in Operators, ~Traps(op, x, y)
  PROVE  Apply(op, x, y) \in CInt
  <1>1. x \in Int /\ y \in Int
    BY Widths DEF CInt, MinInt
  <1>2. CASE op \in {"|", "&"}
    BY <1>2, BitAssumption DEF Apply
  <1>3. CASE op = "+"
    BY <1>3, <1>1, WrapType DEF Apply
  <1>4. CASE op = "-"
    BY <1>4, <1>1, WrapType DEF Apply
  <1>5. CASE op = "*"
    BY <1>5, <1>1, WrapType DEF Apply
  <1>6. CASE op = "/"
    BY <1>6, CDivType DEF Apply, Traps
  <1>. QED
    BY <1>2, <1>3, <1>4, <1>5, <1>6 DEF Operators

\* The height of the stack goes by the arity of the reductions.
LEMMA HeightStep ==
  ASSUME NEW e \in Seq(Token)
  PROVE  /\ Height(e)[0] = 0
         /\ \A i \in 0 .. Len(e) : Height(e)[i] \in Int
         /\ \A i \in 1 .. Len(e) : Height(e)[i] = Height(e)[i - 1] + 1 - Arity(e[i])
  <1> DEFINE N == Len(e)
             next == [i \in 1 .. N |-> [v \in Int |-> v + 1 - Arity(e[i])]]
             IsHeight(h) == h = [i \in 0 .. N |-> IF i = 0 THEN 0 ELSE h[i - 1] + 1 - Arity(e[i])]
             c == CHOOSE h : IsHeight(h)
  <1>1. N \in Nat /\ \A i \in 1 .. N : Arity(e[i]) \in Nat
    BY DEF Arity
  <1>2. next \in [1 .. N -> [Int -> Int]]
    BY <1>1
  <1>3. PICK g : Iterates(g, N, Int, 0, next)
    <2>1. 0 \in Int
      OBVIOUS
    <2> HIDE DEF next, N
    <2>. QED
      BY <1>1, <1>2, <2>1, Recursion, Zenon
  <1>4. /\ g \in [0 .. N -> Int] /\ g[0] = 0
        /\ \A i \in 1 .. N : g[i] = g[i - 1] + 1 - Arity(e[i])
    <2>1. /\ g \in [0 .. N -> Int] /\ g[0] = 0
          /\ \A i \in 1 .. N : g[i] = next[i][g[i - 1]]
      <3> HIDE DEF next
      <3>. QED
        BY <1>3 DEF Iterates
    <2>2. ASSUME NEW i \in 1 .. N
          PROVE  g[i] = g[i - 1] + 1 - Arity(e[i])
      <3>1. i - 1 \in 0 .. N
        BY <1>1
      <3>2. g[i - 1] \in Int
        BY <2>1, <3>1
      <3>. QED
        BY <2>1, <3>2
    <2>. QED
      BY <2>1, <2>2
  <1>5. IsHeight(g)
    <2>1. \A i \in 0 .. N : i # 0 => i \in 1 .. N
      BY <1>1
    <2>2. g = [i \in 0 .. N |-> IF i = 0 THEN 0 ELSE g[i - 1] + 1 - Arity(e[i])]
      <3> HIDE DEF next, N
      <3>. QED
        BY <1>4, <2>1
    <2>. QED
      BY <2>2
  <1>6. IsHeight(c)
    BY <1>5
  <1>7. Height(e) = c
    BY DEF Height
  <1>8. \A i \in 0 .. N : c[i] = IF i = 0 THEN 0 ELSE c[i - 1] + 1 - Arity(e[i])
    <2> HIDE DEF c
    <2>. QED
      BY <1>6, Zenon
  <1>9. \A i \in 0 .. N : c[i] \in Int
    <2> DEFINE Q == {n \in Nat : c[n] \in Int}
    <2>1. 0 \in Q
      BY <1>1, <1>8
    <2>2. ASSUME NEW n \in 0 .. N - 1, n \in Q
          PROVE  n + 1 \in Q
      <3> HIDE DEF c
      <3>1. n + 1 \in 0 .. N /\ n + 1 # 0 /\ (n + 1) - 1 = n /\ n + 1 \in 1 .. N
        BY <1>1
      <3>2. c[n + 1] = c[n] + 1 - Arity(e[n + 1])
        BY <1>8, <3>1
      <3>3. c[n] \in Int /\ Arity(e[n + 1]) \in Nat
        BY <1>1, <2>2, <3>1
      <3>4. c[n + 1] \in Int
        BY <3>2, <3>3
      <3>. QED
        BY <3>4
    <2>3. \A n \in 0 .. N : n \in Q
      <3> HIDE DEF Q
      <3>. QED
        BY <1>1, <2>1, <2>2, BoundedInduction
    <2>. QED
      BY <2>3
  <1>. QED
    <2> HIDE DEF c
    <2>. QED
      BY <1>1, <1>7, <1>8, <1>9

\* Expressions whose reductions take and leave as many values have the same heights.
LEMMA SameHeight ==
  ASSUME NEW e \in Seq(Token), NEW f \in Seq(Token), Len(e) = Len(f),
         \A i \in 1 .. Len(e) : Arity(e[i]) = Arity(f[i])
  PROVE  \A i \in 0 .. Len(e) : Height(e)[i] = Height(f)[i]
  <1> DEFINE Q == {n \in Nat : Height(e)[n] = Height(f)[n]}
  <1>1. Len(e) \in Nat
    OBVIOUS
  <1>2. 0 \in Q
    BY HeightStep
  <1>3. ASSUME NEW n \in 0 .. Len(e) - 1, n \in Q
        PROVE  n + 1 \in Q
    <2>1. n + 1 \in 1 .. Len(e) /\ (n + 1) - 1 = n
      BY <1>1
    <2>2. Height(e)[n + 1] = Height(e)[n] + 1 - Arity(e[n + 1])
      BY <2>1, HeightStep
    <2>3. Height(f)[n + 1] = Height(f)[n] + 1 - Arity(f[n + 1])
      BY <2>1, HeightStep
    <2>. QED
      BY <1>3, <2>1, <2>2, <2>3
  <1>4. \A n \in 0 .. Len(e) : n \in Q
    <2> HIDE DEF Q
    <2>. QED
      BY <1>1, <1>2, <1>3, BoundedInduction
  <1>. QED
    BY <1>4

\* wexpr leaves an expression with no $.
LEMMA ReplaceDollarType ==
  ASSUME NEW e \in Expr, NEW addr \in Word
  PROVE  ReplaceDollar(e, addr) \in Expr /\ ~HasDollar(ReplaceDollar(e, addr))
  <1>1. e \in Seq(Token)
    BY DEF Expr
  <1> DEFINE r == ReplaceDollar(e, addr)
  <1>2. Len(e) \in Nat /\ \A i \in 1 .. Len(e) : e[i] \in Token
    BY <1>1
  <1>3. [t |-> "num", v |-> addr] \in Token
    BY DEF Token
  <1>4. r = [i \in 1 .. Len(e) |-> IF e[i].t = "$" THEN [t |-> "num", v |-> addr] ELSE e[i]]
    BY DEF ReplaceDollar
  <1>5. \A i \in 1 .. Len(e) : r[i] \in Token
    BY <1>2, <1>3, <1>4
  <1>6. r \in Seq(Token) /\ Len(r) = Len(e)
    BY <1>2, <1>4, <1>5
  <1>7. \A i \in 1 .. Len(e) : r[i].t # "$"
    BY <1>4
  <1>8. \A i \in 1 .. Len(e) : Arity(r[i]) = Arity(e[i])
    BY <1>4 DEF Arity, Operators
  <1> HIDE DEF r
  <1>9. \A i \in 0 .. Len(e) : Height(r)[i] = Height(e)[i]
    BY <1>1, <1>6, <1>8, SameHeight
  <1>10. r \in Expr
    <2>1. \A i \in 1 .. Len(e) : Arity(e[i]) <= Height(e)[i - 1]
      BY DEF Expr
    <2>2. Height(e)[Len(e)] = 1
      BY DEF Expr
    <2>3. \A i \in 1 .. Len(r) : Arity(r[i]) <= Height(r)[i - 1]
      BY <1>2, <1>6, <1>8, <1>9, <2>1
    <2>4. Height(r)[Len(r)] = 1
      BY <1>2, <1>6, <1>9, <2>2
    <2>. QED
      BY <1>6, <2>3, <2>4 DEF Expr
  <1>. QED
    BY <1>6, <1>7, <1>10 DEF HasDollar, r

-----------------------------------------------------------------------------
(* What a state of the invariant offers. *)

LEMMA SizeIsNat ==
  ASSUME IInv
  PROVE  Size \in Nat
  BY DEF IInv, TypeOK, Size

\* The line being parsed is a line of the grammar.
LEMMA CurrentBody ==
  ASSUME IInv, line <= Len(source)
  PROVE  IsBody(Body) /\ source[line].label \in Names \cup {NoName}
  <1>1. IsSource(source)
    BY SourceAssumption DEF IInv, TypeOK
  <1>2. line \in 1 .. Len(source)
    BY <1>1, SMT DEF IInv, TypeOK, IsSource
  <1>. QED
    BY <1>1, <1>2 DEF IsSource, Body

\* parse_expr works on an expression.
LEMMA CurrentType ==
  ASSUME IInv, NEW e \in Current
  PROVE  Len(e) \in Nat
  <1>1. CASE phase = "equ"
    <2>1. e = Body.expr
      BY <1>1 DEF Current
    <2>2. Body.expr \in Expr
      BY <1>1, CurrentBody, SMT DEF IInv, EquOnItsLine, IsBody
    <2>. QED
      BY <2>1, <2>2 DEF Expr
  <1>2. CASE phase = "rel"
    <2>1. PICK a \in todo : e = rel_addr[a]
      BY <1>2 DEF Current, Least
    <2>. QED
      BY <2>1, <1>2 DEF IInv, TypeOK, IsMap, Expr, TodoPending
  <1>3. CASE phase = "byte"
    <2>1. PICK a \in todo : e = byte_expr[a].expr
      BY <1>3 DEF Current, Least
    <2>. QED
      BY <2>1, <1>3 DEF IInv, TypeOK, IsMap, Expr, TodoPending, ByteExpr
  <1>4. CASE phase = "word"
    <2>1. PICK a \in todo : e = word_expr[a]
      BY <1>4 DEF Current, Least
    <2>. QED
      BY <2>1, <1>4 DEF IInv, TypeOK, IsMap, Expr, TodoPending
  <1>5. CASE phase \notin {"equ", "rel", "byte", "word"}
    BY <1>5 DEF Current
  <1>. QED
    BY <1>1, <1>2, <1>3, <1>4, <1>5

\* Reading and popping a non-empty accumulator.
LEMMA AccType ==
  ASSUME IInv, acc # <<>>
  PROVE  /\ Top \in CInt /\ Top \in Int /\ Rest \in Seq(CInt)
         /\ Result \in Word
         /\ Len(acc) > 1 => /\ acc[Len(acc) - 1] \in CInt
                            /\ SubSeq(acc, 1, Len(acc) - 2) \in Seq(CInt)
  <1>1. acc \in Seq(CInt) /\ Len(acc) \in Nat /\ Len(acc) > 0
    BY DEF IInv, TypeOK
  <1>2. Top \in CInt
    BY <1>1 DEF Top
  <1>3. Rest \in Seq(CInt)
    BY <1>1 DEF Rest
  <1>4. Top \in Int
    BY <1>2, Widths DEF CInt, MinInt
  <1>5. Result \in Word
    BY <1>4, ResidueType DEF Result
  <1>6. Len(acc) > 1 => /\ acc[Len(acc) - 1] \in CInt
                        /\ SubSeq(acc, 1, Len(acc) - 2) \in Seq(CInt)
    BY <1>1
  <1>. QED
    BY <1>2, <1>3, <1>4, <1>5, <1>6

LEMMA MeaningsType ==
  ASSUME IInv, NEW n \in Names
  PROVE  Meanings(n) \subseteq CInt
  <1>1. org \in Word /\ IsMap(label, Names, Word) /\ IsMap(equ, Names, Word)
    BY DEF IInv, TypeOK
  <1>. QED
    BY WordIsInt, <1>1 DEF Meanings, IsMap

-----------------------------------------------------------------------------
(* What the helpers of the actions return. *)

LEMMA DollarType ==
  ASSUME NEW at \in Nat, NEW back \in Nat, org \in Word
  PROVE  Dollar(at, back) \in Word
  <1>1. (at + 2) % WordSize \in Word
    BY ResidueType
  <1>2. org + ((at + 2) % WordSize) - back \in Int
    BY <1>1, Widths DEF Word
  <1>. QED
    BY <1>2, ResidueType DEF Dollar

LEMMA MergeType ==
  ASSUME NEW m, NEW T, NEW base \in Nat, NEW new,
         IsMap(m, Nat, T), DOMAIN new \subseteq Nat,
         \A o \in DOMAIN new : new[o] \in T
  PROVE  IsMap(Merge(m, base, new), Nat, T)
  <1> DEFINE D == DOMAIN m \cup From(base, DOMAIN new)
             r == [a \in D |-> IF a - base \in DOMAIN new THEN new[a - base] ELSE m[a]]
  <1>1. Merge(m, base, new) = r
    BY DEF Merge
  <1>2. D \subseteq Nat
    BY DEF IsMap, From
  <1>3. ASSUME NEW a \in D
        PROVE  r[a] \in T
    <2>1. CASE a - base \in DOMAIN new
      BY <2>1
    <2>2. CASE a - base \notin DOMAIN new
      <3>1. ASSUME NEW o \in DOMAIN new, a = base + o
            PROVE  FALSE
        <4>1. a - base = o
          BY <3>1, SMT
        <4>. QED
          BY <4>1, <2>2
      <3>2. a \in DOMAIN m
        BY <3>1 DEF From
      <3>. QED
        BY <3>2, <2>2 DEF IsMap
    <2>. QED
      BY <2>1, <2>2
  <1>. QED
    BY <1>1, <1>2, <1>3, Zenon DEF IsMap

\* An entry of the merged map is an entry of one of the two.
LEMMA DomainOfMerge ==
  ASSUME NEW m, NEW base \in Nat, NEW new, DOMAIN new \subseteq Nat,
         NEW a \in DOMAIN Merge(m, base, new)
  PROVE  \/ a - base \in DOMAIN new /\ Merge(m, base, new)[a] = new[a - base]
         \/ a \in DOMAIN m /\ Merge(m, base, new)[a] = m[a]
  <1>1. a \in DOMAIN m \cup From(base, DOMAIN new)
    BY DEF Merge
  <1>2. CASE a - base \in DOMAIN new
    BY <1>2, <1>1 DEF Merge
  <1>3. CASE a - base \notin DOMAIN new
    <2>1. a \notin From(base, DOMAIN new)
      BY <1>3 DEF From
    <2>. QED
      BY <1>1, <1>3, <2>1 DEF Merge
  <1>. QED
    BY <1>2, <1>3

LEMMA ZerosType ==
  ASSUME NEW m \in Seq(Byte), NEW n \in Nat
  PROVE  m \o Zeros(n) \in Seq(Byte) /\ Len(m \o Zeros(n)) = Len(m) + n
  <1> DEFINE z == Zeros(n)
  <1>1. z \in Seq(Byte) /\ Len(z) = n
    BY Widths DEF Zeros, Byte
  <1> HIDE DEF z
  <1>2. m \o z \in Seq(Byte) /\ Len(m \o z) = Len(m) + n
    BY <1>1
  <1>. QED
    BY <1>2 DEF z

\* Patching one byte.
LEMMA PokeType ==
  ASSUME NEW m \in Seq(Byte), NEW i \in Nat, NEW b \in Byte
  PROVE  [m EXCEPT ![i] = b] \in Seq(Byte) /\ Len([m EXCEPT ![i] = b]) = Len(m)
  <1> DEFINE p == [m EXCEPT ![i] = b]
  <1>1. DOMAIN p = 1 .. Len(m) /\ Len(m) \in Nat
    OBVIOUS
  <1>2. ASSUME NEW j \in 1 .. Len(m)
        PROVE  p[j] \in Byte
    <2>1. m[j] \in Byte
      OBVIOUS
    <2>. QED
      BY <2>1
  <1>3. p \in [1 .. Len(m) -> Byte]
    BY <1>1, <1>2
  <1> HIDE DEF p
  <1>4. p \in Seq(Byte) /\ Len(p) = Len(m)
    BY <1>1, <1>3
  <1>. QED
    BY <1>4 DEF p

\* Closing a statement's bytes: the count of a block is a number because no
\* statement takes bytes away.
LEMMA AccountType ==
  ASSUME IInv, NEW type \in {"code", "db", "ds", "dw"},
         NEW size \in Nat, size >= last_size, Account(type, size)
  PROVE  mem_type' \in Seq(Blocks) /\ last_size' = size
  <1>1. mem_type \in Seq(Blocks) /\ last_size \in Nat
    BY DEF IInv, TypeOK
  <1>2. last_size' = size
    BY DEF Account
  <1>3. CASE mem_type = <<>> \/ mem_type[Len(mem_type)].type # type
    <2>1. mem_type' = Append(mem_type, [type |-> type, count |-> size - last_size])
      BY <1>3 DEF Account
    <2>2. [type |-> type, count |-> size - last_size] \in Blocks
      BY <1>1, SMT DEF Blocks
    <2>. QED
      BY <1>1, <1>2, <2>1, <2>2
  <1>4. CASE ~(mem_type = <<>> \/ mem_type[Len(mem_type)].type # type)
    <2> DEFINE n == Len(mem_type)
               sum == mem_type[n].count + size - last_size
               last == [mem_type[n] EXCEPT !.count = sum]
    <2>1. n \in 1 .. Len(mem_type) /\ mem_type[n] \in Blocks
      BY <1>1, <1>4
    <2>2. mem_type' = [mem_type EXCEPT ![n] = last]
      BY <1>4 DEF Account
    <2>3. sum \in Nat
      BY <2>1, <1>1, SMT DEF Blocks
    <2>4. last \in Blocks
      BY <2>1, <2>3, SMT DEF Blocks
    <2> HIDE DEF n, last
    <2>. QED
      BY <1>1, <1>2, <2>1, <2>2, <2>4
  <1>. QED
    BY <1>3, <1>4

-----------------------------------------------------------------------------
(* The shapes of the steps: each lemma is about all the actions of a shape. *)

LEMMA FreshInv ==
  ASSUME source \in Sources, relative \in {"offset", "absolute"},
         NEW origin \in Word, Fresh(origin)
  PROVE  IInv
  <1> USE DEF Fresh
  <1>1. /\ DOMAIN Empty = {}
        /\ IsMap(Empty, Names, Word) /\ IsMap(Empty, Nat, Expr) /\ IsMap(Empty, Nat, ByteExpr)
    BY DEF IsMap, Empty
  <1>2. TypeOK
    <2>1. /\ IsMap(label, Names, Word) /\ IsMap(equ, Names, Word)
          /\ IsMap(rel_addr, Nat, Expr) /\ IsMap(byte_expr, Nat, ByteExpr)
          /\ IsMap(word_expr, Nat, Expr)
      BY <1>1
    <2>2. acc \in Seq(CInt) /\ memory \in Seq(Byte) /\ mem_type \in Seq(Blocks)
      OBVIOUS
    <2>3. org \in Word /\ org_set \in BOOLEAN /\ todo \in SUBSET Nat
      BY Zenon
    <2>4. phase \in Phases
      BY DEF Phases
    <2>5. last_size \in Nat /\ line \in Nat \ {0} /\ item \in Nat /\ pos \in Nat
      OBVIOUS
    <2>. QED
      BY <2>1, <2>2, <2>3, <2>4, <2>5 DEF TypeOK
  <1>3. HolesSound
    BY <1>1 DEF HolesSound, Holes, WordCells
  <1>4. TodoPending /\ EquOnItsLine /\ Accounted
    BY DEF TodoPending, EquOnItsLine, Accounted, Size
  <1>. QED
    BY <1>2, <1>3, <1>4 DEF IInv

LEMMA InitInv == Init => IInv
  BY FreshInv, OrgAssumption DEF Init

\* Only control and evaluation change.
LEMMA ControlStep ==
  ASSUME IInv, UNCHANGED <<input, program, symbols, fixups>>,
         phase' \in Phases, line' \in Nat \ {0}, item' \in Nat,
         todo' \in SUBSET Nat, pos' \in Nat, acc' \in Seq(CInt),
         TodoPending', EquOnItsLine'
  PROVE  IInv'
  BY DEF input, program, symbols, fixups, IInv, TypeOK, HolesSound, Holes, WordCells,
         Accounted, IsMap, Size

LEMMA FailStep ==
  ASSUME IInv, Fail, UNCHANGED <<input, program, symbols, fixups>>
  PROVE  IInv'
  <1>1. /\ phase' \in Phases /\ line' \in Nat \ {0} /\ item' \in Nat
        /\ todo' \in SUBSET Nat /\ pos' \in Nat /\ acc' \in Seq(CInt)
    BY DEF IInv, TypeOK, Fail, Phases, Terminal
  <1>2. TodoPending' /\ EquOnItsLine'
    BY DEF Fail, TodoPending, EquOnItsLine
  <1>. QED
    BY <1>1, <1>2, ControlStep

\* A reduction of the expression grammar pushes its value.
LEMMA PushStep ==
  ASSUME IInv, Step, acc' \in Seq(CInt), UNCHANGED <<input, program, symbols, fixups>>
  PROVE  IInv'
  <1>1. /\ phase' \in Phases /\ line' \in Nat \ {0} /\ item' \in Nat
        /\ todo' \in SUBSET Nat /\ pos' \in Nat
    BY DEF IInv, TypeOK, Step
  <1>2. TodoPending' /\ EquOnItsLine'
    BY DEF IInv, Step, TodoPending, EquOnItsLine, Body, input, fixups
  <1>. QED
    BY <1>1, <1>2, ControlStep

\* A statement ends: its bytes, the last ones perhaps pushed now, are accounted for.
LEMMA StatementStep ==
  ASSUME IInv, NEW type \in {"code", "db", "ds", "dw"},
         NEW size \in Nat, size >= Size, Account(type, size), NextLine,
         memory' \in Seq(Byte), Size' = size,
         UNCHANGED <<input, todo, evaluation, org, org_set, symbols, fixups>>
  PROVE  IInv'
  <1>1. Accounted /\ Size \in Nat /\ last_size \in Nat
    BY SizeIsNat DEF IInv, TypeOK
  <1>2. mem_type' \in Seq(Blocks) /\ last_size' = size
    BY <1>1, AccountType, SMT DEF Accounted
  <1>3. TypeOK'
    BY <1>2 DEF IInv, TypeOK, NextLine, input, evaluation, symbols, fixups, IsMap, Phases
  <1>4. HolesSound'
    BY <1>1, SMT DEF IInv, HolesSound, Holes, WordCells, fixups
  <1>. QED
    BY <1>2, <1>3, <1>4 DEF IInv, NextLine, TodoPending, EquOnItsLine, Accounted

\* n bytes are pushed, with placeholders at offsets R, B and W of them.
LEMMA EmitStep ==
  ASSUME IInv, NEW n \in Nat, NEW R, NEW B, NEW W,
         R \cup B \cup WordCells(W) \subseteq 0 .. n - 1,
         R \cap B = {}, WordCells(W) \cap (R \cup B) = {},
         \A o \in W : o + 1 \notin W,
         memory' \in Seq(Byte), Size' = Size + n,
         IsMap(rel_addr, Nat, Expr)', IsMap(byte_expr, Nat, ByteExpr)',
         IsMap(word_expr, Nat, Expr)',
         (DOMAIN rel_addr)' = DOMAIN rel_addr \cup From(Size, R),
         (DOMAIN byte_expr)' = DOMAIN byte_expr \cup From(Size, B),
         (DOMAIN word_expr)' = DOMAIN word_expr \cup From(Size, W),
         phase' \in {"line", "body", "opcode"}, item' \in Nat,
         UNCHANGED <<input, line, todo, evaluation, org, org_set, last_size, mem_type, symbols>>
  PROVE  IInv'
  <1>1. Size \in Nat
    BY SizeIsNat
  <1>2. TypeOK'
    BY DEF IInv, TypeOK, input, evaluation, symbols, IsMap, Phases
  <1>3. R \subseteq Nat /\ B \subseteq Nat /\ W \subseteq Nat
    BY DEF WordCells
  <1>4. HolesSound
    BY DEF IInv
  <1>5. HolesSound'
    <2>1. Holes' \subseteq 0 .. Size' - 1
      BY <1>1, <1>3, <1>4, SMT DEF HolesSound, Holes, WordCells, From
    <2>2. (DOMAIN rel_addr)' \cap (DOMAIN byte_expr)' = {}
      BY <1>1, <1>3, <1>4, SMT DEF HolesSound, Holes, WordCells, From
    <2>3. WordCells(DOMAIN word_expr)' \cap (DOMAIN rel_addr \cup DOMAIN byte_expr)' = {}
      BY <1>1, <1>3, <1>4, SMT DEF HolesSound, Holes, WordCells, From
    <2>4. \A a \in (DOMAIN word_expr)' : a + 1 \notin (DOMAIN word_expr)'
      BY <1>1, <1>3, <1>4, SMT DEF HolesSound, Holes, WordCells, From
    <2>. QED
      BY <2>1, <2>2, <2>3, <2>4 DEF HolesSound
  <1>6. Accounted'
    BY <1>1, SMT DEF IInv, TypeOK, Accounted
  <1>. QED
    BY <1>2, <1>5, <1>6 DEF IInv, TodoPending, EquOnItsLine

\* A loop of fixup_addresses patches the bytes of one address.
LEMMA PatchStep ==
  ASSUME IInv, NEW a \in Nat, todo' = todo \ {a},
         memory' \in Seq(Byte), Len(memory') = Len(memory), acc # <<>>, acc' = Rest, pos' = 0,
         UNCHANGED <<input, phase, line, item, org, org_set, last_size, mem_type, symbols, fixups>>
  PROVE  IInv'
  <1>1. TypeOK'
    BY AccType DEF IInv, TypeOK, input, symbols, fixups, IsMap
  <1>2. HolesSound'
    BY DEF IInv, HolesSound, Holes, WordCells, fixups, Size
  <1>3. TodoPending'
    BY DEF IInv, TodoPending, fixups
  <1>. QED
    BY <1>1, <1>2, <1>3 DEF IInv, Accounted, EquOnItsLine, Body, input, Size

-----------------------------------------------------------------------------
(* The actions. *)

LEMMA DefineLabelInv == ASSUME IInv, DefineLabel PROVE IInv'
  <1> DEFINE n == source[line].label
  <1>1. CASE n \in DOMAIN label \/ n \in DOMAIN equ
    BY <1>1, FailStep DEF DefineLabel, Fail, symbols
  <1>2. CASE ~(n \in DOMAIN label \/ n \in DOMAIN equ)
    <2>1. n \in Names
      BY CurrentBody DEF DefineLabel
    <2>2. Size % WordSize \in Word
      BY SizeIsNat, ResidueType
    <2>3. IsMap(label', Names, Word)
      BY <1>2, <2>1, <2>2 DEF DefineLabel, IInv, TypeOK, IsMap
    <2>4. TypeOK'
      BY <1>2, <2>3 DEF DefineLabel, IInv, TypeOK, input, program, fixups, Phases, IsMap
    <2>5. HolesSound'
      BY DEF DefineLabel, IInv, HolesSound, Holes, WordCells, program, fixups, Size
    <2>. QED
      BY <1>2, <2>4, <2>5
      DEF DefineLabel, IInv, TodoPending, EquOnItsLine, Accounted, program, Size
  <1>. QED
    BY <1>1, <1>2

LEMMA EmptyLineInv == ASSUME IInv, EmptyLine PROVE IInv'
  <1>1. /\ phase' \in Phases /\ line' \in Nat \ {0} /\ item' \in Nat
        /\ todo' \in SUBSET Nat /\ pos' \in Nat /\ acc' \in Seq(CInt)
    BY DEF EmptyLine, NextLine, evaluation, IInv, TypeOK, Phases
  <1>2. TodoPending' /\ EquOnItsLine'
    BY DEF EmptyLine, NextLine, TodoPending, EquOnItsLine
  <1>. QED
    BY <1>1, <1>2, ControlStep DEF EmptyLine

LEMMA CallEquInv == ASSUME IInv, CallEqu PROVE IInv'
  <1>1. /\ phase' \in Phases /\ line' \in Nat \ {0} /\ item' \in Nat
        /\ todo' \in SUBSET Nat /\ pos' \in Nat /\ acc' \in Seq(CInt)
    BY DEF CallEqu, IInv, TypeOK, Phases
  <1>2. TodoPending'
    BY DEF CallEqu, TodoPending
  <1>3. EquOnItsLine'
    BY DEF CallEqu, AtBody, EquOnItsLine, Body, input
  <1>. QED
    BY <1>1, <1>2, <1>3, ControlStep DEF CallEqu

LEMMA SetOrgInv == ASSUME IInv, SetOrg PROVE IInv'
  <1>1. CASE org_set
    BY <1>1, FailStep DEF SetOrg, program
  <1>2. CASE ~org_set
    <2>1. Body.literal \in Nat
      BY CurrentBody DEF SetOrg, AtBody, IsBody
    <2>2. org' \in Word
      BY <1>2, <2>1, ResidueType DEF SetOrg
    <2>3. TypeOK'
      BY <1>2, <2>2
      DEF SetOrg, IInv, TypeOK, NextLine, input, evaluation, symbols, fixups, Phases, IsMap
    <2>4. HolesSound'
      BY DEF SetOrg, IInv, HolesSound, Holes, WordCells, fixups, Size
    <2>. QED
      BY <1>2, <2>3, <2>4
      DEF SetOrg, IInv, NextLine, TodoPending, EquOnItsLine, Accounted, Size
  <1>. QED
    BY <1>1, <1>2

LEMMA PushOpcodeInv == ASSUME IInv, PushOpcode PROVE IInv'
  <1> DEFINE f == Body.form
             w == [o \in DOMAIN f.word |->
                     ReplaceDollar(f.word[o].expr, Dollar(Size + o, f.word[o].back))]
  <1>1. CASE \E o \in DOMAIN f.byte : HasDollar(f.byte[o].expr)
    BY <1>1, FailStep DEF PushOpcode, program
  <1>2. CASE ~\E o \in DOMAIN f.byte : HasDollar(f.byte[o].expr)
    <2>1. /\ memory' = memory \o f.bytes
          /\ rel_addr' = Merge(rel_addr, Size, f.rel)
          /\ byte_expr' = Merge(byte_expr, Size, f.byte)
          /\ word_expr' = Merge(word_expr, Size, w)
          /\ phase' = "opcode" /\ item' = item
          /\ UNCHANGED <<input, line, todo, evaluation, org, org_set, last_size, mem_type, symbols>>
      BY <1>2 DEF PushOpcode, evaluation
    <2>2. IsTemplate(f)
      BY CurrentBody DEF PushOpcode, AtBody, IsBody
    <2>3. f.bytes \in Seq(Byte) /\ Len(f.bytes) \in Nat
      BY <2>2 DEF IsTemplate
    <2>4. Size \in Nat /\ org \in Word /\ item \in Nat
      BY SizeIsNat DEF IInv, TypeOK
    <2>5. memory' \in Seq(Byte) /\ Size' = Size + Len(f.bytes)
      BY <2>1, <2>3 DEF IInv, TypeOK, Size
    <2>6. DOMAIN f.rel \subseteq Nat /\ DOMAIN f.byte \subseteq Nat /\ DOMAIN f.word \subseteq Nat
      BY <2>2, <2>3 DEF IsTemplate, WordCells
    <2>7. /\ \A o \in DOMAIN f.rel : f.rel[o] \in Expr
          /\ \A o \in DOMAIN f.byte : f.byte[o] \in ByteExpr
          /\ \A o \in DOMAIN f.word : f.word[o].expr \in Expr /\ f.word[o].back \in Nat
      BY <2>2 DEF IsTemplate, ByteExpr
    <2>8. DOMAIN w = DOMAIN f.word /\ \A o \in DOMAIN w : w[o] \in Expr
      <3>1. ASSUME NEW o \in DOMAIN f.word
            PROVE  ReplaceDollar(f.word[o].expr, Dollar(Size + o, f.word[o].back)) \in Expr
        <4>1. Dollar(Size + o, f.word[o].back) \in Word
          BY <2>4, <2>6, <2>7, DollarType
        <4>. QED
          BY <4>1, <2>7, ReplaceDollarType
      <3>. QED
        BY <3>1
    <2>9. /\ IsMap(rel_addr, Nat, Expr) /\ IsMap(byte_expr, Nat, ByteExpr)
          /\ IsMap(word_expr, Nat, Expr)
      BY DEF IInv, TypeOK
    <2>10. /\ DOMAIN f.rel \cup DOMAIN f.byte \cup WordCells(DOMAIN f.word) \subseteq 0 .. Len(f.bytes) - 1
           /\ DOMAIN f.rel \cap DOMAIN f.byte = {}
           /\ WordCells(DOMAIN f.word) \cap (DOMAIN f.rel \cup DOMAIN f.byte) = {}
           /\ \A o \in DOMAIN f.word : o + 1 \notin DOMAIN f.word
      BY <2>2 DEF IsTemplate
    <2> HIDE DEF f, w
    <2> DEFINE r2 == Merge(rel_addr, Size, f.rel)
               b2 == Merge(byte_expr, Size, f.byte)
               w2 == Merge(word_expr, Size, w)
    <2>11. IsMap(r2, Nat, Expr) /\ IsMap(b2, Nat, ByteExpr) /\ IsMap(w2, Nat, Expr)
      BY <2>4, <2>6, <2>7, <2>8, <2>9, MergeType
    <2>12. /\ DOMAIN r2 = DOMAIN rel_addr \cup From(Size, DOMAIN f.rel)
           /\ DOMAIN b2 = DOMAIN byte_expr \cup From(Size, DOMAIN f.byte)
           /\ DOMAIN w2 = DOMAIN word_expr \cup From(Size, DOMAIN f.word)
      BY <2>8 DEF Merge
    <2> HIDE DEF r2, b2, w2
    <2>13. rel_addr' = r2 /\ byte_expr' = b2 /\ word_expr' = w2
      BY <2>1 DEF r2, b2, w2
    <2>. QED
      BY <2>1, <2>3, <2>4, <2>5, <2>10, <2>11, <2>12, <2>13, EmitStep
  <1>. QED
    BY <1>1, <1>2

LEMMA PushDbItemInv == ASSUME IInv, PushDbItem PROVE IInv'
  <1> DEFINE i == Body.items[item + 1]
  <1>1. \/ i.k = "expr" /\ i.expr \in Expr
        \/ i.k = "string" /\ i.str \in Seq(Byte)
    <2>1. IsBody(Body) /\ Body.k = "db"
      BY CurrentBody DEF PushDbItem, AtBody
    <2>2. \A j \in 1 .. Len(Body.items) :
             \/ Body.items[j].k = "expr" /\ Body.items[j].expr \in Expr
             \/ Body.items[j].k = "string" /\ Body.items[j].str \in Seq(Byte)
      <3>1. Body.items \in Seq(DbItem)
        BY <2>1 DEF IsBody
      <3> DEFINE D == DbItem
      <3>2. \A j \in 1 .. Len(Body.items) : Body.items[j] \in D
        <4> HIDE DEF D
        <4>1. Body.items \in Seq(D)
          BY <3>1 DEF D
        <4>. QED
          BY <4>1
      <3>. QED
        BY <3>2 DEF DbItem
    <2>3. item + 1 \in 1 .. Len(Body.items)
      BY <2>1, SMT DEF PushDbItem, IInv, TypeOK, IsBody
    <2>. QED
      BY <2>2, <2>3
  <1>2. /\ phase \in {"line", "body"} /\ item \in Nat /\ memory \in Seq(Byte) /\ Size \in Nat
        /\ IsMap(rel_addr, Nat, Expr) /\ IsMap(byte_expr, Nat, ByteExpr)
        /\ IsMap(word_expr, Nat, Expr)
    BY SizeIsNat DEF PushDbItem, AtBody, IInv, TypeOK
  <1>3. UNCHANGED <<input, org, org_set, last_size, mem_type, symbols, rel_addr, word_expr>>
    BY DEF PushDbItem
  <1>4. CASE i.k = "string"
    <2>1. memory' = memory \o i.str /\ item' = item + 1
          /\ UNCHANGED <<phase, line, todo, evaluation, byte_expr>>
      BY <1>4 DEF PushDbItem
    <2>2. i.str \in Seq(Byte) /\ Len(i.str) \in Nat
      BY <1>1, <1>4
    <2>3. memory' \in Seq(Byte) /\ Size' = Size + Len(i.str)
      BY <1>2, <2>1, <2>2 DEF Size
    <2> DEFINE none == {}
    <2>4. From(Size, none) = {} /\ WordCells(none) = {}
      BY DEF From, WordCells
    <2>5. /\ none \cup none \cup WordCells(none) \subseteq 0 .. Len(i.str) - 1
          /\ none \cap none = {} /\ WordCells(none) \cap (none \cup none) = {}
          /\ \A o \in none : o + 1 \notin none
      BY <2>4
    <2>6. /\ (DOMAIN rel_addr)' = DOMAIN rel_addr \cup From(Size, none)
          /\ (DOMAIN byte_expr)' = DOMAIN byte_expr \cup From(Size, none)
          /\ (DOMAIN word_expr)' = DOMAIN word_expr \cup From(Size, none)
      BY <1>3, <2>1, <2>4
    <2>7. /\ IsMap(rel_addr, Nat, Expr)' /\ IsMap(byte_expr, Nat, ByteExpr)'
          /\ IsMap(word_expr, Nat, Expr)'
      BY <1>2, <1>3, <2>1
    <2>8. phase' \in {"line", "body", "opcode"} /\ item' \in Nat
      BY <1>2, <2>1
    <2> HIDE DEF i, none
    <2>. QED
      BY <1>3, <2>1, <2>2, <2>3, <2>5, <2>6, <2>7, <2>8, EmitStep
  <1>5. CASE i.k = "expr" /\ HasDollar(i.expr)
    <2>1. Fail /\ UNCHANGED <<memory, byte_expr>>
      BY <1>5 DEF PushDbItem
    <2>. QED
      BY <1>3, <2>1, FailStep DEF program, fixups
  <1>6. CASE i.k = "expr" /\ ~HasDollar(i.expr)
    <2> DEFINE x == [expr |-> i.expr, op |-> "+"]
               new == [o \in {0} |-> x]
               b2 == Merge(byte_expr, Size, new)
    <2>1. /\ memory' = Append(memory, 0) /\ item' = item + 1 /\ byte_expr' = b2
          /\ UNCHANGED <<phase, line, todo, evaluation>>
      BY <1>6 DEF PushDbItem
    <2>2. x \in ByteExpr
      BY <1>1, <1>6 DEF ByteExpr
    <2>3. DOMAIN new = {0} /\ \A o \in DOMAIN new : new[o] \in ByteExpr
      BY <2>2
    <2> HIDE DEF i, x, new
    <2>4. IsMap(b2, Nat, ByteExpr)
      BY <1>2, <2>3, MergeType
    <2>5. DOMAIN b2 = DOMAIN byte_expr \cup From(Size, {0})
      BY <2>3 DEF Merge
    <2> HIDE DEF b2
    <2>6. 0 \in Byte
      BY Widths DEF Byte
    <2>7. memory' \in Seq(Byte) /\ Size' = Size + 1
      BY <1>2, <2>1, <2>6 DEF Size
    <2> DEFINE none == {}
               first == {0}
    <2>8. From(Size, none) = {} /\ WordCells(none) = {}
      BY DEF From, WordCells
    <2>9. /\ none \cup first \cup WordCells(none) \subseteq 0 .. 1 - 1
          /\ none \cap first = {} /\ WordCells(none) \cap (none \cup first) = {}
          /\ \A o \in none : o + 1 \notin none
      BY <2>8
    <2>10. /\ (DOMAIN rel_addr)' = DOMAIN rel_addr \cup From(Size, none)
           /\ (DOMAIN byte_expr)' = DOMAIN byte_expr \cup From(Size, first)
           /\ (DOMAIN word_expr)' = DOMAIN word_expr \cup From(Size, none)
      BY <1>3, <2>1, <2>5, <2>8
    <2>11. /\ IsMap(rel_addr, Nat, Expr)' /\ IsMap(byte_expr, Nat, ByteExpr)'
           /\ IsMap(word_expr, Nat, Expr)'
      BY <1>2, <1>3, <2>1, <2>4
    <2>12. phase' \in {"line", "body", "opcode"} /\ item' \in Nat
      BY <1>2, <2>1
    <2> HIDE DEF none, first
    <2>. QED
      BY <1>3, <2>1, <2>7, <2>9, <2>10, <2>11, <2>12, EmitStep
  <1>. QED
    BY <1>1, <1>4, <1>5, <1>6

LEMMA PushDwItemInv == ASSUME IInv, PushDwItem PROVE IInv'
  <1> DEFINE e == Body.items[item + 1]
             r == ReplaceDollar(e, Dollar(Size, 2))
             new == [o \in {0} |-> r]
             w2 == Merge(word_expr, Size, new)
  <1>1. e \in Expr
    <2>1. IsBody(Body) /\ Body.k = "dw"
      BY CurrentBody DEF PushDwItem, AtBody
    <2>2. \A j \in 1 .. Len(Body.items) : Body.items[j] \in Expr
      BY <2>1 DEF IsBody
    <2>3. item + 1 \in 1 .. Len(Body.items)
      BY <2>1, SMT DEF PushDwItem, IInv, TypeOK, IsBody
    <2>. QED
      BY <2>2, <2>3
  <1>2. /\ phase \in {"line", "body"} /\ item \in Nat /\ memory \in Seq(Byte)
        /\ Size \in Nat /\ org \in Word
        /\ IsMap(rel_addr, Nat, Expr) /\ IsMap(byte_expr, Nat, ByteExpr)
        /\ IsMap(word_expr, Nat, Expr)
    BY SizeIsNat DEF PushDwItem, AtBody, IInv, TypeOK
  <1>3. /\ memory' = memory \o Zeros(2) /\ item' = item + 1 /\ word_expr' = w2
        /\ UNCHANGED <<input, phase, line, todo, evaluation, org, org_set, last_size,
                       mem_type, symbols, rel_addr, byte_expr>>
    BY DEF PushDwItem
  <1>4. DOMAIN new = {0} /\ \A o \in DOMAIN new : new[o] \in Expr
    BY <1>1, <1>2, DollarType, ReplaceDollarType
  <1> HIDE DEF e, r, new
  <1>5. IsMap(w2, Nat, Expr)
    BY <1>2, <1>4, MergeType
  <1>6. DOMAIN w2 = DOMAIN word_expr \cup From(Size, {0})
    BY <1>4 DEF Merge
  <1> HIDE DEF w2
  <1>7. memory' \in Seq(Byte) /\ Size' = Size + 2
    BY <1>2, <1>3, ZerosType DEF Size
  <1> DEFINE none == {}
             first == {0}
  <1>8. From(Size, none) = {} /\ WordCells(first) = {0, 1}
    BY DEF From, WordCells
  <1>9. /\ none \cup none \cup WordCells(first) \subseteq 0 .. 2 - 1
        /\ none \cap none = {} /\ WordCells(first) \cap (none \cup none) = {}
        /\ \A o \in first : o + 1 \notin first
    BY <1>8
  <1>10. /\ (DOMAIN rel_addr)' = DOMAIN rel_addr \cup From(Size, none)
         /\ (DOMAIN byte_expr)' = DOMAIN byte_expr \cup From(Size, none)
         /\ (DOMAIN word_expr)' = DOMAIN word_expr \cup From(Size, first)
    BY <1>3, <1>6, <1>8
  <1>11. /\ IsMap(rel_addr, Nat, Expr)' /\ IsMap(byte_expr, Nat, ByteExpr)'
         /\ IsMap(word_expr, Nat, Expr)'
    BY <1>2, <1>3, <1>5
  <1>12. phase' \in {"line", "body", "opcode"} /\ item' \in Nat
    BY <1>2, <1>3
  <1> HIDE DEF none, first
  <1>. QED
    BY <1>3, <1>7, <1>9, <1>10, <1>11, <1>12, EmitStep

LEMMA AccountInv == ASSUME IInv, AccountCode \/ AccountDb \/ AccountDw PROVE IInv'
  <1>1. memory \in Seq(Byte) /\ Size \in Nat
    BY SizeIsNat DEF IInv, TypeOK
  <1>2. memory' = memory /\ Size' = Size
    BY DEF AccountCode, AccountDb, AccountDw, Size
  <1>3. CASE AccountCode
    BY <1>1, <1>2, <1>3, StatementStep, SMT DEF AccountCode
  <1>4. CASE AccountDb
    BY <1>1, <1>2, <1>4, StatementStep, SMT DEF AccountDb
  <1>5. CASE AccountDw
    BY <1>1, <1>2, <1>5, StatementStep, SMT DEF AccountDw
  <1>. QED
    BY <1>3, <1>4, <1>5

LEMMA ReserveDsInv == ASSUME IInv, ReserveDs PROVE IInv'
  <1> DEFINE n == Body.literal % WordSize
  <1>1. n \in Nat
    <2>1. Body.literal \in Nat
      BY CurrentBody DEF ReserveDs, AtBody, IsBody
    <2>2. n \in Word
      BY <2>1, ResidueType
    <2>. QED
      BY <2>2, Widths DEF Word
  <1>2. memory \in Seq(Byte) /\ Size \in Nat
    BY SizeIsNat DEF IInv, TypeOK
  <1>3. memory' = memory \o Zeros(n) /\ Account("ds", Size + n)
    BY DEF ReserveDs
  <1> HIDE DEF n
  <1>5. memory' \in Seq(Byte) /\ Size' = Size + n
    BY <1>1, <1>2, <1>3, ZerosType DEF Size
  <1>6. Size + n \in Nat /\ Size + n >= Size
    BY <1>1, <1>2
  <1>. QED
    BY <1>3, <1>5, <1>6, StatementStep DEF ReserveDs

LEMMA StartFixupsInv == ASSUME IInv, StartFixups PROVE IInv'
  <1>1. /\ phase' \in Phases /\ line' \in Nat \ {0} /\ item' \in Nat
        /\ todo' \in SUBSET Nat /\ pos' \in Nat /\ acc' \in Seq(CInt)
    BY DEF StartFixups, IInv, TypeOK, Phases, Patching, IsMap
  <1>2. TodoPending' /\ EquOnItsLine'
    BY DEF StartFixups, fixups, TodoPending, EquOnItsLine
  <1>. QED
    BY <1>1, <1>2, ControlStep DEF StartFixups

LEMMA NextLoopInv == ASSUME IInv, NextLoop PROVE IInv'
  <1>1. /\ phase' \in Phases /\ line' \in Nat \ {0} /\ item' \in Nat
        /\ todo' \in SUBSET Nat /\ pos' \in Nat /\ acc' \in Seq(CInt)
    BY DEF NextLoop, evaluation, IInv, TypeOK, Phases, Patching, IsMap
  <1>2. TodoPending' /\ EquOnItsLine'
    BY DEF NextLoop, fixups, TodoPending, EquOnItsLine
  <1>. QED
    BY <1>1, <1>2, ControlStep DEF NextLoop

LEMMA CheckLimitInv == ASSUME IInv, CheckLimit PROVE IInv'
  <1>1. /\ phase' \in Phases /\ line' \in Nat \ {0} /\ item' \in Nat
        /\ todo' \in SUBSET Nat /\ pos' \in Nat /\ acc' \in Seq(CInt)
    BY DEF CheckLimit, evaluation, IInv, TypeOK, Phases, Terminal
  <1>2. TodoPending' /\ EquOnItsLine'
    BY DEF CheckLimit, TodoPending, EquOnItsLine
  <1>. QED
    BY <1>1, <1>2, ControlStep DEF CheckLimit

\* The expression parser leaves the program's data alone.
LEMMA EvaluatingInv == ASSUME IInv, Evaluating PROVE IInv'
  <1> USE DEF input
  <1>1. acc \in Seq(CInt)
    BY DEF IInv, TypeOK
  <1>2. CASE PushNumber
    <2>1. acc' \in Seq(CInt)
      BY <1>1, <1>2, WordIsInt DEF PushNumber
    <2>. QED
      BY <1>2, <2>1, PushStep DEF PushNumber
  <1>3. CASE PushName
    <2>1. PICK n \in Names :
            \/ Meanings(n) = {} /\ Fail
            \/ \E m \in Meanings(n) : acc' = Append(acc, m) /\ Step
      BY <1>3 DEF PushName
    <2>2. CASE Fail
      BY <1>3, <2>2, FailStep DEF PushName
    <2>3. CASE \E m \in Meanings(n) : acc' = Append(acc, m) /\ Step
      <3>1. acc' \in Seq(CInt) /\ Step
        BY <1>1, <2>3, MeaningsType
      <3>. QED
        BY <1>3, <3>1, PushStep DEF PushName
    <2>. QED
      BY <2>1, <2>2, <2>3
  <1>4. CASE Negate
    <2>1. acc # <<>>
      BY <1>1, <1>4 DEF Negate
    <2>2. Wrap(-Top) \in CInt
      BY <2>1, AccType, WrapType
    <2>3. acc' \in Seq(CInt)
      BY <1>4, <2>1, <2>2, AccType DEF Negate
    <2>. QED
      BY <1>4, <2>3, PushStep DEF Negate
  <1>5. CASE BinaryOp
    <2> DEFINE x == acc[Len(acc) - 1]
               below == SubSeq(acc, 1, Len(acc) - 2)
    <2>1. PICK op \in Operators :
            /\ Len(acc) > 1
            /\ IF Traps(op, x, Top)
               THEN phase' = "undefined" /\ UNCHANGED <<line, item, todo, pos, acc>>
               ELSE acc' = Append(below, Apply(op, x, Top)) /\ Step
      BY <1>5 DEF BinaryOp
    <2>2. acc # <<>>
      BY <1>1, <2>1
    <2>3. Top \in CInt /\ x \in CInt /\ below \in Seq(CInt)
      BY <2>1, <2>2, AccType
    <2> HIDE DEF x, below
    <2>4. CASE Traps(op, x, Top)
      <3>1. /\ phase' \in Phases /\ line' \in Nat \ {0} /\ item' \in Nat
            /\ todo' \in SUBSET Nat /\ pos' \in Nat /\ acc' \in Seq(CInt)
        BY <2>1, <2>4 DEF IInv, TypeOK, Phases, Terminal
      <3>2. TodoPending' /\ EquOnItsLine'
        BY <2>1, <2>4 DEF TodoPending, EquOnItsLine
      <3>. QED
        BY <1>5, <3>1, <3>2, ControlStep DEF BinaryOp
    <2>5. CASE ~Traps(op, x, Top)
      <3>1. acc' \in Seq(CInt) /\ Step
        BY <2>1, <2>3, <2>5, ApplyType
      <3>. QED
        BY <1>5, <3>1, PushStep DEF BinaryOp
    <2>. QED
      BY <2>4, <2>5
  <1>6. CASE SyntaxError
    <2>1. pos' \in Nat
      BY <1>6, CurrentType DEF SyntaxError
    <2>2. /\ phase' \in Phases /\ line' \in Nat \ {0} /\ item' \in Nat
          /\ todo' \in SUBSET Nat /\ acc' \in Seq(CInt)
      BY <1>6 DEF SyntaxError, IInv, TypeOK
    <2>3. TodoPending' /\ EquOnItsLine'
      BY <1>6 DEF SyntaxError, IInv, TodoPending, EquOnItsLine, Body, fixups
    <2>. QED
      BY <1>6, <2>1, <2>2, <2>3, ControlStep DEF SyntaxError
  <1>7. CASE ReturnNothing
    <2>1. /\ phase' \in Phases /\ line' \in Nat \ {0} /\ item' \in Nat
          /\ todo' \in SUBSET Nat /\ pos' \in Nat /\ acc' \in Seq(CInt)
      BY <1>7 DEF ReturnNothing, evaluation, IInv, TypeOK, Phases, Terminal
    <2>2. TodoPending' /\ EquOnItsLine'
      BY <1>7 DEF ReturnNothing, TodoPending, EquOnItsLine
    <2>. QED
      BY <1>7, <2>1, <2>2, ControlStep DEF ReturnNothing
  <1>. QED
    BY <1>2, <1>3, <1>4, <1>5, <1>6, <1>7 DEF Evaluating

LEMMA ReturnEquInv == ASSUME IInv, ReturnEqu PROVE IInv'
  <1> DEFINE n == Body.name
  <1>1. acc # <<>> /\ acc' = Rest /\ pos' = 0
    BY DEF ReturnEqu, Returns
  <1>2. acc' \in Seq(CInt) /\ Result \in Word
    BY <1>1, AccType
  <1>3. n \in Names
    <2>1. line <= Len(source) /\ Body.k = "equ"
      BY DEF ReturnEqu, IInv, EquOnItsLine
    <2>. QED
      BY <2>1, CurrentBody DEF IsBody
  <1>4. IsMap(equ', Names, Word)
    <2>1. IsMap(equ, Names, Word)
      BY DEF IInv, TypeOK
    <2>2. CASE n \in DOMAIN label
      BY <2>1, <2>2 DEF ReturnEqu
    <2>3. CASE n \notin DOMAIN label
      <3>1. equ' = [m \in DOMAIN equ \cup {n} |-> IF m = n THEN Result ELSE equ[m]]
        BY <2>3 DEF ReturnEqu
      <3> HIDE DEF n
      <3>. QED
        BY <1>2, <1>3, <2>1, <3>1 DEF IsMap
    <2>. QED
      BY <2>2, <2>3
  <1>5. phase' \in {"error", "line"} /\ line' \in Nat \ {0} /\ item' \in Nat
    BY DEF ReturnEqu, NextLine, IInv, TypeOK
  <1>6. UNCHANGED <<input, todo, program, label, fixups>>
    BY DEF ReturnEqu
  <1>7. TypeOK'
    BY <1>1, <1>2, <1>4, <1>5, <1>6
    DEF IInv, TypeOK, input, program, fixups, Phases, Terminal, IsMap
  <1>8. HolesSound'
    BY <1>6 DEF IInv, HolesSound, Holes, WordCells, program, fixups, Size
  <1>. QED
    BY <1>5, <1>6, <1>7, <1>8
    DEF IInv, TodoPending, EquOnItsLine, Accounted, program, Size

LEMMA PatchRelInv == ASSUME IInv, PatchRel PROVE IInv'
  <1>1. acc # <<>> /\ acc' = Rest /\ pos' = 0
    BY DEF PatchRel, Returns
  <1>2. acc' \in Seq(CInt) /\ Result \in Word
    BY <1>1, AccType
  <1>3. PICK a \in Least(todo) :
          IF InReach(RelOffset(a))
          THEN /\ memory' = [memory EXCEPT ![a + 1] = RelOffset(a) % ByteSize]
               /\ todo' = todo \ {a}
               /\ UNCHANGED phase
          ELSE phase' = "error" /\ UNCHANGED <<memory, todo>>
    BY DEF PatchRel
  <1>4. a \in Nat /\ memory \in Seq(Byte)
    BY <1>3 DEF Least, IInv, TypeOK
  <1>5. UNCHANGED <<input, line, item, org, org_set, last_size, mem_type, symbols, fixups>>
    BY DEF PatchRel
  <1>6. CASE InReach(RelOffset(a))
    <2>1. RelOffset(a) \in Int
      <3>1. Result \in Int /\ org \in Int
        BY <1>2, Widths DEF IInv, TypeOK, Word
      <3>2. Result % ByteSize \in Int
        BY <3>1, ResidueType, Widths DEF Byte
      <3>. QED
        BY <1>4, <3>1, <3>2, Widths DEF RelOffset, SignedByte
    <2>2. RelOffset(a) % ByteSize \in Byte
      BY <2>1, ResidueType
    <2>3. memory' \in Seq(Byte) /\ Len(memory') = Len(memory)
      BY <1>3, <1>4, <1>6, <2>2, PokeType
    <2>. QED
      BY <1>1, <1>3, <1>4, <1>5, <1>6, <2>3, PatchStep
  <1>7. CASE ~InReach(RelOffset(a))
    <2>1. phase' = "error" /\ UNCHANGED <<memory, todo>>
      BY <1>3, <1>7
    <2>2. TypeOK'
      BY <1>1, <1>2, <1>5, <2>1
      DEF IInv, TypeOK, input, symbols, fixups, Phases, Terminal, IsMap
    <2>3. HolesSound'
      BY <1>5, <2>1 DEF IInv, HolesSound, Holes, WordCells, fixups, Size
    <2>. QED
      BY <1>5, <2>1, <2>2, <2>3 DEF IInv, TodoPending, EquOnItsLine, Accounted, Size
  <1>. QED
    BY <1>6, <1>7

LEMMA PatchByteInv == ASSUME IInv, PatchByte PROVE IInv'
  <1>1. acc # <<>> /\ acc' = Rest /\ pos' = 0
    BY DEF PatchByte, Returns
  <1>2. PICK a \in Least(todo) :
          /\ memory' = [memory EXCEPT ![a + 1] =
               (IF byte_expr[a].op = "-" THEN -Result ELSE Result) % ByteSize]
          /\ todo' = todo \ {a}
    BY DEF PatchByte
  <1>3. a \in Nat /\ memory \in Seq(Byte)
    BY <1>2 DEF Least, IInv, TypeOK
  <1> DEFINE b == (IF byte_expr[a].op = "-" THEN -Result ELSE Result) % ByteSize
  <1>4. b \in Byte
    <2>1. Result \in Int /\ -Result \in Int
      BY <1>1, AccType, Widths DEF Word
    <2>. QED
      BY <2>1, ResidueType
  <1>5. memory' = [memory EXCEPT ![a + 1] = b]
    BY <1>2
  <1> HIDE DEF b
  <1>6. memory' \in Seq(Byte) /\ Len(memory') = Len(memory)
    BY <1>3, <1>4, <1>5, PokeType
  <1>. QED
    BY <1>1, <1>2, <1>3, <1>6, PatchStep DEF PatchByte

LEMMA PatchWordInv == ASSUME IInv, PatchWord PROVE IInv'
  <1>1. acc # <<>> /\ acc' = Rest /\ pos' = 0
    BY DEF PatchWord, Returns
  <1>2. PICK a \in Least(todo) :
          /\ memory' = [memory EXCEPT ![a + 1] = Result % ByteSize,
                                      ![a + 2] = Result \div ByteSize]
          /\ todo' = todo \ {a}
    BY DEF PatchWord
  <1>3. a \in Nat /\ memory \in Seq(Byte)
    BY <1>2 DEF Least, IInv, TypeOK
  <1>4. Result % ByteSize \in Byte /\ Result \div ByteSize \in Byte
    <2>1. Result \in Word /\ Result \in Int
      BY <1>1, AccType, Widths DEF Word
    <2>. QED
      BY <2>1, ResidueType, HighByteType
  <1>5. memory' \in Seq(Byte) /\ Len(memory') = Len(memory)
    <2> DEFINE lo == [memory EXCEPT ![a + 1] = Result % ByteSize]
    <2>1. lo \in Seq(Byte) /\ Len(lo) = Len(memory)
      BY <1>3, <1>4, PokeType
    <2>2. memory' = [lo EXCEPT ![a + 2] = Result \div ByteSize]
      BY <1>2
    <2> HIDE DEF lo
    <2>3. a + 2 \in Nat
      BY <1>3
    <2>. QED
      BY <1>4, <2>1, <2>2, <2>3, PokeType
  <1>. QED
    BY <1>1, <1>2, <1>3, <1>5, PatchStep DEF PatchWord

LEMMA StutterInv == ASSUME IInv, UNCHANGED vars PROVE IInv'
  BY DEF vars, IInv, TypeOK, HolesSound, Holes, WordCells, TodoPending, EquOnItsLine,
         Accounted, IsMap, Size, Body

-----------------------------------------------------------------------------
(* The theorems. *)

LEMMA StepInv == IInv /\ [Next]_vars => IInv'
  <1> SUFFICES ASSUME IInv, [Next]_vars PROVE IInv'
    OBVIOUS
  <1>1. CASE Parsing
    <2>1. CASE RejectLine
      BY <2>1, FailStep DEF RejectLine
    <2>. QED
      BY <1>1, <2>1, DefineLabelInv, EmptyLineInv, CallEquInv, SetOrgInv, PushOpcodeInv,
         AccountInv, PushDbItemInv, ReserveDsInv, PushDwItemInv, StartFixupsInv DEF Parsing
  <1>2. CASE Evaluating
    BY <1>2, EvaluatingInv
  <1>3. CASE ReturnEqu
    BY <1>3, ReturnEquInv
  <1>4. CASE FixingUp
    BY <1>4, PatchRelInv, PatchByteInv, PatchWordInv, NextLoopInv DEF FixingUp
  <1>5. CASE CheckLimit
    BY <1>5, CheckLimitInv
  <1>6. CASE Ended \/ UNCHANGED vars
    BY <1>6, StutterInv DEF Ended
  <1>. QED
    BY <1>1, <1>2, <1>3, <1>4, <1>5, <1>6 DEF Next

\* The inductive invariant holds of every run.
THEOREM Invariance == Spec => []IInv
  <1>. QED
    BY InitInv, StepInv, PTL DEF Spec

\* Every variable keeps its type, whatever the source text (the memory is bytes,
\* the accumulator ints, block counts are not negative).
THEOREM TypeCorrect == Spec => []TypeOK
  <1>1. IInv => TypeOK
    BY DEF IInv
  <1>. QED
    BY <1>1, Invariance, PTL

\* fixup_addresses never writes outside _memory, and no byte is two fixups'.
THEOREM FixupsSound == Spec => []HolesSound
  <1>1. IInv => HolesSound
    BY DEF IInv
  <1>. QED
    BY <1>1, Invariance, PTL

-----------------------------------------------------------------------------
(* The symbol tables. *)

LEMMA SymbolsStep == SymbolsDisjoint /\ [Next]_vars => SymbolsDisjoint'
  <1> SUFFICES ASSUME SymbolsDisjoint, [Next]_vars PROVE SymbolsDisjoint'
    OBVIOUS
  <1> USE DEF SymbolsDisjoint
  <1>1. CASE DefineLabel
    BY <1>1 DEF DefineLabel
  <1>2. CASE ReturnEqu
    <2>1. label' = label
      BY <1>2 DEF ReturnEqu
    <2>2. CASE Body.name \in DOMAIN label
      BY <1>2, <2>1, <2>2 DEF ReturnEqu
    <2>3. CASE Body.name \notin DOMAIN label
      BY <1>2, <2>1, <2>3 DEF ReturnEqu
    <2>. QED
      BY <2>2, <2>3
  <1>3. CASE UNCHANGED symbols
    BY <1>3 DEF symbols
  <1>4. DefineLabel \/ ReturnEqu \/ UNCHANGED symbols
    BY DEF Next, Parsing, EmptyLine, RejectLine, CallEqu, SetOrg, PushOpcode, AccountCode,
           PushDbItem, AccountDb, ReserveDs, PushDwItem, AccountDw, StartFixups, Evaluating,
           PushNumber, PushName, Negate, BinaryOp, SyntaxError, ReturnNothing, FixingUp,
           PatchRel, PatchByte, PatchWord, NextLoop, CheckLimit, Ended, vars, symbols
  <1>. QED
    BY <1>1, <1>2, <1>3, <1>4

\* No name is both a label and an EQU.
THEOREM SymbolsApart == Spec => []SymbolsDisjoint
  <1>1. Init => SymbolsDisjoint
    BY DEF Init, Fresh, SymbolsDisjoint, Empty
  <1>. QED
    BY <1>1, SymbolsStep, PTL DEF Spec

-----------------------------------------------------------------------------
(* The write-once property of fixup_addresses. *)

LEMMA PatchRelOnce == ASSUME IInv, PatchRel PROVE WritesOnce
  <1>1. PICK a \in Least(todo) :
          \/ /\ memory' = [memory EXCEPT ![a + 1] = RelOffset(a) % ByteSize]
             /\ todo' = todo \ {a} /\ phase' = phase
          \/ memory' = memory
    BY DEF PatchRel
  <1>2. phase = "rel" /\ fixups' = fixups /\ memory \in Seq(Byte)
    BY DEF PatchRel, IInv, TypeOK
  <1>3. CASE memory' = memory
    BY <1>3 DEF WritesOnce
  <1>4. CASE memory' # memory
    <2>1. /\ a \in Nat /\ a \in todo /\ a \in DOMAIN rel_addr /\ Len(memory') = Len(memory)
          /\ \A i \in 1 .. Len(memory) : memory'[i] # memory[i] => i - 1 = a
      <3>1. a \in Nat /\ a \in todo /\ a \in DOMAIN rel_addr
        BY <1>2 DEF Least, IInv, TypeOK, TodoPending
      <3> DEFINE v == RelOffset(a) % ByteSize
      <3>2. memory' = [memory EXCEPT ![a + 1] = v]
        BY <1>1, <1>4
      <3> HIDE DEF v
      <3>. QED
        BY <1>2, <3>1, <3>2
    <2>2. a \in Unwritten
      BY <1>2, <2>1 DEF Unwritten
    <2>3. Unwritten' = (todo \ {a}) \cup DOMAIN byte_expr \cup WordCells(DOMAIN word_expr)
      BY <1>1, <1>2, <1>4 DEF Unwritten, fixups, WordCells
    <2>4. a \notin Unwritten'
      BY <2>1, <2>3 DEF IInv, HolesSound
    <2>. QED
      BY <2>1, <2>2, <2>4 DEF WritesOnce
  <1>. QED
    BY <1>3, <1>4

LEMMA PatchByteOnce == ASSUME IInv, PatchByte PROVE WritesOnce
  <1>1. PICK a \in Least(todo) :
          /\ memory' = [memory EXCEPT ![a + 1] =
               (IF byte_expr[a].op = "-" THEN -Result ELSE Result) % ByteSize]
          /\ todo' = todo \ {a}
    BY DEF PatchByte
  <1>2. phase = "byte" /\ phase' = phase /\ fixups' = fixups /\ memory \in Seq(Byte)
    BY DEF PatchByte, IInv, TypeOK
  <1>3. /\ a \in Nat /\ a \in todo /\ a \in DOMAIN byte_expr /\ Len(memory') = Len(memory)
        /\ \A i \in 1 .. Len(memory) : memory'[i] # memory[i] => i - 1 = a
    <2>1. a \in Nat /\ a \in todo /\ a \in DOMAIN byte_expr
      BY <1>2 DEF Least, IInv, TypeOK, TodoPending
    <2> DEFINE v == (IF byte_expr[a].op = "-" THEN -Result ELSE Result) % ByteSize
    <2>2. memory' = [memory EXCEPT ![a + 1] = v]
      BY <1>1
    <2> HIDE DEF v
    <2>. QED
      BY <1>2, <2>1, <2>2
  <1>4. a \in Unwritten
    BY <1>2, <1>3 DEF Unwritten
  <1>5. Unwritten' = (todo \ {a}) \cup WordCells(DOMAIN word_expr)
    BY <1>1, <1>2 DEF Unwritten, fixups, WordCells
  <1>6. a \notin Unwritten'
    BY <1>3, <1>5 DEF IInv, HolesSound
  <1>. QED
    BY <1>3, <1>4, <1>6 DEF WritesOnce

LEMMA PatchWordOnce == ASSUME IInv, PatchWord PROVE WritesOnce
  <1>1. PICK a \in Least(todo) :
          /\ memory' = [memory EXCEPT ![a + 1] = Result % ByteSize,
                                      ![a + 2] = Result \div ByteSize]
          /\ todo' = todo \ {a}
    BY DEF PatchWord
  <1>2. phase = "word" /\ phase' = phase /\ memory \in Seq(Byte)
    BY DEF PatchWord, IInv, TypeOK
  <1>3. /\ a \in Nat /\ a \in todo /\ todo \subseteq DOMAIN word_expr /\ todo \subseteq Nat
        /\ Len(memory') = Len(memory)
        /\ \A i \in 1 .. Len(memory) : memory'[i] # memory[i] => i - 1 \in {a, a + 1}
    <2>1. a \in Nat /\ a \in todo /\ todo \subseteq DOMAIN word_expr /\ todo \subseteq Nat
      BY <1>2 DEF Least, IInv, TypeOK, TodoPending
    <2> DEFINE v == Result % ByteSize
               w == Result \div ByteSize
    <2>2. memory' = [memory EXCEPT ![a + 1] = v, ![a + 2] = w]
      BY <1>1
    <2> HIDE DEF v, w
    <2>. QED
      BY <1>2, <2>1, <2>2
  <1>4. {a, a + 1} \subseteq Unwritten
    BY <1>2, <1>3 DEF Unwritten, WordCells
  <1>5. Unwritten' = WordCells(todo \ {a})
    BY <1>1, <1>2 DEF Unwritten
  <1>6. a \notin Unwritten' /\ a + 1 \notin Unwritten'
    <2>1. \A b \in todo : b + 1 \notin todo
      BY <1>3 DEF IInv, HolesSound
    <2>. QED
      BY <1>3, <1>5, <2>1, SMT DEF WordCells
  <1>. QED
    BY <1>3, <1>4, <1>6 DEF WritesOnce

LEMMA OnceStep == IInv /\ [Next]_vars => [WritesOnce]_vars
  <1> SUFFICES ASSUME IInv, Next PROVE WritesOnce
    OBVIOUS
  <1>1. CASE memory' = memory
    BY <1>1 DEF WritesOnce
  <1>2. CASE phase \notin Patching
    BY <1>2 DEF WritesOnce
  <1>3. CASE PatchRel \/ PatchByte \/ PatchWord
    BY <1>3, PatchRelOnce, PatchByteOnce, PatchWordOnce
  <1>4. CASE phase \in Patching /\ ~(PatchRel \/ PatchByte \/ PatchWord)
    <2>1. ~Parsing /\ ~ReturnEqu /\ ~CheckLimit
      BY <1>4 DEF Patching, Parsing, DefineLabel, EmptyLine, RejectLine, CallEqu, SetOrg,
         PushOpcode, AccountCode, PushDbItem, AccountDb, ReserveDs, PushDwItem, AccountDw,
         StartFixups, AtBody, ReturnEqu, CheckLimit
    <2>2. CASE Evaluating
      BY <1>1, <2>2 DEF Evaluating, PushNumber, PushName, Negate, BinaryOp, SyntaxError,
         ReturnNothing, program
    <2>3. CASE NextLoop \/ Ended
      BY <1>1, <2>3 DEF NextLoop, Ended, program, vars
    <2>. QED
      BY <1>4, <2>1, <2>2, <2>3 DEF Next, FixingUp
  <1>. QED
    BY <1>2, <1>3, <1>4

\* A step of fixup_addresses writes only bytes that wait to be written, and each
\* of them once: no opcode byte, string or earlier fixup is overwritten.
THEOREM WriteOnce == Spec => FixupsWriteOnce
  <1>. QED
    BY Invariance, OnceStep, PTL DEF Spec, FixupsWriteOnce

-----------------------------------------------------------------------------
(* No $ is deferred. *)

LEMMA PushOpcodeNoDollar ==
  ASSUME IInv, NoDollarDeferred, PushOpcode PROVE NoDollarDeferred'
  <1> DEFINE f == Body.form
             w == [o \in DOMAIN f.word |->
                     ReplaceDollar(f.word[o].expr, Dollar(Size + o, f.word[o].back))]
  <1>1. CASE UNCHANGED <<byte_expr, word_expr>>
    BY <1>1 DEF NoDollarDeferred
  <1>2. CASE ~UNCHANGED <<byte_expr, word_expr>>
    <2>1. /\ ~\E o \in DOMAIN f.byte : HasDollar(f.byte[o].expr)
          /\ byte_expr' = Merge(byte_expr, Size, f.byte)
          /\ word_expr' = Merge(word_expr, Size, w)
      BY <1>2 DEF PushOpcode, fixups
    <2>2. IsTemplate(f)
      BY CurrentBody DEF PushOpcode, AtBody, IsBody
    <2>3. /\ DOMAIN f.byte \subseteq Nat /\ DOMAIN f.word \subseteq Nat
          /\ \A o \in DOMAIN f.word : f.word[o].expr \in Expr /\ f.word[o].back \in Nat
      BY <2>2 DEF IsTemplate, WordCells
    <2>4. DOMAIN w = DOMAIN f.word /\ \A o \in DOMAIN w : ~HasDollar(w[o])
      <3>1. ASSUME NEW o \in DOMAIN f.word
            PROVE  ~HasDollar(ReplaceDollar(f.word[o].expr, Dollar(Size + o, f.word[o].back)))
        <4>1. Dollar(Size + o, f.word[o].back) \in Word
          BY <2>3, SizeIsNat, DollarType DEF IInv, TypeOK
        <4>. QED
          BY <4>1, <2>3, ReplaceDollarType
      <3>. QED
        BY <3>1
    <2>5. \A o \in DOMAIN f.byte : ~HasDollar(f.byte[o].expr)
      BY <2>1
    <2> DEFINE b == f.byte
    <2>6. byte_expr' = Merge(byte_expr, Size, b)
      BY <2>1
    <2>7. DOMAIN b \subseteq Nat
      BY <2>3
    <2>8. \A o \in DOMAIN b : ~HasDollar(b[o].expr)
      BY <2>5
    <2> HIDE DEF f, w, b
    <2>9. \A a \in DOMAIN (byte_expr') : ~HasDollar(byte_expr'[a].expr)
      BY <2>6, <2>7, <2>8, SizeIsNat, DomainOfMerge DEF NoDollarDeferred
    <2>10. \A a \in DOMAIN (word_expr') : ~HasDollar(word_expr'[a])
      BY <2>1, <2>3, <2>4, SizeIsNat, DomainOfMerge DEF NoDollarDeferred
    <2>. QED
      BY <2>9, <2>10 DEF NoDollarDeferred
  <1>. QED
    BY <1>1, <1>2

LEMMA PushDbItemNoDollar ==
  ASSUME IInv, NoDollarDeferred, PushDbItem PROVE NoDollarDeferred'
  <1> DEFINE i == Body.items[item + 1]
             x == [expr |-> i.expr, op |-> "+"]
             new == [o \in {0} |-> x]
  <1>1. word_expr' = word_expr
    BY DEF PushDbItem
  <1>2. CASE byte_expr' = byte_expr
    BY <1>1, <1>2 DEF NoDollarDeferred
  <1>3. CASE byte_expr' # byte_expr
    <2>1. ~HasDollar(i.expr) /\ byte_expr' = Merge(byte_expr, Size, new)
      BY <1>3 DEF PushDbItem
    <2>2. DOMAIN new = {0} /\ ~HasDollar(new[0].expr)
      BY <2>1
    <2> HIDE DEF i, x, new
    <2>3. \A a \in DOMAIN (byte_expr') : ~HasDollar(byte_expr'[a].expr)
      BY <2>1, <2>2, SizeIsNat, DomainOfMerge DEF NoDollarDeferred
    <2>. QED
      BY <1>1, <2>3 DEF NoDollarDeferred
  <1>. QED
    BY <1>2, <1>3

LEMMA PushDwItemNoDollar ==
  ASSUME IInv, NoDollarDeferred, PushDwItem PROVE NoDollarDeferred'
  <1> DEFINE e == Body.items[item + 1]
             r == ReplaceDollar(e, Dollar(Size, 2))
             new == [o \in {0} |-> r]
  <1>1. byte_expr' = byte_expr /\ word_expr' = Merge(word_expr, Size, new)
    BY DEF PushDwItem
  <1>2. e \in Expr
    <2>1. IsBody(Body) /\ Body.k = "dw"
      BY CurrentBody DEF PushDwItem, AtBody
    <2>2. \A j \in 1 .. Len(Body.items) : Body.items[j] \in Expr
      BY <2>1 DEF IsBody
    <2>3. item + 1 \in 1 .. Len(Body.items)
      BY <2>1, SMT DEF PushDwItem, IInv, TypeOK, IsBody
    <2>. QED
      BY <2>2, <2>3
  <1>3. Dollar(Size, 2) \in Word
    BY SizeIsNat, DollarType DEF IInv, TypeOK
  <1>4. DOMAIN new = {0} /\ ~HasDollar(new[0])
    BY <1>2, <1>3, ReplaceDollarType
  <1> HIDE DEF e, r, new
  <1>5. \A a \in DOMAIN (word_expr') : ~HasDollar(word_expr'[a])
    BY <1>1, <1>4, SizeIsNat, DomainOfMerge DEF NoDollarDeferred
  <1>. QED
    BY <1>1, <1>5 DEF NoDollarDeferred

LEMMA NoDollarStep == IInv /\ NoDollarDeferred /\ [Next]_vars => NoDollarDeferred'
  <1> SUFFICES ASSUME IInv, NoDollarDeferred, [Next]_vars PROVE NoDollarDeferred'
    OBVIOUS
  <1>1. CASE PushOpcode \/ PushDbItem \/ PushDwItem
    BY <1>1, PushOpcodeNoDollar, PushDbItemNoDollar, PushDwItemNoDollar
  <1>2. CASE UNCHANGED fixups
    BY <1>2 DEF fixups, NoDollarDeferred
  <1>3. PushOpcode \/ PushDbItem \/ PushDwItem \/ UNCHANGED fixups
    BY DEF Next, Parsing, DefineLabel, EmptyLine, RejectLine, CallEqu, SetOrg, AccountCode,
           AccountDb, ReserveDs, AccountDw, StartFixups, Evaluating, PushNumber, PushName,
           Negate, BinaryOp, SyntaxError, ReturnNothing, ReturnEqu, FixingUp,
           PatchRel, PatchByte, PatchWord, NextLoop, CheckLimit, Ended, vars, fixups
  <1>. QED
    BY <1>1, <1>2, <1>3

\* What waits in _byte_expr and _word_expr has no $ left.
THEOREM DollarsResolved == Spec => []NoDollarDeferred
  <1>1. Init => NoDollarDeferred
    BY DEF Init, Fresh, NoDollarDeferred, Empty
  <1>2. IInv /\ NoDollarDeferred /\ IInv' /\ [Next]_vars => NoDollarDeferred'
    BY NoDollarStep
  <1>. QED
    BY <1>1, <1>2, Invariance, PTL DEF Spec

-----------------------------------------------------------------------------
(* The stack of parse_expr: the invariant. *)

\* _acc is as high as the reductions done make it, over what a $ has left below.
AccMatches ==
  /\ \A e \in Current :
       /\ pos <= Len(e)
       /\ pos < Len(e) => Height(e)[pos] <= Len(acc)
       /\ ~DollarReachesParser => Len(acc) = Height(e)[pos]
  /\ Current = {} /\ phase \notin Terminal =>
       pos = 0 /\ (~DollarReachesParser => acc = <<>>)

\* What is deferred comes from the source, with numbers for some of its $.
EntriesFromSource ==
  /\ ~DollarReachesParser => \A a \in DOMAIN rel_addr : ~HasDollar(rel_addr[a])
  /\ ~SourceDivides =>
       /\ \A a \in DOMAIN rel_addr : ~Divides(rel_addr[a])
       /\ \A a \in DOMAIN byte_expr : ~Divides(byte_expr[a].expr)
       /\ \A a \in DOMAIN word_expr : ~Divides(word_expr[a])

CurrentTyped == Current \subseteq Expr

LEMMA CurrentIsExpr == IInv => CurrentTyped
  <1> SUFFICES ASSUME IInv, NEW e \in Current PROVE e \in Expr
    BY DEF CurrentTyped
  <1>1. CASE phase = "equ"
    <2>1. e = Body.expr
      BY <1>1 DEF Current
    <2>. QED
      BY <1>1, <2>1, CurrentBody, SMT DEF IInv, EquOnItsLine, IsBody
  <1>2. CASE phase = "rel"
    <2>1. PICK a \in todo : e = rel_addr[a]
      BY <1>2 DEF Current, Least
    <2>. QED
      BY <2>1, <1>2 DEF IInv, TypeOK, IsMap, TodoPending
  <1>3. CASE phase = "byte"
    <2>1. PICK a \in todo : e = byte_expr[a].expr
      BY <1>3 DEF Current, Least
    <2>. QED
      BY <2>1, <1>3 DEF IInv, TypeOK, IsMap, TodoPending, ByteExpr
  <1>4. CASE phase = "word"
    <2>1. PICK a \in todo : e = word_expr[a]
      BY <1>4 DEF Current, Least
    <2>. QED
      BY <2>1, <1>4 DEF IInv, TypeOK, IsMap, TodoPending
  <1>5. CASE phase \notin {"equ", "rel", "byte", "word"}
    BY <1>5 DEF Current
  <1>. QED
    BY <1>1, <1>2, <1>3, <1>4, <1>5

\* parse_expr works on one expression.
LEMMA CurrentAlone ==
  ASSUME IInv, NEW e \in Current, NEW f \in Current
  PROVE  e = f
  <1>1. \A a, b \in Least(todo) : a = b
    <2>1. todo \subseteq Nat
      BY DEF IInv, TypeOK
    <2>2. ASSUME NEW a \in Least(todo), NEW b \in Least(todo)
          PROVE  a = b
      <3>1. a \in Nat /\ b \in Nat /\ a <= b /\ b <= a
        BY <2>1 DEF Least
      <3>. QED
        BY <3>1
    <2>. QED
      BY <2>2
  <1>. QED
    BY <1>1, Zenon DEF Current

\* The text of the source an expression under way comes from.
LEMMA SourceLine ==
  ASSUME IInv, line <= Len(source)
  PROVE  line \in 1 .. Len(source) /\ Body = source[line].body
  <1>1. IsSource(source)
    BY SourceAssumption DEF IInv, TypeOK
  <1>. QED
    BY <1>1 DEF IInv, TypeOK, IsSource, Body

LEMMA CurrentFromSource ==
  ASSUME IInv, NoDollarDeferred, EntriesFromSource, NEW e \in Current
  PROVE  /\ ~DollarReachesParser => ~HasDollar(e)
         /\ ~SourceDivides => ~Divides(e)
  <1>1. CASE phase = "equ"
    <2>1. e = Body.expr
      BY <1>1 DEF Current
    <2>2. Body.k = "equ" /\ line \in 1 .. Len(source) /\ Body = source[line].body
      BY <1>1, SourceLine DEF IInv, EquOnItsLine
    <2>. QED
      BY <2>1, <2>2 DEF DollarReachesParser, SourceDivides
  <1>2. CASE phase = "rel"
    <2>1. PICK a \in todo : e = rel_addr[a]
      BY <1>2 DEF Current, Least
    <2>. QED
      BY <2>1, <1>2 DEF IInv, TodoPending, EntriesFromSource
  <1>3. CASE phase = "byte"
    <2>1. PICK a \in todo : e = byte_expr[a].expr
      BY <1>3 DEF Current, Least
    <2>. QED
      BY <2>1, <1>3 DEF IInv, TodoPending, EntriesFromSource, NoDollarDeferred
  <1>4. CASE phase = "word"
    <2>1. PICK a \in todo : e = word_expr[a]
      BY <1>4 DEF Current, Least
    <2>. QED
      BY <2>1, <1>4 DEF IInv, TodoPending, EntriesFromSource, NoDollarDeferred
  <1>5. CASE phase \notin {"equ", "rel", "byte", "word"}
    BY <1>5 DEF Current
  <1>. QED
    BY <1>1, <1>2, <1>3, <1>4, <1>5

-----------------------------------------------------------------------------
(* The steps that record operands. *)

LEMMA ReplaceDollarDivides ==
  ASSUME NEW e, NEW addr, ~Divides(e)
  PROVE  ~Divides(ReplaceDollar(e, addr))
  <1> SUFFICES ASSUME Len(e) \in Nat PROVE ~Divides(ReplaceDollar(e, addr))
    OBVIOUS
  <1>. QED
    BY DEF Divides, ReplaceDollar

LEMMA PushOpcodeFromSource ==
  ASSUME IInv, EntriesFromSource, PushOpcode PROVE EntriesFromSource'
  <1> DEFINE f == Body.form
             R == f.rel
             B == f.byte
             w == [o \in DOMAIN f.word |->
                     ReplaceDollar(f.word[o].expr, Dollar(Size + o, f.word[o].back))]
  <1>1. CASE UNCHANGED fixups
    BY <1>1 DEF PushOpcode, input, fixups, EntriesFromSource, DollarReachesParser, SourceDivides
  <1>2. CASE ~UNCHANGED fixups
    <2>1. /\ rel_addr' = Merge(rel_addr, Size, R)
          /\ byte_expr' = Merge(byte_expr, Size, B)
          /\ word_expr' = Merge(word_expr, Size, w)
          /\ source' = source
      BY <1>2 DEF PushOpcode, fixups, input
    <2>2. Body.k = "opcode" /\ line \in 1 .. Len(source) /\ Body = source[line].body
      BY SourceLine DEF PushOpcode, AtBody
    <2>3. IsTemplate(f)
      BY CurrentBody DEF PushOpcode, AtBody, IsBody
    <2>4. DOMAIN R \subseteq Nat /\ DOMAIN B \subseteq Nat /\ DOMAIN w \subseteq Nat
      BY <2>3 DEF IsTemplate, WordCells
    <2>5. ~DollarReachesParser => \A o \in DOMAIN R : ~HasDollar(R[o])
      BY <2>2 DEF DollarReachesParser
    <2>6. ~SourceDivides => /\ \A o \in DOMAIN R : ~Divides(R[o])
                            /\ \A o \in DOMAIN B : ~Divides(B[o].expr)
                            /\ \A o \in DOMAIN f.word : ~Divides(f.word[o].expr)
      BY <2>2 DEF SourceDivides
    <2>7. DOMAIN w = DOMAIN f.word /\ (~SourceDivides => \A o \in DOMAIN w : ~Divides(w[o]))
      <3>1. DOMAIN w = DOMAIN f.word
        OBVIOUS
      <3>2. ASSUME ~SourceDivides, NEW o \in DOMAIN f.word
            PROVE  ~Divides(w[o])
        <4>1. f.word[o].expr \in Expr
          BY <2>3 DEF IsTemplate
        <4>2. ~Divides(ReplaceDollar(f.word[o].expr, Dollar(Size + o, f.word[o].back)))
          BY <2>6, <3>2, <4>1, ReplaceDollarDivides
        <4>3. w[o] = ReplaceDollar(f.word[o].expr, Dollar(Size + o, f.word[o].back))
          OBVIOUS
        <4> HIDE DEF w, f
        <4>. QED
          BY <4>2, <4>3
      <3> HIDE DEF w, f
      <3>. QED
        BY <3>1, <3>2
    <2> HIDE DEF f, R, B, w
    <2>8. Size \in Nat
      BY SizeIsNat
    <2>9. ~DollarReachesParser => \A a \in DOMAIN (rel_addr') : ~HasDollar(rel_addr'[a])
      <3> SUFFICES ASSUME ~DollarReachesParser, NEW a \in DOMAIN (rel_addr')
                   PROVE  ~HasDollar(rel_addr'[a])
        OBVIOUS
      <3>1. a \in DOMAIN Merge(rel_addr, Size, R) /\ rel_addr'[a] = Merge(rel_addr, Size, R)[a]
        BY <2>1
      <3>2. \/ a - Size \in DOMAIN R /\ rel_addr'[a] = R[a - Size]
            \/ a \in DOMAIN rel_addr /\ rel_addr'[a] = rel_addr[a]
        BY <2>4, <2>8, <3>1, DomainOfMerge
      <3>3. a - Size \in DOMAIN R => ~HasDollar(R[a - Size])
        BY <2>5
      <3>4. a \in DOMAIN rel_addr => ~HasDollar(rel_addr[a])
        BY DEF EntriesFromSource
      <3>. QED
        BY <3>2, <3>3, <3>4
    <2>10. ~SourceDivides => \A a \in DOMAIN (rel_addr') : ~Divides(rel_addr'[a])
      <3> SUFFICES ASSUME ~SourceDivides, NEW a \in DOMAIN (rel_addr')
                   PROVE  ~Divides(rel_addr'[a])
        OBVIOUS
      <3>1. a \in DOMAIN Merge(rel_addr, Size, R) /\ rel_addr'[a] = Merge(rel_addr, Size, R)[a]
        BY <2>1
      <3>2. \/ a - Size \in DOMAIN R /\ rel_addr'[a] = R[a - Size]
            \/ a \in DOMAIN rel_addr /\ rel_addr'[a] = rel_addr[a]
        BY <2>4, <2>8, <3>1, DomainOfMerge
      <3>3. a - Size \in DOMAIN R => ~Divides(R[a - Size])
        BY <2>6
      <3>4. a \in DOMAIN rel_addr => ~Divides(rel_addr[a])
        BY DEF EntriesFromSource
      <3>. QED
        BY <3>2, <3>3, <3>4
    <2>11. ~SourceDivides => \A a \in DOMAIN (byte_expr') : ~Divides(byte_expr'[a].expr)
      <3> SUFFICES ASSUME ~SourceDivides, NEW a \in DOMAIN (byte_expr')
                   PROVE  ~Divides(byte_expr'[a].expr)
        OBVIOUS
      <3>1. a \in DOMAIN Merge(byte_expr, Size, B) /\ byte_expr'[a] = Merge(byte_expr, Size, B)[a]
        BY <2>1
      <3>2. \/ a - Size \in DOMAIN B /\ byte_expr'[a] = B[a - Size]
            \/ a \in DOMAIN byte_expr /\ byte_expr'[a] = byte_expr[a]
        BY <2>4, <2>8, <3>1, DomainOfMerge
      <3>3. a - Size \in DOMAIN B => ~Divides(B[a - Size].expr)
        BY <2>6
      <3>4. a \in DOMAIN byte_expr => ~Divides(byte_expr[a].expr)
        BY DEF EntriesFromSource
      <3>. QED
        BY <3>2, <3>3, <3>4
    <2>12. ~SourceDivides => \A a \in DOMAIN (word_expr') : ~Divides(word_expr'[a])
      <3> SUFFICES ASSUME ~SourceDivides, NEW a \in DOMAIN (word_expr')
                   PROVE  ~Divides(word_expr'[a])
        OBVIOUS
      <3>1. a \in DOMAIN Merge(word_expr, Size, w) /\ word_expr'[a] = Merge(word_expr, Size, w)[a]
        BY <2>1
      <3>2. \/ a - Size \in DOMAIN w /\ word_expr'[a] = w[a - Size]
            \/ a \in DOMAIN word_expr /\ word_expr'[a] = word_expr[a]
        BY <2>4, <2>8, <3>1, DomainOfMerge
      <3>3. a - Size \in DOMAIN w => ~Divides(w[a - Size])
        BY <2>7
      <3>4. a \in DOMAIN word_expr => ~Divides(word_expr[a])
        BY DEF EntriesFromSource
      <3>. QED
        BY <3>2, <3>3, <3>4
    <2>13. DollarReachesParser' = DollarReachesParser /\ SourceDivides' = SourceDivides
      BY <2>1 DEF DollarReachesParser, SourceDivides
    <2>. QED
      BY <2>9, <2>10, <2>11, <2>12, <2>13 DEF EntriesFromSource
  <1>. QED
    BY <1>1, <1>2

LEMMA PushDbItemFromSource ==
  ASSUME IInv, EntriesFromSource, PushDbItem PROVE EntriesFromSource'
  <1> DEFINE i == Body.items[item + 1]
             x == [expr |-> i.expr, op |-> "+"]
             new == [o \in {0} |-> x]
  <1>1. source' = source /\ rel_addr' = rel_addr /\ word_expr' = word_expr
    BY DEF PushDbItem, input
  <1>2. DollarReachesParser' = DollarReachesParser /\ SourceDivides' = SourceDivides
    BY <1>1 DEF DollarReachesParser, SourceDivides
  <1>3. CASE byte_expr' = byte_expr
    BY <1>1, <1>2, <1>3 DEF EntriesFromSource
  <1>4. CASE byte_expr' # byte_expr
    <2>1. i.k = "expr" /\ byte_expr' = Merge(byte_expr, Size, new)
      BY <1>4 DEF PushDbItem
    <2>2. Body.k = "db" /\ line \in 1 .. Len(source) /\ Body = source[line].body
      BY SourceLine DEF PushDbItem, AtBody
    <2>3. item + 1 \in 1 .. Len(Body.items)
      <3>1. IsBody(Body)
        BY CurrentBody DEF PushDbItem, AtBody
      <3>. QED
        BY <2>2, <3>1, SMT DEF PushDbItem, IInv, TypeOK, IsBody
    <2>4. ~SourceDivides => ~Divides(i.expr)
      BY <2>1, <2>2, <2>3 DEF SourceDivides
    <2>5. DOMAIN new = {0} /\ (~SourceDivides => ~Divides(new[0].expr))
      BY <2>4
    <2> HIDE DEF i, x, new
    <2>6. ~SourceDivides => \A a \in DOMAIN (byte_expr') : ~Divides(byte_expr'[a].expr)
      BY <2>1, <2>5, SizeIsNat, DomainOfMerge DEF EntriesFromSource
    <2>. QED
      BY <1>1, <1>2, <2>6 DEF EntriesFromSource
  <1>. QED
    BY <1>3, <1>4

LEMMA PushDwItemFromSource ==
  ASSUME IInv, EntriesFromSource, PushDwItem PROVE EntriesFromSource'
  <1> DEFINE e == Body.items[item + 1]
             r == ReplaceDollar(e, Dollar(Size, 2))
             new == [o \in {0} |-> r]
  <1>1. /\ source' = source /\ rel_addr' = rel_addr /\ byte_expr' = byte_expr
        /\ word_expr' = Merge(word_expr, Size, new)
    BY DEF PushDwItem, input
  <1>2. DollarReachesParser' = DollarReachesParser /\ SourceDivides' = SourceDivides
    BY <1>1 DEF DollarReachesParser, SourceDivides
  <1>3. Body.k = "dw" /\ line \in 1 .. Len(source) /\ Body = source[line].body
    BY SourceLine DEF PushDwItem, AtBody
  <1>4. item + 1 \in 1 .. Len(Body.items) /\ e \in Expr
    <2>1. IsBody(Body)
      BY CurrentBody DEF PushDwItem, AtBody
    <2>2. item + 1 \in 1 .. Len(Body.items)
      BY <1>3, <2>1, SMT DEF PushDwItem, IInv, TypeOK, IsBody
    <2>. QED
      BY <1>3, <2>1, <2>2 DEF IsBody
  <1>5. ~SourceDivides => ~Divides(e)
    BY <1>3, <1>4 DEF SourceDivides
  <1>6. DOMAIN new = {0} /\ (~SourceDivides => ~Divides(new[0]))
    BY <1>4, <1>5, ReplaceDollarDivides
  <1> HIDE DEF e, r, new
  <1>7. ~SourceDivides => \A a \in DOMAIN (word_expr') : ~Divides(word_expr'[a])
    BY <1>1, <1>6, SizeIsNat, DomainOfMerge DEF EntriesFromSource
  <1>. QED
    BY <1>1, <1>2, <1>7 DEF EntriesFromSource

\* The steps that record nothing.
LEMMA FixupsFrame ==
  ASSUME [Next]_vars
  PROVE  /\ PushOpcode \/ PushDbItem \/ PushDwItem \/ UNCHANGED fixups
         /\ source' = source
  BY DEF Next, Parsing, DefineLabel, EmptyLine, RejectLine, CallEqu, SetOrg, PushOpcode,
         AccountCode, PushDbItem, AccountDb, ReserveDs, PushDwItem, AccountDw, StartFixups,
         Evaluating, PushNumber, PushName, Negate, BinaryOp, SyntaxError, ReturnNothing,
         ReturnEqu, FixingUp, PatchRel, PatchByte, PatchWord, NextLoop, CheckLimit, Ended,
         vars, fixups, input

LEMMA FromSourceStep ==
  IInv /\ EntriesFromSource /\ [Next]_vars => EntriesFromSource'
  <1> SUFFICES ASSUME IInv, EntriesFromSource, [Next]_vars PROVE EntriesFromSource'
    OBVIOUS
  <1>1. CASE UNCHANGED fixups
    <2>1. UNCHANGED <<source, fixups>>
      BY <1>1, FixupsFrame
    <2>. QED
      BY <2>1 DEF fixups, EntriesFromSource, DollarReachesParser, SourceDivides
  <1>. QED
    BY <1>1, FixupsFrame, PushOpcodeFromSource, PushDbItemFromSource, PushDwItemFromSource

-----------------------------------------------------------------------------
(* The steps of parse_expr. *)

\* An expression's heights before its end leave room for its next reduction.
LEMMA ExprHeights ==
  ASSUME NEW e \in Expr
  PROVE  /\ Len(e) \in Nat /\ Height(e)[0] = 0 /\ Height(e)[Len(e)] = 1
         /\ \A i \in 0 .. Len(e) : Height(e)[i] \in Int
         /\ \A i \in 0 .. Len(e) - 1 :
              /\ Arity(e[i + 1]) <= Height(e)[i]
              /\ Height(e)[i + 1] = Height(e)[i] + 1 - Arity(e[i + 1])
  <1>1. e \in Seq(Token) /\ Len(e) \in Nat /\ Height(e)[Len(e)] = 1
        /\ \A i \in 1 .. Len(e) : Arity(e[i]) <= Height(e)[i - 1]
    BY DEF Expr
  <1>2. /\ Height(e)[0] = 0
        /\ \A i \in 0 .. Len(e) : Height(e)[i] \in Int
        /\ \A i \in 1 .. Len(e) : Height(e)[i] = Height(e)[i - 1] + 1 - Arity(e[i])
    BY <1>1, HeightStep
  <1>3. ASSUME NEW i \in 0 .. Len(e) - 1
        PROVE  /\ Arity(e[i + 1]) <= Height(e)[i]
               /\ Height(e)[i + 1] = Height(e)[i] + 1 - Arity(e[i + 1])
    <2>1. i + 1 \in 1 .. Len(e) /\ (i + 1) - 1 = i
      BY <1>1
    <2>. QED
      BY <1>1, <1>2, <2>1
  <1>. QED
    BY <1>1, <1>2, <1>3

\* A reduction replaces its operands by its value.
LEMMA ReductionMatches ==
  ASSUME IInv, CurrentTyped, AccMatches, NEW e \in Current, pos < Len(e),
         Step, Len(acc') = Len(acc) + 1 - Arity(e[pos + 1]),
         UNCHANGED <<input, program, symbols, fixups>>
  PROVE  AccMatches'
  <1>1. Current' = Current /\ DollarReachesParser' = DollarReachesParser
    BY DEF Step, Current, Body, Least, input, fixups, DollarReachesParser
  <1>2. pos \in Nat /\ Len(acc) \in Nat /\ pos' = pos + 1
    BY DEF IInv, TypeOK, Step
  <1>3. e \in Expr
    BY DEF CurrentTyped
  <1> DEFINE h == Height(e)
  <1>4. /\ Len(e) \in Nat /\ h[pos] \in Int /\ Arity(e[pos + 1]) \in Nat
        /\ h[pos + 1] = h[pos] + 1 - Arity(e[pos + 1])
    <2>1. pos \in 0 .. Len(e) - 1 /\ pos \in 0 .. Len(e)
      BY <1>2, <1>3, ExprHeights
    <2>. QED
      BY <1>3, <2>1, ExprHeights DEF Arity
  <1>5. /\ pos < Len(e) => h[pos] <= Len(acc)
        /\ ~DollarReachesParser => Len(acc) = h[pos]
    BY DEF AccMatches
  <1> HIDE DEF h
  <1>6. /\ pos' <= Len(e)
        /\ h[pos'] <= Len(acc')
        /\ ~DollarReachesParser => Len(acc') = h[pos']
    BY <1>2, <1>4, <1>5
  <1>7. \A f \in Current' : f = e
    BY <1>1, CurrentAlone
  <1>. QED
    BY <1>1, <1>6, <1>7 DEF AccMatches, h

\* What the guard of a reduction says, and where it finds its operands.
LEMMA Reduced ==
  ASSUME IInv, CurrentTyped, AccMatches, NEW t, Reduces(t)
  PROVE  \E e \in Current :
           /\ e \in Expr /\ pos < Len(e) /\ e[pos + 1] = t
           /\ Arity(t) <= Len(acc)
  <1>1. PICK e \in Current : pos < Len(e) /\ e[pos + 1] = t
    BY DEF Reduces
  <1>2. e \in Expr
    BY DEF CurrentTyped
  <1>3. pos \in 0 .. Len(e) - 1 /\ pos \in 0 .. Len(e) /\ Len(acc) \in Nat
    BY <1>1, <1>2, ExprHeights DEF IInv, TypeOK
  <1>4. Arity(e[pos + 1]) <= Height(e)[pos] /\ Height(e)[pos] \in Int
    BY <1>2, <1>3, ExprHeights
  <1>5. Height(e)[pos] <= Len(acc)
    BY <1>1 DEF AccMatches
  <1>6. Arity(t) \in Nat
    BY DEF Arity
  <1>. QED
    BY <1>1, <1>2, <1>3, <1>4, <1>5, <1>6

\* Once the program has ended there is nothing to match.
LEMMA TerminalMatches ==
  ASSUME phase' \in Terminal
  PROVE  AccMatches'
  BY DEF AccMatches, Current, Terminal

\* Between evaluations.
LEMMA StartMatches ==
  ASSUME CurrentTyped', pos' = 0, ~DollarReachesParser' => acc' = <<>>, Len(acc') \in Nat
  PROVE  AccMatches'
  <1>1. ASSUME NEW e \in Current'
        PROVE  /\ pos' <= Len(e)
               /\ Height(e)[pos'] <= Len(acc')
               /\ ~DollarReachesParser' => Len(acc') = Height(e)[pos']
    <2>1. e \in Expr
      BY DEF CurrentTyped, Expr, Token
    <2>. QED
      BY <2>1, ExprHeights
  <1>. QED
    BY <1>1 DEF AccMatches

\* The stack at the end of an evaluation.
LEMMA AtTheEnd ==
  ASSUME IInv, CurrentTyped, AccMatches, AtReturn, ~DollarReachesParser
  PROVE  Len(acc) = 1
  <1>1. PICK e \in Current : pos = Len(e)
    BY DEF AtReturn
  <1>2. e \in Expr
    BY DEF CurrentTyped
  <1>3. Len(acc) = Height(e)[pos]
    BY DEF AccMatches
  <1>. QED
    BY <1>1, <1>2, <1>3, ExprHeights

LEMMA ReturnsMatches ==
  ASSUME IInv, CurrentTyped, CurrentTyped', AccMatches, Returns, source' = source
  PROVE  AccMatches'
  <1>1. DollarReachesParser' = DollarReachesParser
    BY DEF DollarReachesParser
  <1>2. acc \in Seq(CInt) /\ acc' = Rest /\ pos' = 0 /\ Rest \in Seq(CInt)
    BY AccType DEF IInv, TypeOK, Returns
  <1>3. ~DollarReachesParser => acc' = <<>>
    <2>1. SUFFICES ASSUME ~DollarReachesParser PROVE acc' = <<>>
      OBVIOUS
    <2>2. Len(acc) = 1
      BY <2>1, AtTheEnd DEF Returns
    <2>. QED
      BY <1>2, <2>2 DEF Rest
  <1>. QED
    BY <1>1, <1>2, <1>3, StartMatches

LEMMA EvaluatingMatches ==
  ASSUME IInv, NoDollarDeferred, EntriesFromSource, CurrentTyped, AccMatches, UndefinedOnlyFrom,
         Evaluating
  PROVE  AccMatches' /\ UndefinedOnlyFrom'
  <1>1. /\ UNCHANGED <<input, program, symbols, fixups>> /\ source' = source
        /\ acc \in Seq(CInt) /\ pos \in Nat
    BY DEF Evaluating, PushNumber, PushName, Negate, BinaryOp, SyntaxError, ReturnNothing,
           input, IInv, TypeOK, program, symbols, fixups
  <1>2. DollarReachesParser' = DollarReachesParser /\ SourceDivides' = SourceDivides
    BY <1>1 DEF DollarReachesParser, SourceDivides
  <1>3. Current # {} => phase # "undefined"
    BY DEF Current
  <1>4. ASSUME NEW t, Reduces(t), Step, Len(acc') = Len(acc) + 1 - Arity(t)
        PROVE  AccMatches' /\ UndefinedOnlyFrom'
    <2>1. PICK e \in Current : pos < Len(e) /\ e[pos + 1] = t
      BY <1>4 DEF Reduces
    <2>2. AccMatches'
      BY <1>1, <1>4, <2>1, ReductionMatches
    <2>3. phase' # "undefined"
      BY <1>3, <1>4, <2>1 DEF Step
    <2>. QED
      BY <2>2, <2>3 DEF UndefinedOnlyFrom
  <1>5. CASE PushNumber
    <2>1. PICK v \in Word : Reduces([t |-> "num", v |-> v]) /\ acc' = Append(acc, v)
      BY <1>5 DEF PushNumber
    <2>2. Arity([t |-> "num", v |-> v]) = 0 /\ v \in CInt
      BY WordIsInt DEF Arity, Operators
    <2>3. Len(acc') = Len(acc) + 1 - 0
      BY <1>1, <2>1, <2>2
    <2>. QED
      BY <1>4, <1>5, <2>1, <2>2, <2>3 DEF PushNumber
  <1>6. CASE PushName
    <2>1. PICK n \in Names :
            /\ Reduces([t |-> "name", n |-> n])
            /\ \/ Meanings(n) = {} /\ Fail
               \/ \E m \in Meanings(n) : acc' = Append(acc, m) /\ Step
      BY <1>6 DEF PushName
    <2>2. CASE Fail
      <3>1. phase' = "error"
        BY <2>2 DEF Fail
      <3>. QED
        BY <3>1, TerminalMatches DEF Terminal, UndefinedOnlyFrom
    <2>3. CASE \E m \in Meanings(n) : acc' = Append(acc, m) /\ Step
      <3>1. Arity([t |-> "name", n |-> n]) = 0
        BY DEF Arity, Operators
      <3>2. Len(acc') = Len(acc) + 1 - 0
        BY <1>1, <2>3, MeaningsType
      <3>. QED
        BY <1>4, <2>1, <2>3, <3>1, <3>2
    <2>. QED
      BY <2>1, <2>2, <2>3
  <1>7. CASE Negate
    <2>1. Reduces([t |-> "neg"]) /\ Step /\ Len(acc) > 0 /\ acc' = Append(Rest, Wrap(-Top))
      BY <1>7 DEF Negate
    <2>2. Arity([t |-> "neg"]) = 1
      BY DEF Arity, Operators
    <2>3. acc # <<>>
      BY <1>1, <2>1
    <2>4. Len(Rest) = Len(acc) - 1 /\ Wrap(-Top) \in CInt /\ Rest \in Seq(CInt)
      <3>1. Top \in Int /\ Rest \in Seq(CInt) /\ Len(acc) \in Nat
        BY <1>1, <2>3, AccType
      <3>2. Len(Rest) = Len(acc) - 1
        <4>1. Len(acc) - 1 \in 0 .. Len(acc)
          BY <2>1, <3>1
        <4>. QED
          BY <1>1, <4>1, FirstPart DEF Rest
      <3>. QED
        BY <3>1, <3>2, WrapType
    <2>5. Len(acc') = Len(acc) + 1 - 1
      BY <1>1, <2>1, <2>4
    <2>. QED
      BY <1>4, <2>1, <2>2, <2>5
  <1>8. CASE BinaryOp
    <2> DEFINE x == acc[Len(acc) - 1]
               below == SubSeq(acc, 1, Len(acc) - 2)
    <2>1. PICK op \in Operators :
            /\ Reduces([t |-> op])
            /\ Len(acc) > 1
            /\ IF Traps(op, x, Top)
               THEN phase' = "undefined" /\ UNCHANGED <<line, item, todo, pos, acc>>
               ELSE acc' = Append(below, Apply(op, x, Top)) /\ Step
      BY <1>8 DEF BinaryOp
    <2>2. acc # <<>>
      BY <1>1, <2>1
    <2>3. Top \in CInt /\ x \in CInt /\ below \in Seq(CInt) /\ Len(below) = Len(acc) - 2
      <3>1. Top \in CInt /\ x \in CInt /\ below \in Seq(CInt)
        BY <2>1, <2>2, AccType
      <3>2. Len(below) = Len(acc) - 2
        <4>1. Len(acc) - 2 \in 0 .. Len(acc)
          BY <1>1, <2>1
        <4>. QED
          BY <1>1, <4>1, FirstPart
      <3>. QED
        BY <3>1, <3>2
    <2>4. Arity([t |-> op]) = 2
      BY DEF Arity
    <2> HIDE DEF x, below
    <2>5. CASE Traps(op, x, Top)
      <3>1. phase' = "undefined" /\ op = "/"
        BY <2>1, <2>5 DEF Traps
      <3>2. PICK e \in Current : pos < Len(e) /\ e[pos + 1] = [t |-> op] /\ e \in Expr
        BY <2>1 DEF Reduces, CurrentTyped
      <3>3. pos + 1 \in 1 .. Len(e)
        BY <1>1, <3>2, ExprHeights
      <3>4. Divides(e)
        BY <3>1, <3>2, <3>3 DEF Divides
      <3>5. SourceDivides
        BY <3>2, <3>4, CurrentFromSource
      <3>. QED
        BY <1>2, <3>1, <3>5, TerminalMatches DEF Terminal, UndefinedOnlyFrom
    <2>6. CASE ~Traps(op, x, Top)
      <3>1. acc' = Append(below, Apply(op, x, Top)) /\ Step /\ Apply(op, x, Top) \in CInt
        BY <2>1, <2>3, <2>6, ApplyType
      <3>2. Len(acc') = Len(acc) + 1 - 2
        BY <1>1, <2>3, <3>1
      <3>. QED
        BY <1>4, <2>1, <2>4, <3>1, <3>2
    <2>. QED
      BY <2>5, <2>6
  <1>9. CASE SyntaxError
    <2>1. PICK e \in Current : pos' = Len(e)
      BY <1>9 DEF SyntaxError
    <2>2. Current' = Current /\ phase' = phase
      BY <1>9 DEF SyntaxError, Current, Body, Least, input, fixups
    <2>3. PICK f \in Current : pos < Len(f) /\ f[pos + 1] = [t |-> "$"]
      BY <1>9 DEF SyntaxError, Reduces
    <2>4. f = e /\ e \in Expr /\ \A d \in Current : d = e
      BY <2>3, CurrentAlone DEF CurrentTyped
    <2>5. HasDollar(e)
      <3>1. pos + 1 \in 1 .. Len(e)
        BY <1>1, <2>3, <2>4, ExprHeights
      <3>. QED
        BY <2>3, <2>4, <3>1 DEF HasDollar
    <2>6. DollarReachesParser
      BY <2>5, CurrentFromSource
    <2>7. pos' <= Len(e) /\ ~(pos' < Len(e))
      BY <2>1, <2>4, ExprHeights
    <2>8. AccMatches'
      BY <1>2, <2>2, <2>4, <2>6, <2>7 DEF AccMatches
    <2>. QED
      BY <1>3, <2>2, <2>4, <2>8 DEF UndefinedOnlyFrom
  <1>10. CASE ReturnNothing
    <2>1. AtReturn /\ acc = <<>> /\ phase' = "undefined"
      BY <1>10 DEF ReturnNothing
    <2>2. DollarReachesParser
      BY <2>1, AtTheEnd
    <2>. QED
      BY <1>2, <2>1, <2>2, TerminalMatches DEF Terminal, UndefinedOnlyFrom
  <1>. QED
    BY <1>5, <1>6, <1>7, <1>8, <1>9, <1>10 DEF Evaluating

-----------------------------------------------------------------------------
(* The other steps. *)

\* A step of the parsing, or to the next loop, starts from the stack of no
\* evaluation and leaves it.
LEMMA OutsideMatches ==
  ASSUME IInv, CurrentTyped', AccMatches, Current = {}, phase \notin Terminal,
         pos' = 0 \/ pos' = pos, acc' = acc, source' = source
  PROVE  AccMatches'
  <1>1. pos = 0 /\ (~DollarReachesParser => acc = <<>>) /\ Len(acc) \in Nat
    BY DEF AccMatches, IInv, TypeOK
  <1>2. DollarReachesParser' = DollarReachesParser
    BY DEF DollarReachesParser
  <1>. QED
    BY <1>1, <1>2, StartMatches

LEMMA MatchesStep ==
  IInv /\ NoDollarDeferred /\ EntriesFromSource /\ CurrentTyped /\ CurrentTyped'
    /\ AccMatches /\ UndefinedOnlyFrom /\ [Next]_vars
  => AccMatches' /\ UndefinedOnlyFrom'
  <1> SUFFICES ASSUME IInv, NoDollarDeferred, EntriesFromSource, CurrentTyped, CurrentTyped',
                      AccMatches, UndefinedOnlyFrom, [Next]_vars
               PROVE  AccMatches' /\ UndefinedOnlyFrom'
    OBVIOUS
  <1>1. source' = source
    BY FixupsFrame
  <1>2. CASE Evaluating
    BY <1>2, EvaluatingMatches
  <1>3. CASE Parsing
    <2>1. /\ phase \in {"line", "body", "opcode"} /\ phase' # "undefined"
          /\ pos' \in {0, pos} /\ acc' = acc
      BY <1>3 DEF Parsing, DefineLabel, EmptyLine, RejectLine, CallEqu, SetOrg, PushOpcode,
         AccountCode, PushDbItem, AccountDb, ReserveDs, PushDwItem, AccountDw, StartFixups,
         AtBody, NextLine, Fail, evaluation
    <2>2. Current = {} /\ phase \notin Terminal
      BY <2>1 DEF Current, Terminal
    <2>. QED
      BY <1>1, <2>1, <2>2, OutsideMatches DEF UndefinedOnlyFrom
  <1>4. CASE ReturnEqu \/ PatchRel \/ PatchByte \/ PatchWord
    <2>1. Returns /\ phase' # "undefined"
      BY <1>4 DEF ReturnEqu, PatchRel, PatchByte, PatchWord, NextLine
    <2>. QED
      BY <1>1, <2>1, ReturnsMatches DEF UndefinedOnlyFrom
  <1>5. CASE NextLoop
    <2>1. /\ todo = {} /\ phase \in Patching /\ phase' # "undefined"
          /\ pos' = pos /\ acc' = acc
      BY <1>5 DEF NextLoop, Patching, evaluation
    <2>2. Current = {} /\ phase \notin Terminal
      BY <2>1 DEF Current, Terminal, Patching, Least
    <2>. QED
      BY <1>1, <2>1, <2>2, OutsideMatches DEF UndefinedOnlyFrom
  <1>6. CASE CheckLimit
    <2>1. phase' \in {"error", "done"}
      BY <1>6 DEF CheckLimit
    <2>. QED
      BY <2>1, TerminalMatches DEF Terminal, UndefinedOnlyFrom
  <1>7. CASE UNCHANGED vars
    BY <1>7 DEF vars, AccMatches, UndefinedOnlyFrom, Current, Body, Least, DollarReachesParser,
       SourceDivides
  <1>. QED
    BY <1>2, <1>3, <1>4, <1>5, <1>6, <1>7 DEF Next, FixingUp, Ended

-----------------------------------------------------------------------------
(* The theorems about the stack. *)

LEMMA EvaluationInvariance ==
  Spec => [](IInv /\ CurrentTyped /\ AccMatches /\ UndefinedOnlyFrom)
  <1>1. Init => EntriesFromSource /\ AccMatches /\ UndefinedOnlyFrom
    BY DEF Init, Fresh, Empty, EntriesFromSource, AccMatches, UndefinedOnlyFrom, Current
  <1>. QED
    BY <1>1, CurrentIsExpr, FromSourceStep, MatchesStep, Invariance, DollarsResolved, PTL DEF Spec

\* A reduction finds its operands on _acc: top() and pop() have something to
\* work on, whatever the text and whatever earlier evaluations left.
THEOREM OperandsThere == Spec => []OperandsOnStack
  <1>1. IInv /\ CurrentTyped /\ AccMatches => OperandsOnStack
    <2> SUFFICES ASSUME IInv, CurrentTyped, AccMatches, NEW e \in Current, pos < Len(e)
                 PROVE  Arity(e[pos + 1]) <= Len(acc)
      BY DEF OperandsOnStack
    <2>1. Reduces(e[pos + 1])
      BY DEF Reduces
    <2>. QED
      BY <2>1, Reduced
  <1>. QED
    BY <1>1, EvaluationInvariance, PTL

\* No evaluation sees what another left, unless a $ got through to parse_expr.
THEOREM AccEmptied == Spec => []AccBalanced
  <1>1. IInv /\ CurrentTyped /\ AccMatches => AccBalanced
    <2> SUFFICES ASSUME IInv, CurrentTyped, AccMatches,
                        pos = 0, phase \notin Terminal, ~DollarReachesParser
                 PROVE  acc = <<>>
      BY DEF AccBalanced
    <2>1. CASE Current = {}
      BY <2>1 DEF AccMatches
    <2>2. CASE Current # {}
      <3>1. PICK e \in Current : Len(acc) = Height(e)[pos]
        BY <2>2 DEF AccMatches
      <3>2. Len(acc) = 0
        BY <3>1, ExprHeights DEF CurrentTyped
      <3>. QED
        BY <3>2 DEF IInv, TypeOK
    <2>. QED
      BY <2>1, <2>2
  <1>. QED
    BY <1>1, EvaluationInvariance, PTL

\* Only a division and a $ lead out of what C++ defines.
THEOREM UndefinedSources == Spec => []UndefinedOnlyFrom
  <1>. QED
    BY EvaluationInvariance, PTL

-----------------------------------------------------------------------------
(* Where the relative jumps lead: the expression parser gives the address  *)
(* of the label, the first loop of fixup_addresses stores the distance in  *)
(* a byte, and the other loops leave that byte alone.                      *)

\* The operand of the jump whose displacement is at a is the name n alone.
Named(a, n) == rel_addr[a] = <<[t |-> "name", n |-> n]>>

Lands(a) ==
  \A n \in DOMAIN label :
    Named(a, n) => org + a + 1 + SignedByte(memory[a + 1]) = (org + label[n]) % WordSize

\* The displacements fixup_addresses has stored.
Settled ==
  CASE phase = "rel" -> DOMAIN rel_addr \ todo
    [] phase \in {"byte", "word", "check", "done"} -> DOMAIN rel_addr
    [] OTHER -> {}

\* Once parse_expr has reduced such an operand, the label's address is on top.
Evaluated ==
  phase = "rel" /\ pos > 0 =>
    \A a \in Least(todo) : \A n \in DOMAIN label :
      Named(a, n) => acc # <<>> /\ Top = org + label[n]

Landed == relative = "absolute" => \A a \in Settled : Lands(a)

-----------------------------------------------------------------------------
(* Facts about one evaluation. *)

\* Storing a distance in a byte and reading it back as a signed one.
LEMMA SignedByteReads ==
  ASSUME NEW x \in Int, InReach(x)
  PROVE  x % ByteSize \in Byte /\ SignedByte(x % ByteSize) = x
  <1> DEFINE h == ByteSize \div 2
  <1>1. h \in Nat /\ ByteSize = h + h /\ ByteSize \in Nat /\ ByteSize > 0
    BY WidthAssumption, SMT
  <1>2. -h <= x /\ x < h
    BY DEF InReach
  <1> HIDE DEF h
  <1>3. x % ByteSize = IF x < 0 THEN x + ByteSize ELSE x
    BY <1>1, <1>2, SMT
  <1>4. SignedByte(x % ByteSize) = IF x % ByteSize < h THEN x % ByteSize ELSE (x % ByteSize) - ByteSize
    BY DEF SignedByte, h
  <1>. QED
    BY <1>1, <1>2, <1>3, <1>4, SMT DEF Byte

\* The loop works on the lowest address, and there is only one.
LEMMA LeastAlone ==
  ASSUME IInv, phase = "rel", NEW a \in Least(todo)
  PROVE  /\ a \in Nat /\ a \in todo /\ a \in DOMAIN rel_addr
         /\ Current = {rel_addr[a]}
  <1>1. todo \subseteq Nat /\ todo \subseteq DOMAIN rel_addr
    BY DEF IInv, TypeOK, TodoPending
  <1>2. ASSUME NEW b \in Least(todo) PROVE b = a
    <2>1. a \in Nat /\ b \in Nat /\ a <= b /\ b <= a
      BY <1>1 DEF Least
    <2>. QED
      BY <2>1, SMT
  <1>3. Current = {rel_addr[b] : b \in Least(todo)}
    BY DEF Current
  <1>. QED
    BY <1>1, <1>2, <1>3 DEF Least

\* The one reduction of a name alone pushes the label's address.
LEMMA NameReduced ==
  ASSUME IInv, phase = "rel", Evaluating, phase' = "rel",
         NEW a \in Least(todo), NEW n \in DOMAIN label, Named(a, n)
  PROVE  acc' = Append(acc, org + label[n])
  <1> DEFINE e == <<[t |-> "name", n |-> n]>>
  <1>1. Current = {e}
    BY LeastAlone DEF Named
  <1>2. pos \in Nat /\ Len(e) = 1 /\ e[1] = [t |-> "name", n |-> n]
    BY DEF IInv, TypeOK
  <1>3. ASSUME NEW t, Reduces(t)
        PROVE  t = [t |-> "name", n |-> n]
    <2>1. pos < Len(e) /\ e[pos + 1] = t
      BY <1>1, <1>3 DEF Reduces
    <2>2. pos = 0
      BY <1>2, <2>1, SMT
    <2>. QED
      BY <1>2, <2>1, <2>2
  <1> HIDE DEF e
  <1>4. ~PushNumber
    <2>1. \A v : [t |-> "num", v |-> v] # [t |-> "name", n |-> n]
      <3>1. \A v : [t |-> "num", v |-> v].t = "num" /\ [t |-> "name", n |-> n].t = "name"
        OBVIOUS
      <3>. QED
        BY <3>1
    <2>. QED
      BY <1>3, <2>1 DEF PushNumber
  <1>5. ~Negate /\ ~SyntaxError
    <2>1. \A s : s # "name" => [t |-> s] # [t |-> "name", n |-> n]
      OBVIOUS
    <2>. QED
      BY <1>3, <2>1 DEF Negate, SyntaxError
  <1>6. ~BinaryOp
    <2>1. \A op \in Operators : [t |-> op] # [t |-> "name", n |-> n]
      BY DEF Operators
    <2>. QED
      BY <1>3, <2>1 DEF BinaryOp
  <1>7. ~ReturnNothing
    BY DEF ReturnNothing
  <1>8. PICK m \in Names :
          /\ Reduces([t |-> "name", n |-> m])
          /\ \/ Meanings(m) = {} /\ Fail
             \/ \E x \in Meanings(m) : acc' = Append(acc, x)
    BY <1>4, <1>5, <1>6, <1>7 DEF Evaluating, PushName
  <1>9. m = n
    <2>1. [t |-> "name", n |-> m] = [t |-> "name", n |-> n]
      BY <1>3, <1>8
    <2>2. [t |-> "name", n |-> m].n = m /\ [t |-> "name", n |-> n].n = n
      OBVIOUS
    <2>. QED
      BY <2>1, <2>2
  <1>10. Meanings(m) = {org + label[n]}
    BY <1>9 DEF Meanings
  <1>. QED
    BY <1>8, <1>10 DEF Fail

\* What parse_expr leaves alone, and the phases it can lead to.
LEMMA EvaluatingFrame ==
  ASSUME IInv, Evaluating
  PROVE  /\ UNCHANGED <<relative, org, memory, label, rel_addr>>
         /\ UNCHANGED <<phase, todo>> \/ phase' \in {"error", "undefined"}
  BY DEF Evaluating, PushNumber, PushName, Negate, BinaryOp, SyntaxError, ReturnNothing,
         Fail, Step, input, program, symbols, fixups

-----------------------------------------------------------------------------
(* The steps. *)

LEMMA EvaluatingLands ==
  ASSUME IInv, Evaluated, Landed, Evaluating PROVE Evaluated' /\ Landed'
  <1>1. UNCHANGED <<relative, org, memory, label, rel_addr>>
    BY EvaluatingFrame
  <1>2. CASE phase' \in {"error", "undefined"}
    BY <1>2 DEF Evaluated, Landed, Settled
  <1>3. CASE UNCHANGED <<phase, todo>>
    <2>1. Landed'
      BY <1>1, <1>3 DEF Landed, Settled, Lands, Named
    <2>2. ASSUME phase' = "rel",
                 NEW a \in Least(todo), NEW n \in DOMAIN label, Named(a, n)
          PROVE  acc' # <<>> /\ Top' = org + label[n]
      <3>1. acc' = Append(acc, org + label[n]) /\ acc \in Seq(CInt)
        BY <1>3, <2>2, NameReduced DEF IInv, TypeOK
      <3> DEFINE x == org + label[n]
      <3>2. acc' = Append(acc, x)
        BY <3>1
      <3> HIDE DEF x
      <3>3. Append(acc, x) # <<>> /\ Append(acc, x)[Len(Append(acc, x))] = x
        BY <3>1
      <3>4. acc' # <<>> /\ Top' = x
        BY <3>2, <3>3 DEF Top
      <3>. QED
        BY <3>4 DEF x
    <2>3. Evaluated'
      BY <1>1, <1>3, <2>2 DEF Evaluated, Least, Named
    <2>. QED
      BY <2>1, <2>3
  <1>. QED
    BY <1>2, <1>3, EvaluatingFrame

LEMMA PatchRelLands ==
  ASSUME IInv, Evaluated, Landed, PatchRel PROVE Evaluated' /\ Landed'
  <1>1. /\ phase = "rel" /\ AtReturn /\ acc # <<>> /\ pos' = 0
        /\ UNCHANGED <<relative, org, label, rel_addr>>
    BY DEF PatchRel, Returns, input, symbols, fixups
  <1>2. PICK a \in Least(todo) :
          \/ /\ InReach(RelOffset(a))
             /\ memory' = [memory EXCEPT ![a + 1] = RelOffset(a) % ByteSize]
             /\ todo' = todo \ {a} /\ phase' = phase
          \/ phase' = "error"
    BY DEF PatchRel
  <1>3. Evaluated'
    BY <1>1 DEF Evaluated
  <1>4. CASE phase' = "error"
    BY <1>3, <1>4 DEF Landed, Settled
  <1>5. CASE phase' # "error" /\ relative = "absolute"
    <2> DEFINE x == RelOffset(a)
    <2>1. /\ a \in Nat /\ a \in DOMAIN rel_addr /\ Current = {rel_addr[a]}
          /\ memory \in Seq(Byte) /\ a + 1 \in 1 .. Len(memory)
          /\ org \in Word /\ pos \in Nat
      <3>1. a \in Nat /\ a \in DOMAIN rel_addr /\ Current = {rel_addr[a]}
        BY <1>1, LeastAlone
      <3>2. memory \in Seq(Byte) /\ org \in Word /\ pos \in Nat
        BY DEF IInv, TypeOK
      <3>3. a \in 0 .. Size - 1
        BY <3>1 DEF IInv, HolesSound, Holes
      <3>. QED
        BY <3>1, <3>2, <3>3, SizeIsNat, SMT DEF Size
    <2>2. Result \in Word /\ x = Result - (org + a + 1)
      BY <1>1, <1>5, AccType DEF RelOffset
    <2>3. x \in Int /\ Result \in Int /\ org \in Int
      BY <2>1, <2>2, Widths, SMT DEF Word
    <2>4. InReach(x) /\ memory' = [memory EXCEPT ![a + 1] = x % ByteSize]
          /\ todo' = todo \ {a} /\ phase' = "rel"
      BY <1>1, <1>2, <1>5
    <2>5. x % ByteSize \in Byte /\ SignedByte(x % ByteSize) = x
      BY <2>3, <2>4, SignedByteReads
    <2> HIDE DEF x
    <2> DEFINE b == x % ByteSize
    <2>6. SignedByte(b) = x
      BY <2>5
    <2>7. memory' = [memory EXCEPT ![a + 1] = b]
      BY <2>4
    <2> HIDE DEF b
    <2>8. memory'[a + 1] = b
      BY <2>1, <2>7
    <2>9. ASSUME NEW n \in DOMAIN label, Named(a, n)
          PROVE  org + a + 1 + SignedByte(memory'[a + 1]) = (org + label[n]) % WordSize
      <3>1. pos > 0
        <4>1. pos = Len(rel_addr[a])
          BY <1>1, <2>1 DEF AtReturn
        <4>. QED
          BY <2>9, <4>1 DEF Named
      <3>2. Result = (org + label[n]) % WordSize
        BY <1>1, <2>9, <3>1 DEF Evaluated, Result
      <3>3. org + a + 1 + x = Result
        BY <2>1, <2>2, <2>3, SMT
      <3>. QED
        BY <2>6, <2>8, <3>2, <3>3
    <2>10. ASSUME NEW c \in DOMAIN rel_addr \ todo, c # a, NEW n \in DOMAIN label, Named(c, n)
           PROVE  org + c + 1 + SignedByte(memory'[c + 1]) = (org + label[n]) % WordSize
      <3>1. c + 1 # a + 1
        <4>1. c \in Nat
          BY DEF IInv, TypeOK, IsMap
        <4>. QED
          BY <2>1, <2>10, <4>1, SMT
      <3>2. memory'[c + 1] = memory[c + 1]
        BY <2>1, <2>7, <3>1
      <3>. QED
        BY <1>1, <1>5, <2>10, <3>2 DEF Landed, Settled, Lands
    <2>11. Settled' = (DOMAIN rel_addr \ todo) \cup {a}
      BY <1>1, <2>1, <2>4 DEF Settled
    <2>12. Landed'
      BY <1>1, <2>9, <2>10, <2>11 DEF Landed, Lands, Named
    <2>. QED
      BY <1>3, <2>12
  <1>6. CASE relative # "absolute"
    BY <1>1, <1>3, <1>6 DEF Landed
  <1>. QED
    BY <1>4, <1>5, <1>6

\* The loops after the first leave the displacements of the jumps alone.
LEMMA LaterLoopLands ==
  ASSUME IInv, Landed, PatchByte \/ PatchWord PROVE Evaluated' /\ Landed'
  <1>1. /\ phase \in {"byte", "word"}
        /\ UNCHANGED <<relative, phase, org, label, rel_addr>>
    BY DEF PatchByte, PatchWord, input, symbols, fixups
  <1>2. Evaluated'
    BY <1>1 DEF Evaluated
  <1>3. ASSUME NEW c \in DOMAIN rel_addr
        PROVE  memory'[c + 1] = memory[c + 1]
    <2>1. memory \in Seq(Byte) /\ c \in Nat /\ c + 1 \in 1 .. Len(memory)
      <3>1. memory \in Seq(Byte) /\ c \in Nat
        BY DEF IInv, TypeOK, IsMap
      <3>2. c \in 0 .. Size - 1
        BY DEF IInv, HolesSound, Holes
      <3>. QED
        BY <3>1, <3>2, SizeIsNat, SMT DEF Size
    <2>2. CASE PatchByte
      <3>1. PICK a \in Least(todo) :
              memory' = [memory EXCEPT ![a + 1] =
                (IF byte_expr[a].op = "-" THEN -Result ELSE Result) % ByteSize]
        BY <2>2 DEF PatchByte
      <3> DEFINE v == (IF byte_expr[a].op = "-" THEN -Result ELSE Result) % ByteSize
      <3>2. memory' = [memory EXCEPT ![a + 1] = v]
        BY <3>1
      <3> HIDE DEF v
      <3>3. a \in Nat /\ a \in DOMAIN byte_expr
        BY <2>2 DEF PatchByte, Least, IInv, TypeOK, TodoPending
      <3>4. c # a
        BY <3>3 DEF IInv, HolesSound
      <3>5. c + 1 # a + 1
        BY <2>1, <3>3, <3>4, SMT
      <3>. QED
        BY <2>1, <3>2, <3>5
    <2>3. CASE PatchWord
      <3>1. PICK a \in Least(todo) :
              memory' = [memory EXCEPT ![a + 1] = Result % ByteSize,
                                       ![a + 2] = Result \div ByteSize]
        BY <2>3 DEF PatchWord
      <3> DEFINE v == Result % ByteSize
                 w == Result \div ByteSize
      <3>2. memory' = [memory EXCEPT ![a + 1] = v, ![a + 2] = w]
        BY <3>1
      <3> HIDE DEF v, w
      <3>3. a \in Nat /\ a \in DOMAIN word_expr
        BY <2>3 DEF PatchWord, Least, IInv, TypeOK, TodoPending
      <3>4. c # a /\ c # a + 1
        BY <3>3 DEF IInv, HolesSound, WordCells
      <3>5. c + 1 # a + 1 /\ c + 1 # a + 2
        BY <2>1, <3>3, <3>4, SMT
      <3>. QED
        BY <2>1, <3>2, <3>5
    <2>. QED
      BY <2>2, <2>3
  <1>4. Landed'
    BY <1>1, <1>3 DEF Landed, Settled, Lands, Named
  <1>. QED
    BY <1>2, <1>4

LEMMA NextLoopLands ==
  ASSUME IInv, Landed, NextLoop PROVE Evaluated' /\ Landed'
  <1>1. /\ todo = {} /\ phase \in Patching /\ phase' \in {"byte", "word", "check"}
        /\ UNCHANGED <<relative, org, memory, label, rel_addr>>
    BY DEF NextLoop, Patching, input, program, symbols, fixups
  <1>2. Evaluated'
    BY <1>1 DEF Evaluated
  <1>3. Settled' = Settled
    BY <1>1 DEF Settled, Patching
  <1>. QED
    BY <1>1, <1>2, <1>3 DEF Landed, Lands, Named

\* While the text is read nothing is settled.
LEMMA ParsingLands ==
  ASSUME Parsing \/ ReturnEqu PROVE Evaluated' /\ Landed'
  <1>1. CASE StartFixups
    <2>1. Settled' = {} /\ pos' = 0
      BY <1>1 DEF StartFixups, Settled, fixups
    <2>. QED
      BY <2>1 DEF Evaluated, Landed
  <1>2. CASE ~StartFixups
    <2>1. phase' \in {"line", "body", "opcode", "equ", "error"}
      BY <1>2 DEF Parsing, DefineLabel, EmptyLine, RejectLine, CallEqu, SetOrg, PushOpcode,
         AccountCode, PushDbItem, AccountDb, ReserveDs, PushDwItem, AccountDw, ReturnEqu,
         AtBody, NextLine, Fail
    <2>. QED
      BY <2>1 DEF Evaluated, Landed, Settled
  <1>. QED
    BY <1>1, <1>2

LEMMA LandedStep ==
  IInv /\ Evaluated /\ Landed /\ [Next]_vars => Evaluated' /\ Landed'
  <1> SUFFICES ASSUME IInv, Evaluated, Landed, [Next]_vars PROVE Evaluated' /\ Landed'
    OBVIOUS
  <1>1. CASE CheckLimit
    <2>1. /\ phase' \in {"done", "error"} /\ phase = "check"
          /\ UNCHANGED <<relative, org, memory, label, rel_addr>>
      BY <1>1 DEF CheckLimit, input, program, symbols, fixups
    <2>. QED
      BY <2>1 DEF Evaluated, Landed, Settled, Lands, Named
  <1>2. CASE UNCHANGED vars
    BY <1>2 DEF vars, Evaluated, Landed, Settled, Lands, Named, Top
  <1>. QED
    BY <1>1, <1>2, ParsingLands, EvaluatingLands, PatchRelLands, LaterLoopLands, NextLoopLands
    DEF Next, FixingUp, Ended

-----------------------------------------------------------------------------
(* The theorem about the jumps. *)

\* Absolute mode: the displacement stored for a jump to a label leads from the
\* end of the jump to the label, wherever the ORG of the text stands.
THEOREM JumpsLand == Spec => []RelativeLandsOnTarget
  <1>1. Init => Evaluated /\ Landed
    BY DEF Init, Fresh, Evaluated, Landed, Settled
  <1>2. Landed => RelativeLandsOnTarget
    BY DEF Landed, Settled, Lands, Named, RelativeLandsOnTarget
  <1>. QED
    BY <1>1, <1>2, LandedStep, Invariance, PTL DEF Spec
=============================================================================
