--------------------------- MODULE Literals_proofs ---------------------------
(***************************************************************************)
(* What the literals share is _integer, which keeps what the last one left *)
(* and is cut to its width by each assignment.  For every set of literals, *)
(* of any length and in any number, and every width of a byte: no          *)
(* literal's value is the one of another, exactly the ones named have the  *)
(* value they are written as, and a character is itself in a byte.         *)
(***************************************************************************)
EXTENDS Literals, Data_proofs

-----------------------------------------------------------------------------
(* What digits write. *)

\* n[k] is what the first k digits write.
Writes(n, digits, base) ==
  /\ n \in [0 .. Len(digits) -> Nat] /\ n[0] = 0
  /\ \A k \in 1 .. Len(digits) : n[k] = n[k - 1] * base + digits[k]

LEMMA NumberIs ==
  ASSUME NEW digits \in Seq(Nat), NEW base \in Nat
  PROVE  \E n : Writes(n, digits, base) /\ Number(digits, base) = n[Len(digits)]
  <1> DEFINE L == Len(digits)
             Def(n) == [k \in 0 .. L |-> IF k = 0 THEN 0 ELSE n[k - 1] * base + digits[k]]
             next == [k \in 1 .. L |-> [x \in Nat |-> x * base + digits[k]]]
             c == CHOOSE n : n = Def(n)
  <1>1. L \in Nat /\ 0 \in Nat
    OBVIOUS
  <1>2. next \in [1 .. L -> [Nat -> Nat]]
    <2> SUFFICES ASSUME NEW k \in 1 .. L, NEW x \in Nat PROVE x * base + digits[k] \in Nat
      OBVIOUS
    <2>1. digits[k] \in Nat /\ x * base \in Nat
      OBVIOUS
    <2>. QED
      BY <2>1
  <1>3. PICK g : Iterates(g, L, Nat, 0, next)
    <2> HIDE DEF L, next
    <2>. QED
      BY <1>1, <1>2, Recursion, Zenon
  <1>4. \A k \in 1 .. L : g[k] = g[k - 1] * base + digits[k]
    <2> SUFFICES ASSUME NEW k \in 1 .. L PROVE g[k] = g[k - 1] * base + digits[k]
      OBVIOUS
    <2>1. g[k] = next[k][g[k - 1]] /\ g[k - 1] \in Nat
      <3> HIDE DEF next, L
      <3>1. k - 1 \in 0 .. L
        BY <1>1
      <3>. QED
        BY <1>3, <3>1 DEF Iterates
    <2>. QED
      BY <2>1
  <1>5. g \in [0 .. L -> Nat] /\ g[0] = 0
    BY <1>3 DEF Iterates
  <1>6. g = Def(g)
    <2>1. \A k \in 0 .. L : g[k] = IF k = 0 THEN 0 ELSE g[k - 1] * base + digits[k]
      BY <1>4, <1>5
    <2>. QED
      BY <1>5, <2>1
  <1>7. c = Def(c)
    <2> HIDE DEF Def
    <2>. QED
      BY <1>6
  <1>8. \A k \in 0 .. L : c[k] = IF k = 0 THEN 0 ELSE c[k - 1] * base + digits[k]
    <2>1. \A k \in 0 .. L : Def(c)[k] = IF k = 0 THEN 0 ELSE c[k - 1] * base + digits[k]
      BY Zenon
    <2> HIDE DEF c, Def
    <2>. QED
      BY <1>7, <2>1, Zenon
  <1>9. c[0] = 0 /\ \A k \in 1 .. L : c[k] = c[k - 1] * base + digits[k]
    <2> HIDE DEF c
    <2>. QED
      BY <1>1, <1>8
  <1>10. \A k \in 0 .. L : c[k] = g[k]
    <2> DEFINE Q == {k \in 0 .. L : c[k] = g[k]}
    <2> HIDE DEF c, L
    <2>1. 0 \in Q
      BY <1>1, <1>5, <1>9
    <2>2. ASSUME NEW k \in 0 .. L - 1, k \in Q PROVE k + 1 \in Q
      <3>1. k + 1 \in 1 .. L /\ (k + 1) - 1 = k
        BY <1>1
      <3>2. c[k + 1] = c[k] * base + digits[k + 1] /\ g[k + 1] = g[k] * base + digits[k + 1]
        BY <1>4, <1>9, <3>1
      <3>. QED
        BY <2>2, <3>1, <3>2
    <2>3. \A k \in 0 .. L : k \in Q
      <3> HIDE DEF Q
      <3>. QED
        BY <1>1, <2>1, <2>2, BoundedInduction
    <2>. QED
      BY <2>3
  <1>11. Number(digits, base) = c[L]
    BY Zenon DEF Number
  <1>12. Number(digits, base) = g[L]
    <2> HIDE DEF c, L
    <2>. QED
      BY <1>1, <1>10, <1>11
  <1>13. Writes(g, digits, base)
    BY <1>4, <1>5 DEF Writes
  <1>. QED
    BY <1>12, <1>13

LEMMA NumberType ==
  ASSUME NEW digits \in Seq(Nat), NEW base \in Nat
  PROVE  Number(digits, base) \in Nat
  <1>1. PICK n : Writes(n, digits, base) /\ Number(digits, base) = n[Len(digits)]
    BY NumberIs
  <1>2. Len(digits) \in 0 .. Len(digits)
    OBVIOUS
  <1>. QED
    BY <1>1, <1>2 DEF Writes

LEMMA AsSequence ==
  ASSUME NEW n \in Nat, NEW S, S \subseteq Nat, NEW digits \in [1 .. n -> S]
  PROVE  digits \in Seq(Nat) /\ Len(digits) = n
  <1>1. digits \in [1 .. n -> Nat]
    OBVIOUS
  <1>2. digits \in Seq(Nat)
    BY <1>1
  <1>. QED
    BY <1>1, <1>2

\* Eight binary digits fit a byte.
LEMMA EightBits ==
  ASSUME NEW digits \in [1 .. 8 -> 0 .. 1]
  PROVE  Number(digits, 2) \in 0 .. 255
  <1>1. digits \in Seq(Nat) /\ Len(digits) = 8
    <2>1. 8 \in Nat /\ 0 .. 1 \subseteq Nat
      OBVIOUS
    <2>. QED
      BY <2>1, AsSequence, Zenon
  <1>2. PICK n : Writes(n, digits, 2) /\ Number(digits, 2) = n[Len(digits)]
    BY <1>1, NumberIs
  <1>3. \A k \in 1 .. 8 : n[k] = n[k - 1] * 2 + digits[k] /\ digits[k] \in 0 .. 1
    BY <1>1, <1>2 DEF Writes
  <1>4. n[0] = 0
    BY <1>2 DEF Writes
  <1>5. n[1] \in 0 .. 1 /\ 1 - 1 = 0
    BY <1>3, <1>4
  <1>6. n[2] \in 0 .. 3 /\ 2 - 1 = 1
    BY <1>3, <1>5
  <1>7. n[3] \in 0 .. 7 /\ 3 - 1 = 2
    BY <1>3, <1>6
  <1>8. n[4] \in 0 .. 15 /\ 4 - 1 = 3
    BY <1>3, <1>7
  <1>9. n[5] \in 0 .. 31 /\ 5 - 1 = 4
    BY <1>3, <1>8
  <1>10. n[6] \in 0 .. 63 /\ 6 - 1 = 5
    BY <1>3, <1>9
  <1>11. n[7] \in 0 .. 127 /\ 7 - 1 = 6
    BY <1>3, <1>10
  <1>12. n[8] \in 0 .. 255 /\ 8 - 1 = 7
    BY <1>3, <1>11
  <1>. QED
    BY <1>1, <1>2, <1>12

LEMMA ThreeDigits ==
  ASSUME NEW digits \in [1 .. 3 -> 0 .. 9]
  PROVE  Number(digits, 8) = 64 * digits[1] + 8 * digits[2] + digits[3]
  <1>1. digits \in Seq(Nat) /\ Len(digits) = 3
    <2>1. 3 \in Nat /\ 0 .. 9 \subseteq Nat
      OBVIOUS
    <2>. QED
      BY <2>1, AsSequence, Zenon
  <1>2. PICK n : Writes(n, digits, 8) /\ Number(digits, 8) = n[Len(digits)]
    BY <1>1, NumberIs
  <1>3. \A k \in 1 .. 3 : n[k] = n[k - 1] * 8 + digits[k] /\ digits[k] \in 0 .. 9
    BY <1>1, <1>2 DEF Writes
  <1>4. n[0] = 0
    BY <1>2 DEF Writes
  <1>5. n[1] = digits[1] /\ digits[1] \in Nat
    BY <1>3, <1>4
  <1>6. n[2] = 8 * digits[1] + digits[2] /\ digits[2] \in Nat
    BY <1>3, <1>5
  <1>7. n[3] = 64 * digits[1] + 8 * digits[2] + digits[3]
    BY <1>3, <1>5, <1>6
  <1>. QED
    BY <1>1, <1>2, <1>7

LEMMA TwoDigits ==
  ASSUME NEW digits \in [1 .. 2 -> 0 .. 15]
  PROVE  Number(digits, 16) = 16 * digits[1] + digits[2]
  <1>1. digits \in Seq(Nat) /\ Len(digits) = 2
    <2>1. 2 \in Nat /\ 0 .. 15 \subseteq Nat
      OBVIOUS
    <2>. QED
      BY <2>1, AsSequence, Zenon
  <1>2. PICK n : Writes(n, digits, 16) /\ Number(digits, 16) = n[Len(digits)]
    BY <1>1, NumberIs
  <1>3. \A k \in 1 .. 2 : n[k] = n[k - 1] * 16 + digits[k] /\ digits[k] \in 0 .. 15
    BY <1>1, <1>2 DEF Writes
  <1>4. n[0] = 0
    BY <1>2 DEF Writes
  <1>5. n[1] = digits[1] /\ digits[1] \in Nat
    BY <1>3, <1>4
  <1>6. n[2] = 16 * digits[1] + digits[2]
    BY <1>3, <1>5
  <1>. QED
    BY <1>1, <1>2, <1>6

-----------------------------------------------------------------------------
(* The invariant. *)

Words == 0 .. WordSize - 1

\* Literals whose action assigns _integer, and assigns it a number the language
\* defines.
Owned(l) ==
  /\ l.t \notin {"capital", "lone x"}
  /\ l.t = "integer" => ~Misread(l)

\* What the action of an owned literal assigns.
Converted(l) ==
  CASE l.t = "binary" -> ToLong(l.digits, 2) % ByteSize
    [] l.t = "hex" -> ToLong(l.digits, 16) % WordSize
    [] l.t = "integer" -> Number(l.digits, 10) % WordSize
    [] l.t = "char" -> Char(l.code) % WordSize
    [] l.t = "letter" -> Code(l.letter)
    [] l.t = "self" -> l.code
    [] l.t = "number" -> FromDigits(l.digits) % WordSize
    [] l.t = "x" -> FromHexDigits(l.codes) % WordSize

Recorded ==
  /\ read \in Seq(Literals) /\ values \in Seq(Words) /\ Len(values) = Len(read)
  /\ integer \in Words

ConvertedAlone ==
  \A k \in 1 .. Len(read) : Owned(read[k]) => values[k] = Converted(read[k])

-----------------------------------------------------------------------------
(* The steps. *)

\* The number of an int literal in range is the only one atoi can give.
LEMMA IntegerAlone ==
  ASSUME NEW l, l.t = "integer", Owned(l)
  PROVE  ToInt(l.digits) = {Number(l.digits, 10)}
  <1>1. ~(Number(l.digits, 10) >= IntLimit)
    BY DEF Owned, Misread, Meaning
  <1>. QED
    BY <1>1 DEF ToInt

LEMMA Widths ==
  /\ ByteSize \in Nat /\ WordSize \in Nat /\ ByteSize <= WordSize /\ ByteSize >= 256
  /\ WordSize >= 512
  <1>1. ByteSize * ByteSize >= ByteSize * 256
    BY WidthAssumption, SMT
  <1>. QED
    BY <1>1, WidthAssumption, SMT

LEMMA CutToWord ==
  ASSUME NEW x \in Int
  PROVE  x % WordSize \in Words
  BY Widths DEF Words

LEMMA ToLongType ==
  ASSUME NEW digits \in Seq(Nat), NEW base \in Nat
  PROVE  ToLong(digits, base) \in Int
  BY NumberType, WidthAssumption DEF ToLong, Least

LEMMA ToIntType ==
  ASSUME NEW digits \in Seq(Nat)
  PROVE  ToInt(digits) \subseteq Int
  <1>1. Number(digits, 10) \in Nat /\ ToLong(digits, 10) \in Int
    <2>1. 10 \in Nat
      OBVIOUS
    <2>. QED
      BY <2>1, NumberType, ToLongType, Zenon
  <1>2. IntLimit - 1 \in Int
    BY WidthAssumption
  <1>. QED
    BY <1>1, <1>2 DEF ToInt

LEMMA HexDigitType ==
  ASSUME NEW c \in 0 .. ByteSize - 1
  PROVE  HexDigit(c) \in Int
  BY Widths DEF HexDigit, Char

LEMMA FromHexDigitsType ==
  ASSUME NEW c \in 0 .. ByteSize - 1, NEW d \in 0 .. ByteSize - 1
  PROVE  FromHexDigits(<<c, d>>) \in Int
  BY HexDigitType DEF FromHexDigits

LEMMA DigitsType ==
  ASSUME NEW l, IsLiteral(l), l.t \in {"binary", "hex", "integer", "number"}
  PROVE  l.digits \in Seq(Nat)
  <1>1. CASE l.t = "binary"
    <2>1. 8 \in Nat /\ 0 .. 1 \subseteq Nat /\ l.digits \in [1 .. 8 -> 0 .. 1]
      BY <1>1 DEF IsLiteral
    <2>. QED
      BY <2>1, AsSequence, Zenon
  <1>2. CASE l.t = "number"
    <2>1. 3 \in Nat /\ 0 .. 9 \subseteq Nat /\ l.digits \in [1 .. 3 -> 0 .. 9]
      BY <1>2 DEF IsLiteral
    <2>. QED
      BY <2>1, AsSequence, Zenon
  <1>3. CASE l.t \in {"hex", "integer"}
    <2>1. l.digits \in Seq(0 .. 15) \/ l.digits \in Seq(0 .. 9)
      BY <1>3 DEF IsLiteral
    <2>. QED
      BY <2>1
  <1>. QED
    BY <1>1, <1>2, <1>3

LEMMA TenTimes == ASSUME NEW d \in Int, NEW e \in Int PROVE d * 10 + e \in Int
  OBVIOUS

\* Whatever an action assigns is a word.
LEMMA ConvertedWord ==
  ASSUME NEW l, IsLiteral(l), l.t \notin {"capital", "lone x"}
  PROVE  Converted(l) \in Words
  <1>1. CASE l.t = "binary"
    <2>1. ToLong(l.digits, 2) \in Int
      BY <1>1, DigitsType, ToLongType
    <2>. QED
      BY <1>1, <2>1, Widths DEF Converted, Words
  <1>2. CASE l.t = "hex"
    <2>1. ToLong(l.digits, 16) \in Int
      BY <1>2, DigitsType, ToLongType
    <2>. QED
      BY <1>2, <2>1, CutToWord DEF Converted
  <1>3. CASE l.t = "integer"
    <2>1. Number(l.digits, 10) \in Int
      BY <1>3, DigitsType, NumberType
    <2>. QED
      BY <1>3, <2>1, CutToWord DEF Converted
  <1>4. CASE l.t = "char"
    <2>1. Char(l.code) \in Int
      BY <1>4, Widths DEF IsLiteral, Char
    <2>. QED
      BY <1>4, <2>1, CutToWord DEF Converted
  <1>5. CASE l.t = "self"
    BY <1>5, Widths DEF IsLiteral, Converted, Words
  <1>6. CASE l.t = "letter"
    <2>1. Code(l.letter) \in 7 .. 27
      BY <1>6 DEF IsLiteral, Letters, Code
    <2>. QED
      BY <1>6, <2>1, Widths DEF Converted, Words
  <1>7. CASE l.t = "number"
    <2>1. FromDigits(l.digits) \in Int
      BY <1>7 DEF IsLiteral, FromDigits
    <2>. QED
      BY <1>7, <2>1, CutToWord DEF Converted
  <1>8. CASE l.t = "x"
    <2>1. l.codes[1] \in 0 .. ByteSize - 1 /\ l.codes[2] \in 0 .. ByteSize - 1
      BY <1>8, Widths DEF IsLiteral, HexCodes
    <2>2. HexDigit(l.codes[1]) \in Int /\ HexDigit(l.codes[2]) \in Int
      BY <2>1, HexDigitType, Zenon
    <2>3. FromHexDigits(l.codes) \in Int
      <3>1. HexDigit(l.codes[1]) * 10 + HexDigit(l.codes[2]) \in Int
        BY <2>2, TenTimes, Zenon
      <3>. QED
        BY <3>1, Zenon DEF FromHexDigits
    <2>. QED
      BY <1>8, <2>3, CutToWord DEF Converted
  <1>. QED
    BY <1>1, <1>2, <1>3, <1>4, <1>5, <1>6, <1>7, <1>8 DEF IsLiteral

\* What one reduction leaves.
LEMMA ReducesTo ==
  ASSUME Recorded, Next, ~Ended
  PROVE  \E l \in Literals, i \in Words :
           Reduce(l, i) /\ (Owned(l) => i = Converted(l))
  <1>1. PICK l \in Literals :
          \/ ReadBinary(l) \/ ReadHex(l) \/ ReadInteger(l) \/ ReadChar(l) \/ ReadLetter(l)
          \/ ReadSelf(l) \/ ReadNumber(l) \/ ReadX(l) \/ ReadLoneX(l) \/ ReadCapital(l)
    BY DEF Next
  <1>2. IsLiteral(l)
    BY LiteralAssumption
  <1>3. CASE Reduce(l, Converted(l)) /\ l.t \notin {"capital", "lone x"}
    BY <1>2, <1>3, ConvertedWord
  <1>4. CASE ReadInteger(l)
    <2>1. l.t = "integer"
      BY <1>4 DEF ReadInteger
    <2>2. PICK n \in ToInt(l.digits) : Reduce(l, n % WordSize)
      BY <1>4 DEF ReadInteger
    <2>3. n % WordSize \in Words
      BY <1>2, <2>1, <2>2, DigitsType, ToIntType, CutToWord
    <2>4. Owned(l) => n % WordSize = Converted(l)
      BY <2>1, <2>2, IntegerAlone DEF Converted
    <2>. QED
      BY <2>2, <2>3, <2>4
  <1>5. CASE ReadLoneX(l)
    <2>1. l.t = "lone x"
      BY <1>5 DEF ReadLoneX
    <2>2. PICK c \in Following : Reduce(l, FromHexDigits(<<Quote, c>>) % WordSize)
      BY <1>5 DEF ReadLoneX
    <2> DEFINE i == FromHexDigits(<<Quote, c>>) % WordSize
    <2>3. i \in Words
      <3>1. c \in 0 .. ByteSize - 1 /\ Quote \in 0 .. ByteSize - 1
        BY LiteralAssumption, Widths DEF Quote
      <3>. QED
        BY <3>1, FromHexDigitsType, CutToWord
    <2>4. ~Owned(l) /\ Reduce(l, i)
      BY <2>1, <2>2 DEF Owned
    <2> HIDE DEF i
    <2>. QED
      BY <2>3, <2>4
  <1>6. CASE ReadCapital(l)
    BY <1>6 DEF ReadCapital, Owned, Recorded
  <1>7. ReadBinary(l) \/ ReadHex(l) \/ ReadChar(l) \/ ReadLetter(l) \/ ReadSelf(l)
        \/ ReadNumber(l) \/ ReadX(l)
        => Reduce(l, Converted(l)) /\ l.t \notin {"capital", "lone x"}
    BY DEF ReadBinary, ReadHex, ReadChar, ReadLetter, ReadSelf, ReadNumber, ReadX, Converted
  <1>. QED
    BY <1>1, <1>3, <1>4, <1>5, <1>6, <1>7

LEMMA ReadingStep ==
  Recorded /\ ConvertedAlone /\ [Next]_vars => Recorded' /\ ConvertedAlone'
  <1> SUFFICES ASSUME Recorded, ConvertedAlone, [Next]_vars
               PROVE  Recorded' /\ ConvertedAlone'
    OBVIOUS
  <1>1. CASE UNCHANGED vars
    BY <1>1 DEF vars, Recorded, ConvertedAlone
  <1>2. CASE Next /\ ~Ended
    <2>1. PICK l \in Literals, i \in Words :
            Reduce(l, i) /\ (Owned(l) => i = Converted(l))
      BY <1>2, ReducesTo
    <2>2. /\ read' = Append(read, l) /\ values' = Append(values, i) /\ integer' = i
          /\ read \in Seq(Literals) /\ values \in Seq(Words) /\ Len(values) = Len(read)
      BY <2>1 DEF Reduce, Recorded
    <2>3. Recorded'
      BY <2>1, <2>2 DEF Recorded
    <2>4. ASSUME NEW k \in 1 .. Len(read'), Owned(read'[k])
          PROVE  values'[k] = Converted(read'[k])
      <3>1. CASE k \in 1 .. Len(read)
        <4>1. read'[k] = read[k] /\ values'[k] = values[k]
          BY <2>2, <3>1
        <4>. QED
          BY <2>4, <3>1, <4>1 DEF ConvertedAlone
      <3>2. CASE k = Len(read) + 1
        <4>1. read'[k] = l /\ values'[k] = i
          BY <2>2, <3>2
        <4>. QED
          BY <2>1, <2>4, <4>1
      <3>. QED
        BY <2>2, <3>1, <3>2
    <2>. QED
      BY <2>3, <2>4 DEF ConvertedAlone
  <1>. QED
    BY <1>1, <1>2 DEF Ended

LEMMA Reading == Spec => [](Recorded /\ ConvertedAlone)
  <1>1. Init => Recorded /\ ConvertedAlone
    <2> SUFFICES ASSUME Init PROVE Recorded /\ ConvertedAlone
      OBVIOUS
    <2>1. integer \in Words
      BY Widths DEF Init, Words
    <2>. QED
      BY <2>1 DEF Init, Recorded, ConvertedAlone
  <1>. QED
    BY <1>1, ReadingStep, PTL DEF Spec

-----------------------------------------------------------------------------
(* The theorems. *)

LEMMA ReadDomain == ASSUME Recorded PROVE DOMAIN read = 1 .. Len(read)
  BY DEF Recorded

\* The value of a literal is its own: _integer keeps what the last literal left,
\* and no literal but an escape in capitals reads it.
THEOREM ValuesOwn == Spec => []ValueIsOwn
  <1>1. Recorded /\ ConvertedAlone => ValueIsOwn
    <2> SUFFICES ASSUME Recorded, ConvertedAlone,
                        NEW j \in DOMAIN read, NEW k \in DOMAIN read,
                        read[j] = read[k], read[k].t \notin {"capital", "lone x"},
                        read[k].t = "integer" => ~Misread(read[k])
                 PROVE  values[j] = values[k]
      BY DEF ValueIsOwn
    <2>1. j \in 1 .. Len(read) /\ k \in 1 .. Len(read)
      BY ReadDomain, Zenon
    <2>2. Owned(read[j]) /\ Owned(read[k])
      BY DEF Owned
    <2>. QED
      BY <2>1, <2>2 DEF ConvertedAlone
  <1>. QED
    BY <1>1, Reading, PTL

\* _integer is a uint16_t whatever is read, and so is every value.
THEOREM Typed == Spec => []TypeOK
  <1>1. Recorded => TypeOK
    BY DEF Recorded, TypeOK, Words
  <1>. QED
    BY <1>1, Reading, PTL

LEMMA HexDigitIs ==
  ASSUME NEW c \in HexCodes, NEW d \in 0 .. 15
  PROVE  IsHexDigit(c, d) <=> d = HexDigit(c)
  BY Widths, WidthAssumption DEF HexCodes, HexDigit, Char, IsHexDigit

\* The two characters after \x, as C reads them and as the loop does.
LEMMA HexEscape ==
  ASSUME NEW codes \in [1 .. 2 -> HexCodes]
  PROVE  \E d \in 0 .. 15, e \in 0 .. 15 :
           /\ Number(HexDigits(codes), 16) = 16 * d + e
           /\ FromHexDigits(codes) = 10 * d + e
           /\ codes[1] = 48 <=> d = 0
  <1> DEFINE h == HexDigits(codes)
  <1>1. ASSUME NEW k \in 1 .. 2
        PROVE  HexDigit(codes[k]) \in 0 .. 15 /\ h[k] = HexDigit(codes[k])
    <2>1. codes[k] \in HexCodes
      OBVIOUS
    <2>2. HexDigit(codes[k]) \in 0 .. 15
      BY <2>1, Widths, WidthAssumption DEF HexCodes, HexDigit, Char
    <2>3. h[k] = CHOOSE d \in 0 .. 15 : IsHexDigit(codes[k], d)
      BY DEF HexDigits
    <2>4. \A d \in 0 .. 15 : IsHexDigit(codes[k], d) <=> d = HexDigit(codes[k])
      BY <2>1, HexDigitIs
    <2> HIDE DEF h
    <2>. QED
      BY <2>2, <2>3, <2>4
  <1>2. h \in [1 .. 2 -> 0 .. 15]
    <2>1. h = [k \in 1 .. 2 |-> h[k]]
      BY DEF HexDigits
    <2> HIDE DEF h
    <2>. QED
      BY <1>1, <2>1
  <1>3. Number(h, 16) = 16 * h[1] + h[2]
    <2> HIDE DEF h
    <2>. QED
      BY <1>2, TwoDigits
  <1>4. FromHexDigits(codes) = 10 * h[1] + h[2]
    <2>1. h[1] \in 0 .. 15 /\ h[2] \in 0 .. 15
      BY <1>2
    <2>2. h[1] = HexDigit(codes[1]) /\ h[2] = HexDigit(codes[2])
      BY <1>1
    <2> HIDE DEF h
    <2>. QED
      BY <2>1, <2>2 DEF FromHexDigits
  <1>5. codes[1] = 48 <=> h[1] = 0
    <2>1. h[1] = HexDigit(codes[1]) /\ codes[1] \in HexCodes
      BY <1>1
    <2> HIDE DEF h
    <2>. QED
      BY <2>1, Widths, WidthAssumption DEF HexCodes, HexDigit, Char
  <1>6. h[1] \in 0 .. 15 /\ h[2] \in 0 .. 15
    BY <1>2
  <1> HIDE DEF h
  <1>7. \E d \in 0 .. 15, e \in 0 .. 15 :
           /\ Number(h, 16) = 16 * d + e
           /\ FromHexDigits(codes) = 10 * d + e
           /\ codes[1] = 48 <=> d = 0
    BY <1>3, <1>4, <1>5, <1>6
  <1>. QED
    BY <1>7 DEF h

\* Three digits, as C reads them and as the loop does: the same where they are
\* the same digit, and there only.
LEMMA OctalEscape ==
  ASSUME NEW digits \in [1 .. 3 -> 0 .. 9], \A k \in 1 .. 3 : digits[k] <= 7
  PROVE  /\ FromDigits(digits) \in 0 .. 511 /\ Number(digits, 8) \in 0 .. 511
         /\ FromDigits(digits) = Number(digits, 8)
            <=> Cardinality({digits[k] : k \in 1 .. 3}) <= 1
  <1> DEFINE a == digits[1]  b == digits[2]  c == digits[3]
             D == {digits[k] : k \in 1 .. 3}
  <1>1. a \in 0 .. 7 /\ b \in 0 .. 7 /\ c \in 0 .. 7
    OBVIOUS
  <1>2. Number(digits, 8) = 64 * a + 8 * b + c
    BY ThreeDigits
  <1>3. FromDigits(digits) = 73 * a
    BY <1>1 DEF FromDigits
  <1>4. D = {a, b, c}
    OBVIOUS
  <1> HIDE DEF a, b, c, D
  <1>5. 73 * a = 64 * a + 8 * b + c <=> a = b /\ b = c
    BY <1>1
  <1>6. CASE a = b /\ b = c
    <2>1. D = {a}
      BY <1>4, <1>6
    <2>2. Cardinality(D) = 1
      BY <2>1, FS_Singleton
    <2>. QED
      BY <1>1, <1>2, <1>3, <1>5, <1>6, <2>2 DEF D
  <1>7. CASE ~(a = b /\ b = c)
    <2>1. IsFiniteSet(D) /\ Cardinality(D) \in Nat
      <3>1. IsFiniteSet(0 .. 7)
        <4>1. 0 \in Int /\ 7 \in Int
          OBVIOUS
        <4>. QED
          BY <4>1, FS_Interval, Zenon
      <3>2. D \subseteq 0 .. 7
        BY <1>1, <1>4
      <3>. QED
        BY <3>1, <3>2, FS_Subset, FS_CardinalityType
    <2>2. ~(Cardinality(D) <= 1)
      <3>1. SUFFICES ASSUME Cardinality(D) <= 1 PROVE FALSE
        OBVIOUS
      <3>2. Cardinality(D) = 0 \/ Cardinality(D) = 1
        BY <2>1, <3>1
      <3>3. D # {}
        BY <1>4
      <3>4. PICK x : D = {x}
        BY <2>1, <3>2, <3>3, FS_EmptySet, FS_Singleton
      <3>. QED
        BY <1>4, <1>7, <3>4
    <2>. QED
      BY <1>1, <1>2, <1>3, <1>5, <1>7, <2>2 DEF D
  <1>. QED
    BY <1>6, <1>7

\* What the action of a literal assigns is what is written, but where it is
\* misread; and an escape or a character that is misread is another value.
LEMMA ConvertedAsWritten ==
  ASSUME NEW l, IsLiteral(l), ~Meaningless(l)
  PROVE  /\ ~Misread(l) => Converted(l) = Meaning(l) % WordSize
         /\ Misread(l) /\ l.t \in {"number", "x", "char"}
              => Converted(l) # Meaning(l) % WordSize
  <1>1. CASE l.t = "binary"
    <2>1. Number(l.digits, 2) \in 0 .. 255
      BY <1>1, EightBits DEF IsLiteral
    <2>2. ToLong(l.digits, 2) = Number(l.digits, 2)
      <3>1. Number(l.digits, 2) <= LongLimit - 1
        BY <2>1, Widths, WidthAssumption
      <3>. QED
        BY <2>1, <3>1, WidthAssumption DEF ToLong, Least
    <2>3. Converted(l) = ToLong(l.digits, 2) % ByteSize /\ Meaning(l) = Number(l.digits, 2)
      BY <1>1 DEF Converted, Meaning
    <2>4. \A n \in 0 .. 255 : n % ByteSize = n % WordSize
      BY Widths
    <2>5. Converted(l) = Meaning(l) % WordSize
      BY <2>1, <2>2, <2>3, <2>4, Zenon
    <2>. QED
      BY <1>1, <2>5
  <1>2. CASE l.t = "hex"
    <2>1. Number(l.digits, 16) \in Nat
      <3>1. 16 \in Nat
        OBVIOUS
      <3>. QED
        BY <1>2, <3>1, DigitsType, NumberType
    <2>2. Meaning(l) = Number(l.digits, 16)
      BY <1>2 DEF Meaning
    <2>3. ~Misread(l) => ToLong(l.digits, 16) = Number(l.digits, 16)
      BY <1>2, <2>1, <2>2, WidthAssumption DEF ToLong, Least, Misread
    <2>. QED
      BY <1>2, <2>2, <2>3 DEF Converted
  <1>3. CASE l.t = "integer"
    BY <1>3 DEF Converted, Meaning
  <1>4. CASE l.t = "char"
    <2> DEFINE h == ByteSize \div 2
    <2>1. l.code \in 0 .. ByteSize - 1 /\ h \in Nat /\ Meaning(l) = l.code
      BY <1>4, Widths DEF IsLiteral, Meaning
    <2>2. Misread(l) <=> l.code >= h
      BY <1>4 DEF Misread
    <2>3. Converted(l) = Char(l.code) % WordSize
      BY <1>4 DEF Converted
    <2>4. Char(l.code) = IF l.code < h THEN l.code ELSE l.code - ByteSize
      BY DEF Char
    <2>5. ByteSize < WordSize
      BY WidthAssumption, Widths
    <2> HIDE DEF h
    <2>6. CASE l.code < h
      BY <2>1, <2>2, <2>3, <2>4, <2>6
    <2>7. CASE l.code >= h
      <3>1. Char(l.code) = l.code - ByteSize
        BY <2>1, <2>4, <2>7
      <3>2. (l.code - ByteSize) % WordSize = l.code - ByteSize + WordSize
        BY <2>1, <2>5, Widths
      <3>3. l.code % WordSize = l.code
        BY <2>1, <2>5, Widths
      <3>. QED
        BY <1>4, <2>1, <2>2, <2>3, <2>5, <2>7, <3>1, <3>2, <3>3, Widths
    <2>. QED
      BY <2>1, <2>6, <2>7
  <1>5. CASE l.t = "self"
    BY <1>5, Widths DEF IsLiteral, Converted, Meaning
  <1>6. CASE l.t = "letter"
    <2>1. Code(l.letter) \in 7 .. 27
      BY <1>6 DEF IsLiteral, Letters, Code
    <2>2. Converted(l) = Code(l.letter) /\ Meaning(l) = Code(l.letter)
      BY <1>6 DEF Converted, Meaning
    <2>. QED
      BY <1>6, <2>1, <2>2, Widths
  <1>7. CASE l.t = "number"
    <2>1. l.digits \in [1 .. 3 -> 0 .. 9] /\ \A k \in 1 .. 3 : l.digits[k] <= 7
      BY <1>7 DEF IsLiteral, Meaningless
    <2> DEFINE n == Cardinality({l.digits[k] : k \in 1 .. 3})
               v == FromDigits(l.digits)
               m == Number(l.digits, 8)
    <2>2. v \in 0 .. 511 /\ m \in 0 .. 511 /\ (v = m <=> n <= 1)
      BY <2>1, OctalEscape
    <2>3. Converted(l) = v % WordSize /\ Meaning(l) = m /\ (Misread(l) <=> n > 1)
      BY <1>7 DEF Converted, Meaning, Misread
    <2>4. n \in Nat
      <3>1. IsFiniteSet(0 .. 9)
        <4>1. 0 \in Int /\ 9 \in Int
          OBVIOUS
        <4>. QED
          BY <4>1, FS_Interval, Zenon
      <3> DEFINE D == {l.digits[k] : k \in 1 .. 3}
      <3>2. D \subseteq 0 .. 9
        BY <2>1
      <3> HIDE DEF D
      <3>3. Cardinality(D) \in Nat
        BY <3>1, <3>2, FS_Subset, FS_CardinalityType
      <3>. QED
        BY <3>3 DEF D
    <2> HIDE DEF n, v, m
    <2>5. v % WordSize = v /\ m % WordSize = m
      BY <2>2, Widths
    <2>. QED
      BY <2>2, <2>3, <2>4, <2>5
  <1>8. CASE l.t = "x"
    <2>1. l.codes \in [1 .. 2 -> HexCodes]
      BY <1>8 DEF IsLiteral
    <2>2. PICK d \in 0 .. 15, e \in 0 .. 15 :
            /\ Number(HexDigits(l.codes), 16) = 16 * d + e
            /\ FromHexDigits(l.codes) = 10 * d + e
            /\ l.codes[1] = 48 <=> d = 0
      BY <2>1, HexEscape
    <2>3. Converted(l) = (10 * d + e) % WordSize /\ Meaning(l) = 16 * d + e
      BY <1>8, <2>2 DEF Converted, Meaning
    <2>4. Misread(l) <=> d # 0
      BY <1>8, <2>2 DEF Misread
    <2>5. (10 * d + e) % WordSize = 10 * d + e /\ (16 * d + e) % WordSize = 16 * d + e
      BY Widths
    <2>6. 10 * d + e = 16 * d + e <=> d = 0
      OBVIOUS
    <2>. QED
      BY <2>3, <2>4, <2>5, <2>6
  <1>. QED
    BY <1>1, <1>2, <1>3, <1>4, <1>5, <1>6, <1>7, <1>8 DEF IsLiteral, Meaningless

\* Which literals have the value they are written as, for every literal: those that
\* are not misread, and of the escapes and characters no other one.
THEOREM Written == Spec => []ValueAsWritten
  <1>1. Recorded /\ ConvertedAlone => ValueAsWritten
    <2> SUFFICES ASSUME Recorded, ConvertedAlone, NEW k \in DOMAIN read, ~Meaningless(read[k])
                 PROVE  /\ ~Misread(read[k]) => AsWritten(k)
                        /\ Misread(read[k]) /\ read[k].t \in {"number", "x", "char"}
                             => ~AsWritten(k)
      BY DEF ValueAsWritten
    <2>1. k \in 1 .. Len(read) /\ IsLiteral(read[k])
      <3>1. k \in 1 .. Len(read) /\ read[k] \in Literals
        BY DEF Recorded
      <3>. QED
        BY <3>1, LiteralAssumption
    <2>2. ~Misread(read[k]) \/ read[k].t \in {"number", "x", "char"} => Owned(read[k])
      BY DEF Owned, Meaningless
    <2>3. Owned(read[k]) => values[k] = Converted(read[k])
      BY <2>1 DEF ConvertedAlone
    <2>. QED
      BY <2>1, <2>2, <2>3, ConvertedAsWritten DEF AsWritten
  <1>. QED
    BY <1>1, Reading, PTL

\* Whole multiples of b make no difference to a remainder by b.
LEMMA Remainder ==
  ASSUME NEW k \in Nat, NEW b \in Nat \ {0}, NEW c \in 0 .. b - 1
  PROVE  (k * b + c) % b = c
  <1> DEFINE n == k * b + c
             q == n \div b
             r == n % b
  <1>1. n \in Nat
    BY SMT
  <1>2. q \in Int /\ r \in 0 .. b - 1 /\ n = b * q + r
    BY <1>1, SMT
  <1>3. n = b * k + c
    BY SMT
  <1> HIDE DEF n, q, r
  <1>4. b * (k - q) = r - c /\ -b < r - c /\ r - c < b
    BY <1>2, <1>3, SMT
  <1>5. CASE k - q >= 1
    <2>1. b * (k - q) >= b
      BY <1>2, <1>5, SMT
    <2>. QED
      BY <1>4, <1>2, <2>1, SMT
  <1>6. CASE k - q <= -1
    <2>1. b * (k - q) <= -b
      BY <1>2, <1>6, SMT
    <2>. QED
      BY <1>4, <1>2, <2>1, SMT
  <1>7. CASE k = q
    BY <1>2, <1>3, <1>7, SMT DEF r, n
  <1>. QED
    BY <1>2, <1>5, <1>6, <1>7, SMT

\* A signed character, widened to a word and cut to a byte.
LEMMA CharacterCut ==
  ASSUME NEW c \in 0 .. ByteSize - 1
  PROVE  (Char(c) % WordSize) % ByteSize = c
  <1> DEFINE h == ByteSize \div 2
  <1>1. ByteSize \in Nat /\ ByteSize > 1 /\ h \in Nat /\ ByteSize = h + h
    BY WidthAssumption, SMT
  <1>2. WordSize \in Nat /\ WordSize = (ByteSize - 1) * ByteSize + ByteSize
        /\ (ByteSize - 1) * ByteSize >= 0
    BY <1>1, WidthAssumption, SMT
  <1>3. CASE c < h
    <2>1. Char(c) = c
      BY <1>3 DEF Char
    <2>2. c % WordSize = c /\ c % ByteSize = c
      BY <1>1, <1>2, SMT
    <2>. QED
      BY <2>1, <2>2
  <1>4. CASE ~(c < h)
    <2>1. Char(c) = c - ByteSize
      BY <1>4 DEF Char
    <2> DEFINE m == (ByteSize - 1) * ByteSize
    <2>2. (c - ByteSize) % WordSize = m + c
      <3>1. m + c = c - ByteSize + WordSize /\ m + c \in Nat /\ m + c < WordSize
        BY <1>1, <1>2, SMT
      <3> HIDE DEF m
      <3>2. c - ByteSize < 0 /\ c - ByteSize + WordSize >= 0
        BY <1>1, <3>1, SMT
      <3>. QED
        BY <1>1, <1>2, <3>1, <3>2, SMT
    <2>3. (m + c) % ByteSize = c
      <3>1. ByteSize - 1 \in Nat /\ ByteSize \in Nat \ {0}
        BY <1>1
      <3>. QED
        BY <3>1, Remainder, Zenon
    <2>. QED
      BY <2>1, <2>2, <2>3
  <1>. QED
    BY <1>3, <1>4

\* A character is itself in a byte operand, past 127 too.
THEOREM CharactersInBytes == Spec => []CharacterInByte
  <1>1. Recorded /\ ConvertedAlone => CharacterInByte
    <2> SUFFICES ASSUME Recorded, ConvertedAlone, NEW k \in DOMAIN read, read[k].t = "char"
                 PROVE  values[k] % ByteSize = read[k].code
      BY DEF CharacterInByte
    <2>1. k \in 1 .. Len(read) /\ read[k] \in Literals
      BY DEF Recorded
    <2>2. values[k] = Char(read[k].code) % WordSize
      BY <2>1 DEF ConvertedAlone, Owned, Converted
    <2>3. read[k].code \in 0 .. ByteSize - 1
      BY <2>1, LiteralAssumption DEF IsLiteral
    <2>. QED
      BY <2>2, <2>3, CharacterCut
  <1>. QED
    BY <1>1, Reading, PTL
=============================================================================
