------------------------------ MODULE Literals ------------------------------
(***************************************************************************)
(* The values of literals: the actions of "integer" in parsers.cpp, which  *)
(* stand there twice, for the grammar of the statements and for that of    *)
(* the expressions.  Both leave the value in data's _integer; those of the *)
(* expressions push it on _acc as well.                                    *)
(*                                                                         *)
(* A literal is what its lexer rule matched: digits, or the code of a      *)
(* character, or what follows the backslash of an escape.  The rules do    *)
(* not look at case, so that they take '\N' where the action knows '\n'.   *)
(***************************************************************************)
EXTENDS Integers, Sequences, FiniteSets

CONSTANTS
  ByteSize, WordSize,   \* values of a uint8_t and of a uint16_t (256 and 65536)
  IntLimit,             \* the first number an int cannot have (2^31)
  LongLimit,            \* the first number a long cannot have (2^63, or 2^31)
  Literals,             \* see IsLiteral
  Following,            \* codes of characters that may follow the quote of a literal
  MaxLiterals           \* how many are read

Letters == {"a", "b", "e", "f", "n", "r", "t", "v"}

\* The codes of 0 to 9, A to F and a to f.
HexCodes == 48 .. 57 \cup 65 .. 70 \cup 97 .. 102

\* What follows the backslash: a letter, a letter in capitals, a character that
\* stands for itself, three decimal digits, or x with two hexadecimal ones.
IsLiteral(l) ==
  \/ l.t = "binary" /\ l.digits \in [1 .. 8 -> 0 .. 1]
  \/ l.t = "hex" /\ l.digits \in Seq(0 .. 15) /\ l.digits # <<>>
  \/ l.t = "integer" /\ l.digits \in Seq(0 .. 9) /\ l.digits # <<>>
  \/ l.t \in {"char", "self"} /\ l.code \in 0 .. ByteSize - 1
  \/ l.t = "letter" /\ l.letter \in Letters
  \/ l.t = "capital"
  \/ l.t = "number" /\ l.digits \in [1 .. 3 -> 0 .. 9]
  \/ l.t = "x" /\ l.codes \in [1 .. 2 -> HexCodes]
  \/ l.t = "lone x"
\* A byte has at least eight bits, and an int and a long more than a byte.
ASSUME WidthAssumption ==
  /\ ByteSize \in Nat /\ ByteSize >= 256
  /\ ByteSize % 2 = 0
  /\ WordSize = ByteSize * ByteSize
  /\ {IntLimit, LongLimit} \subseteq Nat /\ ByteSize <= IntLimit /\ IntLimit <= LongLimit
ASSUME LiteralAssumption ==
  /\ \A l \in Literals : IsLiteral(l)
  /\ Following \subseteq 0 .. ByteSize - 1
  /\ MaxLiterals \in Nat

VARIABLES
  read,       \* the literals read so far, in the order of the reductions
  integer,    \* _integer
  values      \* what _integer was after each of them
vars == <<read, integer, values>>

\* _integer is ~0 until the first literal.
Init == read = <<>> /\ integer = WordSize - 1 /\ values = <<>>

-----------------------------------------------------------------------------
(* Conversions. *)

\* The number digits write.
Number(digits, base) ==
  LET n[k \in 0 .. Len(digits)] == IF k = 0 THEN 0 ELSE n[k - 1] * base + digits[k]
  IN n[Len(digits)]

Least(a, b) == IF a < b THEN a ELSE b

\* strtol.
ToLong(digits, base) == Least(Number(digits, base), LongLimit - 1)

\* atoi is undefined for a number that is no int; the libraries take the low bits
\* of what strtol makes of it, or the greatest int.
ToInt(digits) ==
  LET n == Number(digits, 10)
  IN IF n >= IntLimit THEN {ToLong(digits, 10), IntLimit - 1} ELSE {n}

\* Char, were it cut to seven bits.
CharSeven(code) == code % (ByteSize \div 2)

\* A char, which the compilers of the Makefile and of the project file take as signed.
Char(code) == IF code < ByteSize \div 2 THEN code ELSE code - ByteSize

Code(letter) ==
  CASE letter = "a" -> 7 [] letter = "b" -> 8 [] letter = "e" -> 27 [] letter = "f" -> 12
    [] letter = "n" -> 10 [] letter = "r" -> 13 [] letter = "t" -> 9 [] letter = "v" -> 11

\* Three times round the loop, which does not advance first.
FromDigits(digits) == (((digits[1] * 8) + digits[1]) * 8) + digits[1]

\* HexDigit, were capitals taken for small letters.
HexDigitSmall(code) ==
  CASE code \in 65 .. 70 \cup 97 .. 102 -> code - 87
    [] OTHER -> Char(code) - 48

\* What the loop makes of a character after \x.
HexDigit(code) ==
  CASE code \in 97 .. 102 -> code - 87
    [] code \in 65 .. 70 -> code - 55
    [] OTHER -> Char(code) - 48

\* Twice round the loop, in a uint16_t.
FromHexDigits(codes) == HexDigit(codes[1]) * 10 + HexDigit(codes[2])

\* A lone x is followed by its closing quote and whatever is next in the text.
Quote == 39

-----------------------------------------------------------------------------
(* The actions, one to a rule of the lexer. *)

\* The literal l has been reduced and left _integer at i.
Reduce(l, i) ==
  /\ Len(read) < MaxLiterals
  /\ read' = Append(read, l)
  /\ integer' = i
  /\ values' = Append(values, i)

ReadBinary(l) == l.t = "binary" /\ Reduce(l, ToLong(l.digits, 2) % ByteSize)
ReadHex(l) == l.t = "hex" /\ Reduce(l, ToLong(l.digits, 16) % WordSize)
ReadInteger(l) == l.t = "integer" /\ \E n \in ToInt(l.digits) : Reduce(l, n % WordSize)
ReadChar(l) == l.t = "char" /\ Reduce(l, Char(l.code) % WordSize)

\* ReadLetter, were \e not known.
ReadLetterUnknown(l) ==
  l.t = "letter" /\ Reduce(l, IF l.letter = "e" THEN integer ELSE Code(l.letter))

ReadLetter(l) == l.t = "letter" /\ Reduce(l, Code(l.letter))
ReadSelf(l) == l.t = "self" /\ Reduce(l, l.code)
ReadNumber(l) == l.t = "number" /\ Reduce(l, FromDigits(l.digits) % WordSize)

\* ReadLoneX, were the sum not kept in a uint16_t.
ReadLoneXSigned(l) ==
  l.t = "lone x" /\ \E c \in Following : Reduce(l, FromHexDigits(<<Quote, c>>))

ReadX(l) == l.t = "x" /\ Reduce(l, FromHexDigits(l.codes) % WordSize)
ReadLoneX(l) ==
  l.t = "lone x" /\ \E c \in Following : Reduce(l, FromHexDigits(<<Quote, c>>) % WordSize)

\* The default of the switch leaves _integer alone.
ReadCapital(l) == l.t = "capital" /\ Reduce(l, integer)

Ended == Len(read) = MaxLiterals /\ UNCHANGED vars

Next ==
  \/ Ended
  \/ \E l \in Literals :
       \/ ReadBinary(l) \/ ReadHex(l) \/ ReadInteger(l) \/ ReadChar(l) \/ ReadLetter(l)
       \/ ReadSelf(l) \/ ReadNumber(l) \/ ReadX(l) \/ ReadLoneX(l) \/ ReadCapital(l)

Spec == Init /\ [][Next]_vars

-----------------------------------------------------------------------------
(* Properties. *)

\* _integer, and so every value, is a uint16_t.
TypeOK ==
  /\ \A k \in DOMAIN read : read[k] \in Literals
  /\ integer \in 0 .. WordSize - 1
  /\ values \in Seq(0 .. WordSize - 1) /\ Len(values) = Len(read)

\* A hexadecimal digit has two codes from ten on.
IsHexDigit(code, d) == IF d < 10 THEN code = 48 + d ELSE code \in {55 + d, 87 + d}
HexDigits(codes) == [k \in 1 .. 2 |-> CHOOSE d \in 0 .. 15 : IsHexDigit(codes[k], d)]

\* The number a literal stands for, as C has it.
Meaning(l) ==
  CASE l.t = "binary" -> Number(l.digits, 2)
    [] l.t = "hex" -> Number(l.digits, 16)
    [] l.t = "integer" -> Number(l.digits, 10)
    [] l.t \in {"char", "self"} -> l.code
    [] l.t = "letter" -> Code(l.letter)
    [] l.t = "number" -> Number(l.digits, 8)
    [] l.t = "x" -> Number(HexDigits(l.codes), 16)

\* Escapes that stand for nothing: no rule says what a capital is, or an x alone,
\* and 8 and 9 are not octal.
Meaningless(l) ==
  \/ l.t \in {"capital", "lone x"}
  \/ l.t = "number" /\ \E k \in 1 .. 3 : l.digits[k] > 7

\* What the conversions get wrong: an octal escape is its first digit three times,
\* the first digit of a hexadecimal one counts ten, a character past 127 is
\* negative, and numbers past the library's types are cut off.
Misread(l) ==
  \/ l.t = "number" /\ Cardinality({l.digits[k] : k \in 1 .. 3}) > 1
  \/ l.t = "x" /\ l.codes[1] # 48
  \/ l.t = "char" /\ l.code >= ByteSize \div 2
  \/ l.t \in {"hex", "binary"} /\ Meaning(l) >= LongLimit
  \/ l.t = "integer" /\ Meaning(l) >= IntLimit

AsWritten(k) == values[k] = Meaning(read[k]) % WordSize

\* A literal has its value, modulo the size of a word, unless it is one of those;
\* and each escape and character that is one of those has another value.
ValueAsWritten ==
  \A k \in DOMAIN read : ~Meaningless(read[k]) =>
    /\ ~Misread(read[k]) => AsWritten(k)
    /\ Misread(read[k]) /\ read[k].t \in {"number", "x", "char"} => ~AsWritten(k)

\* In a byte operand, which is cut to a byte, every character is itself.
CharacterInByte ==
  \A k \in DOMAIN read : read[k].t = "char" => values[k] % ByteSize = read[k].code

\* The value of a literal is its own, whatever was read before it in the text or
\* in another evaluation; only an escape in capitals takes the one before it.
ValueIsOwn ==
  \A j, k \in DOMAIN read :
    /\ read[j] = read[k] /\ read[k].t \notin {"capital", "lone x"}
    /\ read[k].t = "integer" => ~Misread(read[k])
    => values[j] = values[k]
=============================================================================
