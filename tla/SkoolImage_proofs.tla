-------------------------- MODULE SkoolImage_proofs --------------------------
(***************************************************************************)
(* Loading an ascending skool file: every line stands at its address, for  *)
(* every file and every width of a byte, so that padding never takes bytes *)
(* away.  From that follow the soundness of the fixup maps, which the      *)
(* loader could break, and the cover of the blocks.                        *)
(***************************************************************************)
EXTENDS SkoolImage, AssemblerRefinement_proofs

-----------------------------------------------------------------------------
(* The invariant. *)

FileOK == source \in Sources /\ address \in Seq(Word) /\ Len(address) = Len(source)

\* What the line under way has pushed so far.
Pushed ==
  IF phase = "opcode" THEN Len(Body.form.bytes)
  ELSE IF Body.k = "db" THEN Lines!SumOver(Lines!ItemLengths(Body.items), 1 .. item)
  ELSE IF Body.k = "dw" THEN 2 * item ELSE 0

\* A line is handed over before any of it is assembled, and none is after the last.
LineByLine ==
  /\ handed => line <= Len(source) /\ phase \in Loading \cup Lost
  /\ ~handed /\ phase \in Loading => phase = "line" /\ item = 0
  /\ line <= Len(source) + 1
  /\ phase \notin Loading \cup Lost => ~handed /\ line = Len(source) + 1
  /\ phase = "opcode" => Body.k = "opcode"
  /\ item # 0 /\ phase \in Loading => Body.k \in {"db", "dw"}
  /\ handed /\ phase \in Loading /\ Body.k \in {"db", "dw"} => item <= Len(Body.items)

\* The end of the memory is where the lines say, and nothing but the first of
\* them has set the origin.
Placed ==
  /\ phase \in Loading /\ handed =>
       org = address[1] /\ org_set /\ org + Size = address[line] + Pushed
  /\ phase \in Loading /\ ~handed =>
       IF line = 1 THEN org = 0 /\ Size = 0
       ELSE /\ org = address[1] /\ org_set
            /\ org + Size = address[line - 1] + Lines!Length(line - 1)

\* The blocks are what has been accounted for, and a line that has bytes has been.
Counted ==
  /\ Len(Expand(mem_type)) = last_size
  /\ ~handed /\ phase \notin Lost =>
       last_size = Size \/ (line > 1 /\ Lines!Length(line - 1) = 0)

Loaded == IInv /\ LineByLine /\ Placed /\ Counted
SkoolInv == FileOK /\ handed \in BOOLEAN /\ (Ascending => Loaded)

-----------------------------------------------------------------------------
(* The bytes of a line. *)

LEMMA LengthIs ==
  ASSUME NEW i
  PROVE  LET b == source[i].body IN
         /\ b.k = "opcode" => Lines!Length(i) = Len(b.form.bytes)
         /\ b.k = "db" =>
              Lines!Length(i) = Lines!SumOver(Lines!ItemLengths(b.items), DOMAIN b.items)
         /\ b.k = "ds" => Lines!Length(i) = b.literal % WordSize
         /\ b.k = "dw" => Lines!Length(i) = 2 * Len(b.items)
         /\ b.k \notin {"opcode", "db", "ds", "dw"} => Lines!Length(i) = 0
  BY DEF Lines!Length, Lines!Body

LEMMA SameLengths ==
  ASSUME source' = source, NEW i
  PROVE  Lines!Length(i)' = Lines!Length(i)
  BY DEF Lines!Length, Lines!Body

LEMMA SameAscending ==
  ASSUME source' = source, address' = address
  PROVE  Ascending' <=> Ascending
  <1>1. \A i : Gap(i)' = Gap(i)
    BY SameLengths DEF Gap
  <1>. QED
    BY <1>1 DEF Ascending

LEMMA SumOverIs ==
  ASSUME NEW f, NEW S
  PROVE  Lines!SumOver(f, S) = SumOf(f, S)
  BY DEF Lines!SumOver, SumOf, Lines!MapThenSumSet, Lines!MapThenFoldSet, MapThenSumSet,
     MapThenFoldSet

\* The bytes of the first elements of a DB.
LEMMA DbItems ==
  ASSUME NEW items \in Seq(DbItem), NEW n \in 0 .. Len(items)
  PROVE  LET f == Lines!ItemLengths(items) IN
         /\ Lines!SumOver(f, 1 .. 0) = 0
         /\ Lines!SumOver(f, 1 .. n) \in Nat
         /\ n < Len(items) =>
              Lines!SumOver(f, 1 .. n + 1)
                = Lines!SumOver(f, 1 .. n)
                  + (IF items[n + 1].k = "string" THEN Len(items[n + 1].str) ELSE 1)
  <1> DEFINE f == Lines!ItemLengths(items)
             L == Len(items)
  <1>1. L \in Nat /\ DOMAIN items = 1 .. L
    OBVIOUS
  <1>2. \A j \in 1 .. L :
          /\ f[j] = IF items[j].k = "string" THEN Len(items[j].str) ELSE 1
          /\ f[j] \in Nat
    <2> SUFFICES ASSUME NEW j \in 1 .. L
                 PROVE  /\ f[j] = IF items[j].k = "string" THEN Len(items[j].str) ELSE 1
                        /\ f[j] \in Nat
      BY Zenon
    <2>1. f[j] = IF items[j].k = "string" THEN Len(items[j].str) ELSE 1
      BY <1>1 DEF Lines!ItemLengths, Lines!ItemLength
    <2>2. items[j] \in DbItem
      <3> DEFINE D == DbItem
      <3> HIDE DEF D
      <3>1. items \in Seq(D)
        BY DEF D
      <3>2. items[j] \in D
        BY <3>1
      <3>. QED
        BY <3>2 DEF D
    <2>3. items[j].k = "string" => Len(items[j].str) \in Nat
      <3> SUFFICES ASSUME items[j].k = "string" PROVE Len(items[j].str) \in Nat
        OBVIOUS
      <3>1. items[j].str \in Seq(Byte)
        BY <2>2 DEF DbItem
      <3>. QED
        BY <3>1
    <2> HIDE DEF f
    <2>. QED
      BY <2>1, <2>3
  <1> HIDE DEF f, L
  <1>3. SumOf(f, 1 .. 0) = 0
    <2>1. 1 .. 0 = {}
      OBVIOUS
    <2>. QED
      BY <2>1, SumOfEmpty
  <1>4. n \in Nat /\ n <= L
    BY <1>1 DEF L
  <1>5. SumOf(f, 1 .. n) \in Nat
    <2>1. \A j \in 1 .. n : f[j] \in Nat
      BY <1>1, <1>2, <1>4
    <2>. QED
      BY <1>4, <2>1, SumToType
  <1>6. ASSUME n < L
        PROVE  SumOf(f, 1 .. n + 1) = SumOf(f, 1 .. n) + f[n + 1]
    <2>1. \A j \in 1 .. n + 1 : f[j] \in Int
      BY <1>1, <1>2, <1>4, <1>6
    <2>. QED
      BY <1>4, <2>1, SumToNext
  <1>7. n < L => n + 1 \in 1 .. L
    BY <1>1, <1>4
  <1>8. /\ SumOf(f, 1 .. 0) = 0
        /\ SumOf(f, 1 .. n) \in Nat
        /\ n < L => SumOf(f, 1 .. n + 1)
                      = SumOf(f, 1 .. n)
                        + (IF items[n + 1].k = "string" THEN Len(items[n + 1].str) ELSE 1)
    BY <1>2, <1>3, <1>5, <1>6, <1>7
  <1>. QED
    BY <1>8, SumOverIs, Zenon DEF f, L

LEMMA FileBody ==
  ASSUME FileOK, NEW i \in 1 .. Len(source)
  PROVE  IsBody(source[i].body)
  BY SourceAssumption DEF FileOK, IsSource

LEMMA FileLength ==
  ASSUME FileOK
  PROVE  Len(source) \in Nat /\ DOMAIN address = 1 .. Len(source)
         /\ \A i \in 1 .. Len(source) : address[i] \in Word
  <1>1. Len(source) \in Nat
    BY SourceAssumption DEF FileOK, IsSource
  <1>2. address \in Seq(Word) /\ Len(address) = Len(source)
    BY DEF FileOK
  <1>. QED
    BY <1>1, <1>2

\* An ascending file has no address of 0, and no line ends after the next one starts.
LEMMA AscendingIs ==
  ASSUME FileOK, Ascending, NEW i \in 1 .. Len(source)
  PROVE  /\ address[i] \in Word /\ address[i] # 0
         /\ i > 1 => address[i] - (address[i - 1] + Lines!Length(i - 1)) >= 0
  <1>1. DOMAIN address = 1 .. Len(source) /\ address[i] \in Word /\ Len(address) = Len(source)
    BY FileLength DEF FileOK
  <1>2. address[i] \in ToSet(address)
    BY <1>1 DEF ToSet
  <1>3. i > 1 => i \in 2 .. Len(address)
    BY <1>1, FileLength
  <1>. QED
    BY <1>1, <1>2, <1>3 DEF Ascending, Gap

-----------------------------------------------------------------------------
(* Steps by their kind. *)

\* An exception, or a trap.
LEMMA LostStep ==
  ASSUME LineByLine, Counted, phase' \in Lost, handed' => handed,
         line' = line, item' = item, UNCHANGED <<source, mem_type, last_size>>
  PROVE  LineByLine' /\ Placed' /\ Counted'
  <1>1. LineByLine'
    BY DEF LineByLine, Loading, Lost
  <1>2. Placed'
    BY DEF Placed, Loading, Lost
  <1>3. Counted'
    BY DEF Counted, Lost
  <1>. QED
    BY <1>1, <1>2, <1>3

\* A step within a line.
LEMMA WithinStep ==
  ASSUME FileOK, IInv, LineByLine, Placed, Counted, handed, phase \in Loading,
         phase' \in Loading, handed', line' = line,
         UNCHANGED <<source, address, org, org_set, mem_type, last_size>>,
         NEW n \in Int, Size' = Size + n, Pushed \in Int, Pushed' = Pushed + n,
         phase' = "opcode" => Body.k = "opcode",
         item' # 0 => Body.k \in {"db", "dw"},
         Body.k \in {"db", "dw"} => item' <= Len(Body.items)
  PROVE  LineByLine' /\ Placed' /\ Counted'
  <1>1. line <= Len(source) /\ line \in 1 .. Len(source) /\ Body' = Body
    BY FileLength DEF LineByLine, IInv, TypeOK, Body
  <1>2. LineByLine'
    BY <1>1 DEF LineByLine, Loading, Lost
  <1>3. Placed'
    <2>1. org = address[1] /\ org_set /\ org + Size = address[line] + Pushed
      BY DEF Placed
    <2>2. org \in Int /\ Size \in Int /\ address[line] \in Int
      BY <1>1, FileLength, SizeIsNat, Widths DEF IInv, TypeOK, Word
    <2>3. org' + Size' = address'[line'] + Pushed'
      BY <2>1, <2>2
    <2>. QED
      BY <2>1, <2>3 DEF Placed
  <1>4. Counted'
    BY DEF Counted
  <1>. QED
    BY <1>2, <1>3, <1>4

\* The end of a line, once what it has not pushed before is pushed.
LEMMA LineStep ==
  ASSUME FileOK, IInv, LineByLine, Placed, handed, phase \in Loading, NextLine, ~handed',
         UNCHANGED <<source, address, org, org_set>>,
         NEW n \in Int, Size' = Size + n, Pushed \in Int, Lines!Length(line) = Pushed + n,
         Len(Expand(mem_type')) = last_size',
         last_size' = Size' \/ Lines!Length(line) = 0
  PROVE  LineByLine' /\ Placed' /\ Counted'
  <1>1. /\ line <= Len(source) /\ line \in 1 .. Len(source) /\ Len(source) \in Nat
        /\ line' = line + 1 /\ line' - 1 = line /\ line' > 1 /\ phase' = "line" /\ item' = 0
    BY FileLength DEF LineByLine, IInv, TypeOK, NextLine
  <1>2. LineByLine'
    BY <1>1 DEF LineByLine, Loading, Lost
  <1>3. Lines!Length(line - 1)' = Lines!Length(line)
    BY <1>1 DEF Lines!Length, Lines!Body
  <1>4. Placed'
    <2>1. org = address[1] /\ org_set /\ org + Size = address[line] + Pushed
      BY DEF Placed
    <2>2. org \in Int /\ Size \in Int /\ address[line] \in Int
      BY <1>1, FileLength, SizeIsNat, Widths DEF IInv, TypeOK, Word
    <2>3. org' + Size' = address'[line' - 1] + Lines!Length(line)
      <3>1. org' = org /\ Size' = Size + n /\ address'[line' - 1] = address[line]
        BY <1>1
      <3> DEFINE a == address[line]
      <3>2. org + Size = a + Pushed /\ org \in Int /\ Size \in Int /\ a \in Int
        BY <2>1, <2>2
      <3> HIDE DEF a
      <3>3. org + (Size + n) = a + (Pushed + n)
        BY <3>2
      <3>. QED
        BY <3>1, <3>3 DEF a
    <2>. QED
      BY <1>1, <1>3, <2>1, <2>3 DEF Placed
  <1>5. Counted'
    <2>1. last_size' = Size' \/ (line' > 1 /\ Lines!Length(line - 1)' = 0)
      BY <1>1, <1>3
    <2>. QED
      BY <2>1, Zenon DEF Counted
  <1>. QED
    BY <1>2, <1>4, <1>5

\* A step after the last line.
LEMMA AfterStep ==
  ASSUME LineByLine, Counted, ~handed, ~handed', line = Len(source) + 1, line' = line,
         item' = item, phase \notin Lost, phase' \notin Loading,
         UNCHANGED <<source, mem_type, last_size>>, Size' = Size
  PROVE  LineByLine' /\ Placed' /\ Counted'
  <1>1. LineByLine'
    BY DEF LineByLine, Loading, Lost
  <1>2. Placed'
    BY DEF Placed
  <1>3. Lines!Length(line - 1)' = Lines!Length(line - 1)
    BY SameLengths
  <1>4. Counted'
    BY <1>3 DEF Counted, Lost
  <1>. QED
    BY <1>1, <1>2, <1>4

\* The bytes pushed so far.
LEMMA PushedType ==
  ASSUME FileOK, IInv, LineByLine, handed, phase \in Loading
  PROVE  Pushed \in Nat
  <1>1. line \in 1 .. Len(source) /\ item \in Nat
    BY FileLength DEF LineByLine, IInv, TypeOK
  <1>2. IsBody(Body)
    BY <1>1, FileBody DEF Body
  <1>3. CASE phase = "opcode"
    <2>1. IsTemplate(Body.form)
      BY <1>2, <1>3 DEF LineByLine, IsBody
    <2>. QED
      BY <1>3, <2>1 DEF IsTemplate, Pushed
  <1>4. CASE phase # "opcode" /\ Body.k = "db"
    <2>1. Body.items \in Seq(DbItem)
      BY <1>2, <1>4 DEF IsBody
    <2>2. Len(Body.items) \in Nat /\ item <= Len(Body.items)
      BY <1>4, <2>1 DEF LineByLine
    <2>3. item \in 0 .. Len(Body.items)
      BY <1>1, <2>2
    <2>4. Lines!SumOver(Lines!ItemLengths(Body.items), 1 .. item) \in Nat
      BY <2>1, <2>3, DbItems
    <2>. QED
      BY <1>4, <2>4 DEF Pushed
  <1>. QED
    BY <1>1, <1>3, <1>4 DEF Pushed

-----------------------------------------------------------------------------
(* The actions of data::parse on a line that has been handed over. *)

\* What an action of a line can rely on.
OnLine ==
  /\ FileOK /\ Ascending /\ Loaded /\ AssembleLine
  /\ handed /\ line \in 1 .. Len(source) /\ phase \in {"line", "body"}

LEMMA OnLineFacts ==
  ASSUME OnLine
  PROVE  /\ IInv /\ LineByLine /\ Placed /\ Counted /\ FileOK /\ IsBody(Body)
         /\ address' = address /\ handed' = (handed /\ line' = line)
         /\ handed /\ line \in Nat /\ line <= Len(source) /\ phase \in Loading /\ phase # "opcode"
         /\ org_set /\ Size \in Nat /\ memory \in Seq(Byte) /\ item \in Nat
         /\ Len(Expand(mem_type)) = last_size
         /\ Pushed \in Nat
         /\ Body.k \in {"db", "dw"} => item <= Len(Body.items)
         /\ Body.k \notin {"db", "dw"} => Pushed = 0 /\ item = 0
  <1>1. IInv /\ LineByLine /\ Placed /\ Counted /\ FileOK /\ handed /\ phase \in Loading
        /\ phase # "opcode"
    BY DEF OnLine, Loaded, Loading
  <1>2. Pushed \in Nat
    BY <1>1, PushedType
  <1>3. IsBody(Body) /\ Size \in Nat /\ line \in Nat /\ line <= Len(source)
    BY <1>1, FileBody, FileLength, SizeIsNat DEF OnLine, Body
  <1>4. org_set /\ memory \in Seq(Byte) /\ item \in Nat /\ Len(Expand(mem_type)) = last_size
    BY <1>1 DEF Placed, IInv, TypeOK, Counted
  <1>5. address' = address /\ handed' = (handed /\ line' = line)
    BY DEF OnLine, AssembleLine
  <1>6. /\ Body.k \in {"db", "dw"} => item <= Len(Body.items)
        /\ Body.k \notin {"db", "dw"} => Pushed = 0 /\ item = 0
    BY <1>1 DEF LineByLine, Pushed
  <1>. QED
    BY <1>1, <1>2, <1>3, <1>4, <1>5, <1>6

\* Taking the next line.
LEMMA LineEnds ==
  ASSUME OnLine, NextLine
  PROVE  ~handed'
  <1>1. handed' = (handed /\ line' = line) /\ line \in Nat
    BY OnLineFacts
  <1>2. line' # line
    BY <1>1 DEF NextLine
  <1>. QED
    BY <1>1, <1>2

LEMMA BodyLength ==
  /\ Body.k = "opcode" => Lines!Length(line) = Len(Body.form.bytes)
  /\ Body.k = "db" =>
       Lines!Length(line) = Lines!SumOver(Lines!ItemLengths(Body.items), DOMAIN Body.items)
  /\ Body.k = "ds" => Lines!Length(line) = Body.literal % WordSize
  /\ Body.k = "dw" => Lines!Length(line) = 2 * Len(Body.items)
  /\ Body.k \notin {"opcode", "db", "ds", "dw"} => Lines!Length(line) = 0
  BY LengthIs, Zenon DEF Body

\* A line without bytes.
LEMMA NothingPushed ==
  ASSUME OnLine, Body.k \notin {"opcode", "db", "ds", "dw"}
  PROVE  Lines!Length(line) = Pushed + 0
  <1>1. Lines!Length(line) = 0
    BY BodyLength
  <1>2. Pushed = 0
    BY OnLineFacts
  <1>. QED
    BY <1>1, <1>2

\* Closing the bytes of a statement into the blocks.
LEMMA AccountCounts ==
  ASSUME IInv, Len(Expand(mem_type)) = last_size, NEW type \in Kinds, NEW size \in Nat,
         size >= Size, Account(type, size)
  PROVE  Len(Expand(mem_type')) = last_size' /\ last_size' = size
  <1>1. size >= last_size
    BY SizeIsNat DEF IInv, TypeOK, Accounted
  <1>2. Len(Expand(mem_type')) = size
    BY <1>1, AccountTiles
  <1>. QED
    BY <1>2 DEF Account

\* A grammar action that fails.
LEMMA FailsOnLine ==
  ASSUME OnLine, Fail, UNCHANGED <<source, mem_type, last_size>>
  PROVE  LineByLine' /\ Placed' /\ Counted'
  BY OnLineFacts, LostStep DEF Fail, Lost

LEMMA DefineLabelLoads ==
  ASSUME OnLine, DefineLabel
  PROVE  LineByLine' /\ Placed' /\ Counted'
  <1>1. UNCHANGED <<source, org, org_set, mem_type, last_size>> /\ Size' = Size
    BY DEF DefineLabel, input, program, Size
  <1>2. CASE Fail
    BY <1>1, <1>2, FailsOnLine
  <1>3. CASE phase' = "body" /\ line' = line /\ item' = item
    <2>1. Body' = Body /\ Pushed' = Pushed + 0 /\ Size' = Size + 0 /\ handed'
      <3>1. Body' = Body /\ handed' /\ phase # "opcode"
        BY <1>1, <1>3, OnLineFacts DEF Body
      <3>2. Pushed' = Pushed
        BY <1>3, <3>1 DEF Pushed
      <3>. QED
        BY <1>1, <3>1, <3>2, OnLineFacts
    <2>2. item # 0 => Body.k \in {"db", "dw"}
      BY OnLineFacts
    <2>. QED
      BY <1>1, <1>3, <2>1, <2>2, OnLineFacts, WithinStep DEF Loading
  <1>. QED
    BY <1>2, <1>3 DEF DefineLabel

LEMMA EmptyLineLoads ==
  ASSUME OnLine, EmptyLine
  PROVE  LineByLine' /\ Placed' /\ Counted'
  <1>1. UNCHANGED <<source, org, org_set, mem_type, last_size>> /\ Size' = Size + 0 /\ NextLine
        /\ Body.k = "empty"
    BY OnLineFacts DEF EmptyLine, input, program, Size
  <1>2. Lines!Length(line) = Pushed + 0 /\ ~handed'
    BY <1>1, NothingPushed, LineEnds
  <1>. QED
    BY <1>1, <1>2, OnLineFacts, LineStep

LEMMA CallEquLoads ==
  ASSUME OnLine, CallEqu
  PROVE  LineByLine' /\ Placed' /\ Counted'
  <1>1. UNCHANGED <<source, org, org_set, mem_type, last_size>> /\ Size' = Size + 0
        /\ Body.k = "equ" /\ phase' = "equ" /\ line' = line /\ item' = item
    BY OnLineFacts DEF CallEqu, input, program, Size
  <1>2. Body' = Body /\ Pushed = 0 /\ item = 0 /\ handed'
    BY <1>1, OnLineFacts DEF Body
  <1>3. Pushed' = Pushed + 0
    BY <1>1, <1>2 DEF Pushed
  <1>. QED
    BY <1>1, <1>2, <1>3, OnLineFacts, WithinStep DEF Loading

\* The origin is set: an ORG of the file's own is refused.
LEMMA SetOrgLoads ==
  ASSUME OnLine, SetOrg \/ RejectLine
  PROVE  LineByLine' /\ Placed' /\ Counted'
  <1>1. Fail /\ UNCHANGED <<source, mem_type, last_size>>
    BY OnLineFacts DEF SetOrg, RejectLine, input, program
  <1>. QED
    BY <1>1, FailsOnLine

LEMMA PushOpcodeLoads ==
  ASSUME OnLine, PushOpcode
  PROVE  LineByLine' /\ Placed' /\ Counted'
  <1>1. UNCHANGED <<source, org, org_set, mem_type, last_size>> /\ Body.k = "opcode"
    BY DEF PushOpcode, input
  <1>2. CASE Fail
    BY <1>1, <1>2, FailsOnLine
  <1>3. CASE /\ memory' = memory \o Body.form.bytes /\ phase' = "opcode"
             /\ line' = line /\ item' = item
    <2> DEFINE bytes == Body.form.bytes
               n == Len(bytes)
    <2>1. bytes \in Seq(Byte) /\ n \in Nat
      <3>1. IsTemplate(Body.form)
        BY <1>1, OnLineFacts DEF IsBody
      <3>. QED
        BY <3>1 DEF IsTemplate
    <2>2. Size' = Size + n
      <3> HIDE DEF bytes
      <3>1. memory' = memory \o bytes
        BY <1>3 DEF bytes
      <3>. QED
        BY <2>1, <3>1, OnLineFacts DEF Size
    <2>3. Body' = Body /\ Pushed = 0 /\ item = 0 /\ handed'
      BY <1>1, <1>3, OnLineFacts DEF Body
    <2>4. Pushed' = Pushed + n
      BY <1>3, <2>1, <2>3 DEF Pushed
    <2> HIDE DEF n, bytes
    <2>. QED
      BY <1>1, <1>3, <2>1, <2>2, <2>3, <2>4, OnLineFacts, WithinStep DEF Loading
  <1>. QED
    BY <1>2, <1>3 DEF PushOpcode

LEMMA ReserveDsLoads ==
  ASSUME OnLine, ReserveDs
  PROVE  LineByLine' /\ Placed' /\ Counted'
  <1> DEFINE n == Body.literal % WordSize
  <1>1. UNCHANGED <<source, org, org_set>> /\ Body.k = "ds" /\ NextLine
        /\ memory' = memory \o Zeros(n) /\ Account("ds", Size + n)
    BY DEF ReserveDs, input
  <1>2. n \in Nat
    <2>1. n \in Word
      BY <1>1, OnLineFacts, ResidueType DEF IsBody
    <2>. QED
      BY <2>1, Widths DEF Word
  <1>3. Lines!Length(line) = n /\ Pushed = 0 /\ ~handed'
    <2>1. Lines!Length(line) = Body.literal % WordSize
      BY <1>1, BodyLength
    <2>. QED
      BY <1>1, <2>1, OnLineFacts, LineEnds
  <1> HIDE DEF n
  <1>4. Size' = Size + n
    BY <1>1, <1>2, OnLineFacts, ZerosType DEF Size
  <1>5. Size + n \in Nat /\ Size + n >= Size /\ "ds" \in Kinds /\ Lines!Length(line) = Pushed + n
    BY <1>2, <1>3, OnLineFacts DEF Kinds
  <1>6. Len(Expand(mem_type')) = last_size' /\ last_size' = Size + n
    BY <1>1, <1>5, OnLineFacts, AccountCounts
  <1>. QED
    BY <1>1, <1>2, <1>3, <1>4, <1>5, <1>6, OnLineFacts, LineStep

LEMMA PushDbItemLoads ==
  ASSUME OnLine, PushDbItem
  PROVE  LineByLine' /\ Placed' /\ Counted'
  <1> DEFINE i == Body.items[item + 1]
             n == IF i.k = "string" THEN Len(i.str) ELSE 1
             f == Lines!ItemLengths(Body.items)
  <1>1. UNCHANGED <<source, org, org_set, last_size, mem_type>>
        /\ Body.k = "db" /\ item < Len(Body.items)
    BY DEF PushDbItem, input
  <1>2. Body.items \in Seq(DbItem) /\ item \in 0 .. Len(Body.items) /\ item + 1 \in 1 .. Len(Body.items)
    <2>1. Body.items \in Seq(DbItem) /\ item \in Nat
      BY <1>1, OnLineFacts DEF IsBody
    <2> DEFINE D == DbItem
    <2> HIDE DEF D
    <2>2. Body.items \in Seq(D)
      BY <2>1 DEF D
    <2>3. Len(Body.items) \in Nat
      BY <2>2
    <2>. QED
      BY <1>1, <2>1, <2>3
  <1>3. /\ Lines!SumOver(f, 1 .. item) \in Nat
        /\ Lines!SumOver(f, 1 .. item + 1) = Lines!SumOver(f, 1 .. item) + n
    BY <1>1, <1>2, DbItems
  <1>4. i.k = "string" => i.str \in Seq(Byte)
    <2> DEFINE D == DbItem
    <2> HIDE DEF D
    <2>1. Body.items \in Seq(D)
      BY <1>2 DEF D
    <2>2. Body.items[item + 1] \in D
      BY <1>2, <2>1
    <2>3. i \in DbItem
      BY <2>2 DEF D
    <2> HIDE DEF i
    <2>. QED
      BY <2>3 DEF DbItem
  <1>5. CASE Fail
    BY <1>1, <1>5, FailsOnLine
  <1>6. CASE /\ memory' = (IF i.k = "string" THEN memory \o i.str ELSE Append(memory, 0))
             /\ phase' = phase /\ line' = line /\ item' = item + 1
    <2>1. n \in Nat /\ Size' = Size + n
      <3> HIDE DEF i
      <3>. QED
        BY <1>4, <1>6, OnLineFacts DEF Size
    <2>2. Body' = Body /\ handed' /\ Pushed = Lines!SumOver(f, 1 .. item)
      BY <1>1, <1>6, OnLineFacts DEF Body, Pushed
    <2>3. Pushed' = Lines!SumOver(f, 1 .. item + 1)
      <3>1. Pushed' = Lines!SumOver(Lines!ItemLengths(Body.items), 1 .. item)'
        BY <1>1, <1>6, <2>2, OnLineFacts DEF Pushed
      <3>2. Lines!SumOver(Lines!ItemLengths(Body.items), 1 .. item)' = Lines!SumOver(f, 1 .. item + 1)
        BY <1>6, <2>2, Zenon
      <3>. QED
        BY <3>1, <3>2
    <2>4. Pushed' = Pushed + n
      BY <1>3, <2>2, <2>3
    <2>5. item' <= Len(Body.items)
      BY <1>2, <1>6
    <2> HIDE DEF n, f, i
    <2>. QED
      BY <1>1, <1>6, <2>1, <2>2, <2>4, <2>5, OnLineFacts, WithinStep
  <1>7. Fail \/ /\ memory' = (IF i.k = "string" THEN memory \o i.str ELSE Append(memory, 0))
                /\ phase' = phase /\ line' = line /\ item' = item + 1
    BY DEF PushDbItem
  <1>. QED
    BY <1>5, <1>6, <1>7

\* What is under way has become whole, and its bytes are closed into a block.
LEMMA AccountLoads ==
  ASSUME OnLine, NEW type \in Kinds, Account(type, Size), NextLine,
         UNCHANGED <<source, org, org_set, memory>>, Lines!Length(line) = Pushed
  PROVE  LineByLine' /\ Placed' /\ Counted'
  <1>1. Size' = Size + 0 /\ Pushed \in Int /\ Lines!Length(line) = Pushed + 0 /\ Size \in Nat /\ Size >= Size
    BY OnLineFacts DEF Size
  <1>2. Len(Expand(mem_type')) = last_size' /\ last_size' = Size'
    BY <1>1, OnLineFacts, AccountCounts
  <1>3. ~handed'
    BY LineEnds
  <1>. QED
    BY <1>1, <1>2, <1>3, OnLineFacts, LineStep

LEMMA AccountDbLoads ==
  ASSUME OnLine, AccountDb
  PROVE  LineByLine' /\ Placed' /\ Counted'
  <1>1. UNCHANGED <<source, org, org_set, memory>> /\ Account("db", Size) /\ NextLine
        /\ Body.k = "db" /\ item = Len(Body.items) /\ "db" \in Kinds
    BY DEF AccountDb, input, Kinds
  <1>2. DOMAIN Body.items = 1 .. Len(Body.items)
    <2> DEFINE D == DbItem
    <2>1. Body.items \in Seq(D)
      BY <1>1, OnLineFacts DEF IsBody
    <2> HIDE DEF D
    <2>. QED
      BY <2>1
  <1>3. Lines!Length(line) = Lines!SumOver(Lines!ItemLengths(Body.items), 1 .. item)
    BY <1>1, <1>2, BodyLength
  <1>4. Lines!Length(line) = Pushed
    BY <1>1, <1>3, OnLineFacts DEF Pushed
  <1>. QED
    BY <1>1, <1>4, AccountLoads

LEMMA PushDwItemLoads ==
  ASSUME OnLine, PushDwItem
  PROVE  LineByLine' /\ Placed' /\ Counted'
  <1>1. UNCHANGED <<source, org, org_set, last_size, mem_type, phase, line>>
        /\ Body.k = "dw" /\ item < Len(Body.items) /\ item' = item + 1
        /\ memory' = memory \o Zeros(2)
    BY DEF PushDwItem, input
  <1>2. Len(Body.items) \in Nat
    <2> DEFINE D == Expr
    <2>1. Body.items \in Seq(D)
      BY <1>1, OnLineFacts DEF IsBody
    <2> HIDE DEF D
    <2>. QED
      BY <2>1
  <1>3. Size' = Size + 2
    BY <1>1, OnLineFacts, ZerosType DEF Size
  <1>4. Body' = Body /\ handed'
    BY <1>1, OnLineFacts DEF Body
  <1>5. Pushed = 2 * item /\ Pushed' = 2 * (item + 1) /\ item \in Nat
    BY <1>1, <1>4, OnLineFacts DEF Pushed
  <1>6. Pushed' = Pushed + 2 /\ item' <= Len(Body.items) /\ phase' # "opcode" /\ phase' \in Loading
    BY <1>1, <1>2, <1>5, OnLineFacts
  <1>. QED
    BY <1>1, <1>3, <1>4, <1>5, <1>6, OnLineFacts, WithinStep

LEMMA AccountDwLoads ==
  ASSUME OnLine, AccountDw
  PROVE  LineByLine' /\ Placed' /\ Counted'
  <1>1. UNCHANGED <<source, org, org_set, memory>> /\ Account("dw", Size) /\ NextLine
        /\ Body.k = "dw" /\ item = Len(Body.items) /\ "dw" \in Kinds
    BY DEF AccountDw, input, Kinds
  <1>2. Lines!Length(line) = Pushed
    BY <1>1, BodyLength, OnLineFacts DEF Pushed
  <1>. QED
    BY <1>1, <1>2, AccountLoads

LEMMA HandedKept ==
  ASSUME AssembleLine
  PROVE  /\ handed' = (handed /\ line' = line)
         /\ handed' => handed
         /\ line' # line => ~handed'
  <1>1. handed' = (handed /\ line' = line)
    BY Zenon DEF AssembleLine
  <1>. QED
    BY <1>1

\* The bytes of an opcode are closed into a block.
LEMMA AccountCodeLoads ==
  ASSUME FileOK, Loaded, AssembleLine, AccountCode
  PROVE  LineByLine' /\ Placed' /\ Counted'
  <1>1. IInv /\ LineByLine /\ Placed /\ Counted
    BY DEF Loaded
  <1>2. UNCHANGED <<source, address, org, org_set>> /\ Size' = Size + 0
        /\ Account("code", Size) /\ NextLine /\ phase = "opcode" /\ phase \in Loading
    BY SizeIsNat, <1>1 DEF AccountCode, AssembleLine, input, Loading, Size
  <1>3. handed /\ Body.k = "opcode" /\ line \in Nat
    BY <1>1, <1>2 DEF LineByLine, IInv, TypeOK
  <1>4. ~handed'
    <2>1. line' # line
      BY <1>2, <1>3 DEF NextLine
    <2>. QED
      BY <2>1, HandedKept
  <1>5. Pushed \in Nat /\ Lines!Length(line) = Pushed
    BY <1>1, <1>2, <1>3, PushedType, BodyLength DEF Pushed
  <1>6. Len(Expand(mem_type')) = last_size' /\ last_size' = Size'
    <2>1. Len(Expand(mem_type)) = last_size /\ "code" \in Kinds /\ Size \in Nat /\ Size >= Size
      BY <1>1, SizeIsNat DEF Counted, Kinds
    <2>. QED
      BY <1>1, <1>2, <2>1, AccountCounts
  <1>7. Lines!Length(line) = Pushed + 0
    BY <1>5
  <1>. QED
    BY <1>1, <1>2, <1>3, <1>4, <1>5, <1>6, <1>7, LineStep

-----------------------------------------------------------------------------
(* The other actions. *)

\* A step that only evaluates.
LEMMA SameStep ==
  ASSUME LineByLine, Placed, Counted,
         UNCHANGED <<source, address, handed, phase, line, item, org, org_set, last_size,
                     memory, mem_type>>
  PROVE  LineByLine' /\ Placed' /\ Counted'
  <1>1. /\ Body' = Body /\ Size' = Size
        /\ Lines!Length(line - 1)' = Lines!Length(line - 1)
    BY DEF Body, Size, Lines!Length, Lines!Body
  <1>2. Pushed' = Pushed
    BY <1>1 DEF Pushed
  <1>3. LineByLine'
    BY <1>1, Zenon DEF LineByLine
  <1>4. Placed'
    BY <1>1, <1>2, Zenon DEF Placed
  <1>5. Counted'
    BY <1>1, Zenon DEF Counted
  <1>. QED
    BY <1>3, <1>4, <1>5

LEMMA BodyOnLine ==
  ASSUME FileOK, Ascending, Loaded, AssembleLine, phase \in {"line", "body"}, line <= Len(source)
  PROVE  OnLine
  <1>1. LineByLine /\ line \in Nat \ {0} /\ Len(source) \in Nat
    BY FileLength DEF Loaded, IInv, TypeOK
  <1>2. handed
    BY <1>1 DEF LineByLine, Loading, AssembleLine, AtAddress
  <1>. QED
    BY <1>1, <1>2 DEF OnLine

\* The actions of data::parse that have a line.
LEMMA ParsingLoads ==
  ASSUME FileOK, Ascending, Loaded, AssembleLine, Parsing
  PROVE  LineByLine' /\ Placed' /\ Counted'
  <1>1. CASE StartFixups
    <2>1. LineByLine /\ Counted
      BY DEF Loaded
    <2>2. line \in Nat /\ Len(source) \in Nat
      BY FileLength DEF Loaded, IInv, TypeOK
    <2>3. /\ phase = "line" /\ phase' = "rel" /\ line > Len(source) /\ line' = line /\ item' = item
          /\ UNCHANGED <<source, mem_type, last_size>> /\ Size' = Size
      BY <1>1 DEF StartFixups, input, program, Size
    <2>4. line = Len(source) + 1 /\ ~handed /\ ~handed'
      BY <2>1, <2>2, <2>3, HandedKept DEF LineByLine
    <2>. QED
      BY <2>1, <2>3, <2>4, AfterStep DEF Loading, Lost
  <1>2. CASE AccountCode
    BY <1>2, AccountCodeLoads
  <1>3. CASE ~StartFixups /\ ~AccountCode
    <2>1. phase \in {"line", "body"} /\ line <= Len(source)
      BY <1>3 DEF Parsing, DefineLabel, EmptyLine, RejectLine, CallEqu, SetOrg, PushOpcode,
         PushDbItem, AccountDb, ReserveDs, PushDwItem, AccountDw, AtBody
    <2>2. OnLine
      BY <2>1, BodyOnLine
    <2>. QED
      BY <1>3, <2>2, DefineLabelLoads, EmptyLineLoads, SetOrgLoads, CallEquLoads,
         PushOpcodeLoads, PushDbItemLoads, AccountDbLoads, ReserveDsLoads, PushDwItemLoads,
         AccountDwLoads DEF Parsing
  <1>. QED
    BY <1>1, <1>2, <1>3

LEMMA EvaluatingLoads ==
  ASSUME FileOK, handed \in BOOLEAN, Loaded, AssembleLine, Evaluating
  PROVE  LineByLine' /\ Placed' /\ Counted'
  <1>1. LineByLine /\ Placed /\ Counted
    BY DEF Loaded
  <1>2. /\ UNCHANGED <<source, address, line, item, org, org_set, last_size, memory, mem_type>>
        /\ phase' = phase \/ phase' \in Lost
    BY DEF Evaluating, PushNumber, PushName, Negate, BinaryOp, SyntaxError, ReturnNothing,
       Step, Fail, input, program, AssembleLine, Lost
  <1>3. handed' = handed
    BY <1>2, HandedKept
  <1>. QED
    BY <1>1, <1>2, <1>3, SameStep, LostStep

LEMMA ReturnEquLoads ==
  ASSUME FileOK, Loaded, AssembleLine, ReturnEqu
  PROVE  LineByLine' /\ Placed' /\ Counted'
  <1>1. IInv /\ LineByLine /\ Placed /\ Counted
    BY DEF Loaded
  <1>2. /\ UNCHANGED <<source, address, org, org_set, last_size, memory, mem_type>>
        /\ phase = "equ" /\ phase \in Loading
    BY DEF ReturnEqu, input, program, AssembleLine, Loading
  <1>3. handed /\ line \in Nat /\ Body.k = "equ"
    BY <1>1, <1>2 DEF LineByLine, IInv, TypeOK, EquOnItsLine
  <1>4. CASE phase' = "error" /\ line' = line /\ item' = item
    BY <1>1, <1>2, <1>3, <1>4, LostStep DEF Lost
  <1>5. CASE NextLine
    <2>1. ~handed'
      <3>1. line' # line
        BY <1>3, <1>5 DEF NextLine
      <3>. QED
        BY <3>1, HandedKept
    <2>2. Lines!Length(line) = 0
      BY <1>3, BodyLength
    <2>3. Pushed = 0
      BY <1>2, <1>3 DEF Pushed
    <2>4. Lines!Length(line) = Pushed + 0 /\ Pushed \in Int /\ Size' = Size + 0
      BY <1>1, <1>2, <2>2, <2>3, SizeIsNat DEF Size
    <2>5. Len(Expand(mem_type')) = last_size'
      BY <1>1, <1>2 DEF Counted
    <2>. QED
      BY <1>1, <1>2, <1>3, <1>5, <2>1, <2>2, <2>4, <2>5, LineStep
  <1>. QED
    BY <1>4, <1>5 DEF ReturnEqu

LEMMA FixingUpLoads ==
  ASSUME FileOK, Loaded, AssembleLine, FixingUp \/ CheckLimit
  PROVE  LineByLine' /\ Placed' /\ Counted'
  <1>1. IInv /\ LineByLine /\ Counted
    BY DEF Loaded
  <1>2. /\ UNCHANGED <<source, mem_type, last_size, line, item>>
        /\ phase \in Patching \cup {"check"} /\ phase' \in Patching \cup {"check", "error", "done"}
    BY DEF FixingUp, PatchRel, PatchByte, PatchWord, NextLoop, CheckLimit, input, program, Patching
  <1>3. Size' = Size
    BY <1>1, PatchKeepsSize DEF FixingUp, NextLoop, CheckLimit, program, Size
  <1>4. phase \notin Loading \cup Lost /\ phase' \notin Loading
    BY <1>2 DEF Patching, Loading, Lost
  <1>5. ~handed /\ line = Len(source) + 1 /\ ~handed'
    BY <1>1, <1>4, HandedKept DEF LineByLine
  <1>. QED
    BY <1>1, <1>2, <1>3, <1>4, <1>5, AfterStep

\* No step changes what is assembled.
LEMMA InputKept == ASSUME Next PROVE UNCHANGED input
  BY DEF Next, Parsing, DefineLabel, EmptyLine, RejectLine, CallEqu, SetOrg, PushOpcode,
     AccountCode, PushDbItem, AccountDb, ReserveDs, PushDwItem, AccountDw, StartFixups,
     Evaluating, PushNumber, PushName, Negate, BinaryOp, SyntaxError, ReturnNothing, ReturnEqu,
     FixingUp, PatchRel, PatchByte, PatchWord, NextLoop, CheckLimit, Ended, vars, input

LEMMA AssembleLineKeeps ==
  ASSUME FileOK, handed \in BOOLEAN, Ascending, Loaded, AssembleLine
  PROVE  Loaded'
  <1>1. IInv'
    <2>1. IInv /\ Next
      BY DEF Loaded, AssembleLine
    <2>. QED
      BY <2>1, StepInv
  <1>2. LineByLine' /\ Placed' /\ Counted'
    <2>1. CASE Ended
      <3>1. UNCHANGED <<source, address, handed, phase, line, item, org, org_set, last_size,
                        memory, mem_type>>
        BY <2>1, HandedKept DEF Ended, vars, AssembleLine
      <3>. QED
        BY <3>1, SameStep DEF Loaded
    <2>2. Next
      BY DEF AssembleLine
    <2>. QED
      BY <2>1, <2>2, ParsingLoads, EvaluatingLoads, ReturnEquLoads, FixingUpLoads DEF Next
  <1>. QED
    BY <1>1, <1>2 DEF Loaded

-----------------------------------------------------------------------------
(* The loader's own actions. *)

\* A line that is handed over at its address.
LEMMA HandOver ==
  ASSUME FileOK, IInv, LineByLine, Counted, AtAddress, handed',
         UNCHANGED <<source, address, phase, line, item, last_size, mem_type>>,
         org' = address[1], org_set', org' + Size' = address[line]
  PROVE  LineByLine' /\ Placed' /\ Counted'
  <1>1. /\ phase = "line" /\ ~handed /\ line <= Len(source) /\ item = 0 /\ phase \in Loading
        /\ line \in 1 .. Len(source)
    BY FileLength DEF AtAddress, LineByLine, Loading, IInv, TypeOK
  <1>2. LineByLine'
    BY <1>1 DEF LineByLine, Loading, Lost
  <1>3. Pushed' = 0
    <2>1. Body' = Body /\ IsBody(Body)
      BY <1>1, FileBody DEF Body
    <2>2. Body.k = "db" => Lines!SumOver(Lines!ItemLengths(Body.items), 1 .. 0) = 0
      <3> SUFFICES ASSUME Body.k = "db"
                   PROVE  Lines!SumOver(Lines!ItemLengths(Body.items), 1 .. 0) = 0
        OBVIOUS
      <3> DEFINE D == DbItem
      <3>1. Body.items \in Seq(D)
        BY <2>1 DEF IsBody
      <3> HIDE DEF D
      <3>2. 0 \in 0 .. Len(Body.items)
        BY <3>1
      <3>. QED
        BY <3>1, <3>2, DbItems DEF D
    <2>3. Pushed' = IF Body.k = "db" THEN Lines!SumOver(Lines!ItemLengths(Body.items), 1 .. 0)
                    ELSE IF Body.k = "dw" THEN 2 * 0 ELSE 0
      BY <1>1, <2>1 DEF Pushed
    <2>. QED
      BY <2>2, <2>3
  <1>4. Placed'
    <2>1. address'[line'] = address[line] /\ address'[1] = address[1] /\ address[line] \in Int
      BY <1>1, FileLength, Widths DEF Word
    <2>. QED
      BY <1>3, <2>1 DEF Placed
  <1>5. Counted'
    BY DEF Counted
  <1>. QED
    BY <1>2, <1>4, <1>5

LEMMA FirstLineKeeps ==
  ASSUME FileOK, Ascending, Loaded, FirstLine
  PROVE  Loaded'
  <1>1. IInv /\ LineByLine /\ Placed /\ Counted
    BY DEF Loaded
  <1>2. /\ AtAddress /\ org = 0 /\ org' = address[line] /\ org_set' = TRUE /\ handed' = TRUE
        /\ UNCHANGED <<input, phase, line, item, todo, evaluation, last_size, memory, mem_type,
                       symbols, fixups, address>>
    BY DEF FirstLine
  <1>3. phase \in Loading /\ ~handed /\ line \in 1 .. Len(source) /\ 1 \in 1 .. Len(source)
    BY <1>1, <1>2, FileLength DEF AtAddress, Loading, IInv, TypeOK
  <1>4. address[1] # 0 /\ address[line] \in Word
    BY <1>3, AscendingIs
  <1>5. line = 1 /\ Size = 0
    BY <1>1, <1>2, <1>3, <1>4 DEF Placed
  <1>6. LineByLine' /\ Placed' /\ Counted'
    <2>1. org' = address[1] /\ org' + Size' = address[line] /\ UNCHANGED source
      BY <1>2, <1>4, <1>5, Widths DEF Size, input, Word
    <2>. QED
      BY <1>1, <1>2, <2>1, HandOver
  <1>7. IInv'
    <2>1. TypeOK'
      BY <1>1, <1>2, <1>4 DEF IInv, TypeOK, input, evaluation, symbols, fixups, IsMap
    <2>2. HolesSound' /\ TodoPending' /\ EquOnItsLine' /\ Accounted'
      BY <1>1, <1>2 DEF IInv, HolesSound, Holes, TodoPending, EquOnItsLine, Accounted, Size, Body,
         input, evaluation, symbols, fixups
    <2>. QED
      BY <2>1, <2>2 DEF IInv
  <1>. QED
    BY <1>6, <1>7 DEF Loaded

\* Where an ascending file puts a line, the memory has not ended yet.
LEMMA NewSizeGrows ==
  ASSUME FileOK, Ascending, IInv, LineByLine, Placed, AtAddress, org # 0
  PROVE  /\ org = address[1] /\ org_set /\ address[line] \in Nat
         /\ NewSize(address[line]) \in Nat /\ NewSize(address[line]) >= Size
         /\ org + NewSize(address[line]) = address[line]
  <1> DEFINE a == address[line]
             e == org + Size
  <1>1. phase \in Loading /\ ~handed /\ line \in 1 .. Len(source)
    BY FileLength DEF AtAddress, Loading, IInv, TypeOK
  <1>2. /\ line # 1 /\ org = address[1] /\ org_set
        /\ org + Size = address[line - 1] + Lines!Length(line - 1)
    BY <1>1 DEF Placed
  <1>3. line > 1
    BY <1>1, <1>2
  <1>4. a \in Word /\ a - e >= 0
    BY <1>1, <1>2, <1>3, AscendingIs
  <1>5. org \in Nat /\ Size \in Nat /\ a \in Nat /\ a < WordSize /\ WordSize \in Nat
    BY <1>4, SizeIsNat, Widths DEF IInv, TypeOK, Word
  <1>6. e \in Nat /\ e < WordSize
    BY <1>4, <1>5
  <1>7. e % WordSize = e
    <2> HIDE DEF e
    <2>. QED
      BY <1>5, <1>6
  <1>8. NewSize(a) = Size + a - e
    <2>1. NewSize(a) = Size + a - (e % WordSize)
      BY DEF NewSize
    <2>. QED
      BY <1>7, <2>1
  <1>9. Size + a - e \in Nat /\ Size + a - e >= Size /\ org + (Size + a - e) = a
    <2> HIDE DEF a
    <2>. QED
      BY <1>4, <1>5
  <1> HIDE DEF e
  <1>. QED
    BY <1>2, <1>5, <1>8, <1>9

LEMMA ResizedType ==
  ASSUME memory \in Seq(Byte), NEW size \in Nat
  PROVE  Resized(size) \in Seq(Byte) /\ Len(Resized(size)) = size
  <1>1. \A i \in 1 .. size : (IF i <= Size THEN memory[i] ELSE 0) \in Byte
    BY Widths DEF Size, Byte
  <1>. QED
    BY <1>1 DEF Resized

\* Padding only adds bytes.
LEMMA PaddingInv ==
  ASSUME IInv, memory' \in Seq(Byte), Size' \in Nat, Size' >= Size,
         UNCHANGED <<input, phase, line, item, todo, evaluation, org, org_set, last_size,
                     mem_type, symbols, fixups>>
  PROVE  IInv'
  <1>1. TypeOK'
    BY DEF IInv, TypeOK, input, evaluation, symbols, fixups, IsMap
  <1>2. HolesSound'
    <2>1. Holes' = Holes
      BY DEF Holes, fixups
    <2>2. Holes \subseteq 0 .. Size - 1 /\ Size \in Nat
      BY SizeIsNat DEF IInv, HolesSound
    <2>3. 0 .. Size - 1 \subseteq 0 .. Size' - 1
      <3> DEFINE n == Size
                 m == Size'
      <3>1. n \in Nat /\ m \in Nat /\ m >= n
        BY <2>2
      <3> HIDE DEF n, m
      <3>2. 0 .. n - 1 \subseteq 0 .. m - 1
        BY <3>1
      <3>. QED
        BY <3>2 DEF n, m
    <2>. QED
      BY <2>1, <2>2, <2>3 DEF IInv, HolesSound, fixups
  <1>3. TodoPending' /\ EquOnItsLine' /\ Accounted'
    BY SizeIsNat DEF IInv, TodoPending, EquOnItsLine, Accounted, Body, TypeOK, input, fixups
  <1>. QED
    BY <1>1, <1>2, <1>3 DEF IInv

LEMMA PlaceLineKeeps ==
  ASSUME FileOK, Ascending, Loaded, PlaceLine
  PROVE  Loaded'
  <1>1. IInv /\ LineByLine /\ Placed /\ Counted
    BY DEF Loaded
  <1> DEFINE n == NewSize(address[line])
  <1>2. AtAddress /\ org # 0 /\ UNCHANGED <<input, org, org_set, last_size, mem_type, symbols, fixups, address>>
    BY DEF PlaceLine
  <1>3. /\ org = address[1] /\ org_set /\ address[line] \in Nat
        /\ n \in Nat /\ n >= Size /\ org + n = address[line]
    BY <1>1, <1>2, NewSizeGrows
  <1>4. memory \in Seq(Byte) /\ Size \in Nat /\ org \in Nat
    BY <1>1, SizeIsNat, Widths DEF IInv, TypeOK, Word
  <1> HIDE DEF n
  <1>5. /\ handed' = TRUE /\ UNCHANGED <<phase, line, item, todo, evaluation>>
        /\ \/ memory' = memory /\ org + Size = address[line]
           \/ memory' = Resized(n)
    <2>1. ~(n < 0)
      BY <1>3
    <2>. QED
      BY <2>1 DEF PlaceLine, n
  <1>6. memory' \in Seq(Byte) /\ Size' = n
    <2>1. CASE memory' = memory /\ org + Size = address[line]
      <3>1. Size' = Size /\ Size = n
        BY <1>3, <1>4, <2>1 DEF Size
      <3>. QED
        BY <1>4, <2>1, <3>1
    <2>2. CASE memory' = Resized(n)
      BY <1>3, <1>4, <2>2, ResizedType DEF Size
    <2>. QED
      BY <1>5, <2>1, <2>2
  <1>7. IInv'
    BY <1>1, <1>2, <1>3, <1>5, <1>6, PaddingInv
  <1>8. LineByLine' /\ Placed' /\ Counted'
    <2>1. org' = address[1] /\ org_set' /\ org' + Size' = address[line] /\ handed'
          /\ UNCHANGED <<source, address, phase, line, item, last_size, mem_type>>
      BY <1>2, <1>3, <1>5, <1>6 DEF input
    <2>. QED
      BY <1>1, <1>2, <2>1, HandOver
  <1>. QED
    BY <1>7, <1>8 DEF Loaded

-----------------------------------------------------------------------------
(* The theorems. *)

LEMMA SkoolInitInv == SkoolInit => SkoolInv
  <1> SUFFICES ASSUME SkoolInit PROVE SkoolInv
    OBVIOUS
  <1>1. FileOK /\ handed = FALSE
    BY FileAssumption DEF SkoolInit, IsFile, FileOK
  <1>2. Fresh(0) /\ 0 \in Word /\ relative \in {"offset", "absolute"}
    BY Widths DEF SkoolInit, Word
  <1>3. IInv
    BY <1>1, <1>2, FreshInv DEF FileOK
  <1>4. phase = "line" /\ line = 1 /\ item = 0 /\ org = 0 /\ Size = 0 /\ last_size = 0 /\ mem_type = <<>>
    BY <1>2 DEF Fresh, Size
  <1>5. LineByLine
    BY <1>1, <1>4, FileLength DEF LineByLine, Loading, Lost
  <1>6. Placed
    BY <1>1, <1>4 DEF Placed
  <1>7. Counted
    BY <1>4, ExpandEmpty DEF Counted
  <1>. QED
    BY <1>1, <1>3, <1>5, <1>6, <1>7 DEF SkoolInv, Loaded

LEMMA SkoolStepInv == SkoolInv /\ [SkoolNext]_skoolVars => SkoolInv'
  <1> SUFFICES ASSUME SkoolInv, [SkoolNext]_skoolVars PROVE SkoolInv'
    OBVIOUS
  <1>1. FileOK /\ handed \in BOOLEAN
    BY DEF SkoolInv
  <1>2. UNCHANGED <<source, address>>
    BY InputKept DEF SkoolNext, SkipLine, FirstLine, PlaceLine, AssembleLine, skoolVars, skool,
       vars, input
  <1>3. FileOK' /\ (Ascending' <=> Ascending)
    BY <1>1, <1>2, SameAscending DEF FileOK
  <1>4. handed' \in BOOLEAN
    BY <1>1, HandedKept DEF SkoolNext, SkipLine, FirstLine, PlaceLine, skoolVars, skool
  <1>5. ASSUME Ascending PROVE Loaded'
    <2>1. Loaded
      BY <1>5 DEF SkoolInv
    <2>2. CASE SkipLine \/ UNCHANGED skoolVars
      <3>1. UNCHANGED skoolVars
        BY <2>2 DEF SkipLine
      <3>2. IInv'
        BY <2>1, <3>1, StutterInv DEF Loaded, skoolVars
      <3>3. LineByLine' /\ Placed' /\ Counted'
        BY <2>1, <3>1, SameStep DEF Loaded, skoolVars, skool, vars
      <3>. QED
        BY <3>2, <3>3 DEF Loaded
    <2>. QED
      BY <1>1, <1>5, <2>1, <2>2, FirstLineKeeps, PlaceLineKeeps, AssembleLineKeeps DEF SkoolNext
  <1>. QED
    BY <1>3, <1>4, <1>5 DEF SkoolInv

LEMMA SkoolInvariance == SkoolSpec => []SkoolInv
  BY SkoolInitInv, SkoolStepInv, PTL DEF SkoolSpec

\* Padding never cuts off a byte that a fixup names, whatever the file, as long
\* as its addresses do not go back.
THEOREM PaddingSound == SkoolSpec => []AscendingHolesSound
  <1>1. SkoolInv => AscendingHolesSound
    BY DEF SkoolInv, Loaded, IInv, AscendingHolesSound
  <1>. QED
    BY <1>1, SkoolInvariance, PTL

\* The blocks of an assembled ascending file cover its memory, but for a gap in
\* front of a last line without bytes.
THEOREM PaddingCovered == SkoolSpec => []AscendingBlocksCover
  <1>1. SkoolInv => AscendingBlocksCover
    <2> SUFFICES ASSUME SkoolInv, phase = "done", Ascending
                 PROVE  /\ Len(Expand(mem_type)) = last_size
                        /\ last_size = Size \/ Lines!Length(Len(source)) = 0
      BY DEF AscendingBlocksCover
    <2>1. FileOK /\ LineByLine /\ Counted
      BY DEF SkoolInv, Loaded
    <2>2. ~handed /\ line = Len(source) + 1 /\ phase \notin Lost /\ Len(source) \in Nat
      BY <2>1, FileLength DEF LineByLine, Loading, Lost
    <2>3. line - 1 = Len(source)
      BY <2>2
    <2>. QED
      BY <2>1, <2>2, <2>3 DEF Counted
  <1>. QED
    BY <1>1, SkoolInvariance, PTL

-----------------------------------------------------------------------------
(* The text a file stands for, and the assembler on it: what Abstract says *)
(* of a text in AssemblerRefinement is what Text says of it.               *)

P == INSTANCE AssemblerRefinement_proofs WITH
  Sources <- Seq(TextLine), DefaultOrg <- 0, source <- Spelled, line <- Place,
  last_size <- ClosedSize, mem_type <- ClosedBlocks

LEMMA TextLines ==
  /\ P!Abstract!Lines = Text!Lines
  /\ \A i : P!Abstract!Body(i) = Text!Body(i)
  /\ \A k : P!Abstract!Is(k) = Text!Is(k)
  /\ \A n : P!Abstract!LabelLines(n) = Text!LabelLines(n)
  /\ \A n : P!Abstract!EquLines(n) = Text!EquLines(n)
  /\ \A S : P!Abstract!The(S) = Text!The(S)
  BY DEF P!Abstract!Lines, P!Abstract!Body, P!Abstract!Is, P!Abstract!The, P!Abstract!LabelLines, P!Abstract!EquLines,
     Text!Lines, Text!Body, Text!Is, Text!The, Text!LabelLines, Text!EquLines

LEMMA TextSums ==
  \A f, S : P!Abstract!SumOver(f, S) = Text!SumOver(f, S)
  BY DEF P!Abstract!SumOver, P!Abstract!MapThenSumSet, P!Abstract!MapThenFoldSet, Text!SumOver, Text!MapThenSumSet,
     Text!MapThenFoldSet

LEMMA TextLengths ==
  /\ \A items : P!Abstract!ItemLengths(items) = Text!ItemLengths(items)
  /\ \A i : P!Abstract!Length(i) = Text!Length(i)
  <1>1. \A items : P!Abstract!ItemLengths(items) = Text!ItemLengths(items)
    BY DEF P!Abstract!ItemLengths, Text!ItemLengths, P!Abstract!ItemLength, Text!ItemLength
  <1>. QED
    BY <1>1, TextLines, TextSums DEF P!Abstract!Length, Text!Length

LEMMA TextStarts ==
  /\ \A i : P!Abstract!Start(i) = Text!Start(i)
  /\ \A i : P!Abstract!OrgAt(i) = Text!OrgAt(i)
  /\ P!Abstract!Org = Text!Org
  <1>1. \A i : P!Abstract!Start(i) = Text!Start(i)
    <2>1. [j \in P!Abstract!Lines |-> P!Abstract!Length(j)] = [j \in Text!Lines |-> Text!Length(j)]
      BY TextLines, TextLengths
    <2>. QED
      BY <2>1, TextSums DEF P!Abstract!Start, Text!Start
  <1>2. \A i : P!Abstract!OrgAt(i) = Text!OrgAt(i)
    <2> SUFFICES ASSUME NEW i PROVE P!Abstract!OrgAt(i) = Text!OrgAt(i)
      OBVIOUS
    <2>1. {j \in P!Abstract!Is("org") : j < i} = {j \in Text!Is("org") : j < i}
      BY TextLines
    <2>. QED
      BY <2>1, TextLines DEF P!Abstract!OrgAt, Text!OrgAt
  <1>. QED
    BY <1>1, <1>2 DEF P!Abstract!Org, Text!Org

LEMMA TextArithmetic ==
  /\ \A v : P!Abstract!Wrap(v) = Text!Wrap(v)
  /\ \A op, x, y : P!Abstract!Apply(op, x, y) = Text!Apply(op, x, y)
  /\ \A op, x, y : P!Abstract!Traps(op, x, y) <=> Text!Traps(op, x, y)
  <1>1. \A v : P!Abstract!Wrap(v) = Text!Wrap(v)
    BY DEF P!Abstract!Wrap, Text!Wrap, P!Abstract!IntSize, Text!IntSize
  <1>2. \A x, y : P!Abstract!CDiv(x, y) = Text!CDiv(x, y)
    BY DEF P!Abstract!CDiv, Text!CDiv
  <1>3. \A op, x, y : P!Abstract!Apply(op, x, y) = Text!Apply(op, x, y)
    BY <1>1, <1>2 DEF P!Abstract!Apply, Text!Apply
  <1>4. \A op, x, y : P!Abstract!Traps(op, x, y) <=> Text!Traps(op, x, y)
    BY DEF P!Abstract!Traps, Text!Traps, P!Abstract!MinInt, Text!MinInt, P!Abstract!IntSize, Text!IntSize
  <1>. QED
    BY <1>1, <1>3, <1>4

LEMMA TextReduce ==
  \A stacks, t, meaning : P!Abstract!Reduce(stacks, t, meaning) = Text!Reduce(stacks, t, meaning)
  <1>1. \A s : P!Abstract!Front(s) = Text!Front(s) /\ P!Abstract!Last(s) = Text!Last(s)
    BY DEF P!Abstract!Front, Text!Front, P!Abstract!Last, Text!Last
  <1> SUFFICES ASSUME NEW stacks, NEW t, NEW meaning
               PROVE  P!Abstract!Reduce(stacks, t, meaning) = Text!Reduce(stacks, t, meaning)
    OBVIOUS
  <1>2. {Append(P!Abstract!Front(s), P!Abstract!Wrap(-P!Abstract!Last(s))) : s \in stacks}
          = {Append(Text!Front(s), Text!Wrap(-Text!Last(s))) : s \in stacks}
    BY <1>1, TextArithmetic
  <1>3. {s \in stacks : ~P!Abstract!Traps(t.t, P!Abstract!Last(P!Abstract!Front(s)), P!Abstract!Last(s))}
          = {s \in stacks : ~Text!Traps(t.t, Text!Last(Text!Front(s)), Text!Last(s))}
    BY <1>1, TextArithmetic
  <1>4. \A S : {Append(P!Abstract!Front(P!Abstract!Front(s)), P!Abstract!Apply(t.t, P!Abstract!Last(P!Abstract!Front(s)), P!Abstract!Last(s))) : s \in S}
          = {Append(Text!Front(Text!Front(s)), Text!Apply(t.t, Text!Last(Text!Front(s)), Text!Last(s))) : s \in S}
    BY <1>1, TextArithmetic
  <1>5. CASE t.t = "num"
    BY <1>5 DEF P!Abstract!Reduce, Text!Reduce
  <1>6. CASE t.t = "name"
    BY <1>6 DEF P!Abstract!Reduce, Text!Reduce
  <1>7. CASE t.t = "neg"
    BY <1>2, <1>7 DEF P!Abstract!Reduce, Text!Reduce
  <1>8. CASE t.t \notin {"num", "name", "neg"}
    <2> DEFINE S == {s \in stacks : ~Text!Traps(t.t, Text!Last(Text!Front(s)), Text!Last(s))}
    <2>1. P!Abstract!Reduce(stacks, t, meaning)
            = {Append(P!Abstract!Front(P!Abstract!Front(s)), P!Abstract!Apply(t.t, P!Abstract!Last(P!Abstract!Front(s)), P!Abstract!Last(s))) : s \in S}
      BY <1>3, <1>8 DEF P!Abstract!Reduce
    <2>2. Text!Reduce(stacks, t, meaning)
            = {Append(Text!Front(Text!Front(s)), Text!Apply(t.t, Text!Last(Text!Front(s)), Text!Last(s))) : s \in S}
      BY <1>8 DEF Text!Reduce
    <2> HIDE DEF S
    <2>. QED
      BY <1>4, <2>1, <2>2
  <1>. QED
    BY <1>5, <1>6, <1>7, <1>8

LEMMA TextStacks ==
  /\ \A e, meaning : P!Abstract!Stacks(e, meaning) = Text!Stacks(e, meaning)
  /\ \A e, meaning : P!Abstract!Values(e, meaning) = Text!Values(e, meaning)
  <1>1. ASSUME NEW e, NEW meaning
        PROVE P!Abstract!Stacks(e, meaning) = Text!Stacks(e, meaning)
    BY TextReduce DEF P!Abstract!Stacks, Text!Stacks
  <1>2. \A s : P!Abstract!Last(s) = Text!Last(s)
    BY DEF P!Abstract!Last, Text!Last
  <1>. QED
    BY <1>1, <1>2 DEF P!Abstract!Values, Text!Values

\* A meaning, with the meanings before it given.
LEMMA TextMeanings == P!Abstract!Meanings = Text!Meanings
  <1>1. \A n, i : /\ {j \in P!Abstract!LabelLines(n) : j < i} = {j \in Text!LabelLines(n) : j < i}
                  /\ {j \in P!Abstract!EquLines(n) : j < i} = {j \in Text!EquLines(n) : j < i}
    BY TextLines
  <1>2. \A S : P!Abstract!Max(S) = Text!Max(S)
    BY DEF P!Abstract!Max, Text!Max
  <1>. QED
    BY <1>1, <1>2, TextLines, TextStarts, TextStacks DEF P!Abstract!Meanings, Text!Meanings

LEMMA TextOperands ==
  /\ \A e : P!Abstract!HasDollar(e) <=> Text!HasDollar(e)
  /\ \A i : P!Abstract!Operands(i) = Text!Operands(i)
  <1>1. \A e, v : P!Abstract!ReplaceDollar(e, v) = Text!ReplaceDollar(e, v)
    BY DEF P!Abstract!ReplaceDollar, Text!ReplaceDollar
  <1>2. ASSUME NEW i PROVE P!Abstract!Operands(i) = Text!Operands(i)
    BY <1>1, TextLines, TextStarts, TextLengths, TextSums DEF P!Abstract!Operands, Text!Operands
  <1>. QED
    BY <1>2 DEF P!Abstract!HasDollar, Text!HasDollar

LEMMA TextValues ==
  /\ \A i, x : P!Abstract!Distance(i, x) = Text!Distance(i, x)
  /\ \A i, x : P!Abstract!Stored(i, x) = Text!Stored(i, x)
  <1>1. \A x : P!Abstract!Value(x) = Text!Value(x)
    BY TextMeanings, TextStacks, TextLines DEF P!Abstract!Value, Text!Value, P!Abstract!Final, Text!Final
  <1>2. \A i, x : P!Abstract!Distance(i, x) = Text!Distance(i, x)
    BY <1>1, TextStarts DEF P!Abstract!Distance, Text!Distance
  <1>. QED
    BY <1>1, <1>2 DEF P!Abstract!Stored, Text!Stored

LEMMA TextBytes ==
  \A i : P!Abstract!Bytes(i) = Text!Bytes(i)
  <1>1. \A s : P!Abstract!FlattenSeq(s) = Text!FlattenSeq(s)
    BY DEF P!Abstract!FlattenSeq, Text!FlattenSeq
  <1>2. \A i : P!Abstract!Skeleton(i) = Text!Skeleton(i)
    BY <1>1, TextLines, TextLengths DEF P!Abstract!Skeleton, Text!Skeleton
  <1>3. ASSUME NEW i PROVE P!Abstract!Bytes(i) = Text!Bytes(i)
    BY <1>2, TextLines, TextLengths, TextOperands, TextValues DEF P!Abstract!Bytes, Text!Bytes
  <1>. QED
    BY <1>3

LEMMA TextImage == P!Abstract!Image.org = Text!Image.org /\ P!Abstract!Image.memory = Text!Image.memory
  <1>1. \A s : P!Abstract!FlattenSeq(s) = Text!FlattenSeq(s)
    BY DEF P!Abstract!FlattenSeq, Text!FlattenSeq
  <1>2. [i \in P!Abstract!Lines |-> P!Abstract!Bytes(i)] = [i \in Text!Lines |-> Text!Bytes(i)]
    BY TextLines, TextBytes
  <1>. QED
    BY <1>1, <1>2, TextStarts DEF P!Abstract!Image, Text!Image

LEMMA TextUnknown ==
  /\ \A t, i : P!Abstract!Unknown(t, i) <=> Text!Unknown(t, i)
  /\ \A e, i : P!Abstract!UsesUnknown(e, i) <=> Text!UsesUnknown(e, i)
  <1>1. \A i : P!Abstract!KnownAt(i) = Text!KnownAt(i)
    BY TextLines DEF P!Abstract!KnownAt, Text!KnownAt
  <1>. QED
    BY <1>1 DEF P!Abstract!Unknown, Text!Unknown, P!Abstract!UsesUnknown, Text!UsesUnknown

LEMMA TextUnreadable == P!Abstract!Unreadable <=> Text!Unreadable
  <1>1. \A S : P!Abstract!Cardinality(S) = Text!Cardinality(S)
    BY DEF P!Abstract!Cardinality, Text!Cardinality
  <1>2. P!Abstract!Clash <=> Text!Clash
    BY <1>1, TextLines DEF P!Abstract!Clash, Text!Clash
  <1>. QED
    BY <1>2, TextLines, TextUnknown, TextOperands DEF P!Abstract!Unreadable, Text!Unreadable

LEMMA TextRefused == P!Abstract!Refused <=> Text!Refused
  <1>1. \A v : P!Abstract!InReach(v) <=> Text!InReach(v)
    BY DEF P!Abstract!InReach, Text!InReach
  <1>. QED
    BY <1>1, TextLines, TextStarts, TextUnknown, TextUnreadable, TextOperands, TextValues
    DEF P!Abstract!Refused, Text!Refused

LEMMA TextPromised == P!Abstract!Promised <=> Text!Promised
  <1>1. \A e, i : P!Abstract!Evaluates(e, i) <=> Text!Evaluates(e, i)
    BY TextOperands, TextStacks, TextMeanings, TextUnknown DEF P!Abstract!Evaluates, Text!Evaluates
  <1>. QED
    BY <1>1, TextLines, TextUnreadable, TextOperands DEF P!Abstract!Promised, Text!Promised

\* What a text is made of does not depend on where it is used.
LEMMA SameData ==
  /\ P!Byte = Byte /\ P!Word = Word /\ P!CInt = CInt
  /\ \A e : P!HasDollar(e) <=> HasDollar(e)
  /\ \A D : P!WordCells(D) = WordCells(D)
  /\ P!Expr = Expr /\ P!DbItem = DbItem
  <1>1. P!Byte = Byte /\ P!Word = Word /\ P!CInt = CInt
    BY DEF P!Byte, Byte, P!Word, Word, P!CInt, CInt, P!MinInt, MinInt, P!IntSize, IntSize
  <1>2. \A e : P!HasDollar(e) <=> HasDollar(e)
    BY DEF P!HasDollar, HasDollar
  <1>3. \A D : P!WordCells(D) = WordCells(D)
    BY DEF P!WordCells, WordCells
  <1>4. P!Operators = Operators /\ P!Token = Token
    BY <1>1 DEF P!Token, Token, P!Operators, Operators
  <1>5. \A t : P!Arity(t) = Arity(t)
    BY <1>4 DEF P!Arity, Arity
  <1>6. ASSUME NEW e PROVE P!Height(e) = Height(e)
    BY <1>5 DEF P!Height, Height
  <1>7. P!Expr = Expr
    BY <1>4, <1>5, <1>6 DEF P!Expr, Expr
  <1>8. P!DbItem = DbItem
    BY <1>1, <1>7 DEF P!DbItem, DbItem
  <1>. QED
    BY <1>1, <1>2, <1>3, <1>7, <1>8

LEMMA SameBodies == \A b : P!IsBody(b) <=> IsBody(b)
  <1>1. \A f : P!IsTemplate(f) <=> IsTemplate(f)
    BY SameData DEF P!IsTemplate, IsTemplate
  <1>. QED
    BY <1>1, SameData DEF P!IsBody, IsBody

LEMMA TextLineIs ==
  ASSUME NEW l \in TextLine
  PROVE  /\ l.label \in Names \cup {NoName}
         /\ IsBody(l.body)
         /\ l.body.k \in {"equ", "org"} => l.label = NoName
         /\ l.body.k = "opcode" => \A o \in DOMAIN l.body.form.word : l.body.form.word[o].back = o + 2
  <1>1. CASE l \in UNION {ToSet(s) : s \in Sources}
    <2>1. PICK s \in Sources : \E i \in DOMAIN s : l = s[i]
      BY <1>1 DEF ToSet
    <2>2. PICK i \in 1 .. Len(s) : l = s[i]
      BY <2>1, SourceAssumption DEF IsSource
    <2>. QED
      BY <2>2, SourceAssumption, DollarAssumption DEF IsSource
  <1>2. CASE l \in [label : {NoName}, body : [k : {"org", "ds"}, literal : Nat]]
    BY <1>2 DEF IsBody
  <1>. QED
    BY <1>1, <1>2 DEF TextLine

LEMMA TextSourceIs == P!SourceAssumption
  <1> SUFFICES ASSUME NEW s \in Seq(TextLine) PROVE P!IsSource(s)
    BY DEF P!SourceAssumption
  <1> DEFINE L == TextLine
  <1>1. s \in Seq(L)
    OBVIOUS
  <1>2. \A i \in 1 .. Len(s) : s[i] \in TextLine
    <2> HIDE DEF L
    <2>1. \A i \in 1 .. Len(s) : s[i] \in L
      BY <1>1
    <2>. QED
      BY <2>1 DEF L
  <1>3. Len(s) \in Nat /\ DOMAIN s = 1 .. Len(s)
    <2> HIDE DEF L
    <2>. QED
      BY <1>1
  <1>. QED
    BY <1>2, <1>3, TextLineIs, SameBodies DEF P!IsSource

LEMMA TextDollarIs == P!DollarAssumption
  <1> SUFFICES ASSUME NEW s \in Seq(TextLine), NEW i \in 1 .. Len(s)
               PROVE  s[i].body.k = "opcode" =>
                        \A o \in DOMAIN s[i].body.form.word : s[i].body.form.word[o].back = o + 2
    BY DEF P!DollarAssumption
  <1>1. s[i] \in TextLine
    <2> DEFINE L == TextLine
    <2> HIDE DEF L
    <2>1. s \in Seq(L)
      BY DEF L
    <2>2. s[i] \in L
      BY <2>1
    <2>. QED
      BY <2>2 DEF L
  <1>. QED
    BY <1>1, TextLineIs

LEMMA TextAssumptions ==
  /\ P!WidthAssumption /\ P!OrgAssumption /\ P!NameAssumption
  /\ P!SourceAssumption /\ P!BitAssumption /\ P!DollarAssumption
  <1>1. P!WidthAssumption
    BY WidthAssumption DEF P!WidthAssumption
  <1>2. P!OrgAssumption
    BY SameData, Widths DEF P!OrgAssumption, Word
  <1>3. P!NameAssumption
    BY NameAssumption DEF P!NameAssumption
  <1>4. P!BitAssumption
    BY BitAssumption, SameData DEF P!BitAssumption
  <1>. QED
    BY <1>1, <1>2, <1>3, <1>4, TextSourceIs, TextDollarIs

LEMMA LengthType ==
  ASSUME FileOK, NEW i \in 1 .. Len(source)
  PROVE  Lines!Length(i) \in Nat
  <1>1. Lines!Length(i) = Abstract!Length(i)
    <2>1. \A f, S : Lines!SumOver(f, S) = Abstract!SumOver(f, S)
      BY SumOverIs, SumIs
    <2>2. \A items : Lines!ItemLengths(items) = Abstract!ItemLengths(items)
      BY DEF Lines!ItemLengths, Abstract!ItemLengths, Lines!ItemLength, Abstract!ItemLength
    <2>. QED
      BY <2>1, <2>2 DEF Lines!Length, Abstract!Length, Lines!Body, Abstract!Body
  <1>. QED
    BY <1>1, StartIs, SourceIs DEF FileOK

\* A gap of an ascending file is a number of bytes an address can have.
LEMMA AscendingGap ==
  ASSUME FileOK, Ascending, NEW i \in 1 .. Len(source), i # 1
  PROVE  Gap(i) \in Nat /\ Gap(i) < WordSize /\ Gap(i) % WordSize = Gap(i)
  <1>1. Len(source) \in Nat /\ i > 1 /\ i - 1 \in 1 .. Len(source)
    BY FileLength
  <1>2. Gap(i) = address[i] - (address[i - 1] + Lines!Length(i - 1)) /\ Gap(i) >= 0
    BY <1>1, AscendingIs DEF Gap
  <1>3. Lines!Length(i - 1) \in Nat
    BY <1>1, LengthType
  <1>4. address[i] \in Word /\ address[i - 1] \in Word
    BY <1>1, FileLength
  <1>5. \A g, a, b, l \in Int : g = a - (b + l) /\ b >= 0 /\ l >= 0 /\ a < WordSize => g < WordSize
    BY Widths
  <1>6. Gap(i) \in Nat /\ Gap(i) < WordSize
    BY <1>2, <1>3, <1>4, <1>5, Widths DEF Word
  <1>. QED
    BY <1>6, Widths

LEMMA SpelledIs ==
  ASSUME FileOK
  PROVE  /\ Len(source) \in Nat /\ Len(Spelled) = 2 * Len(source) /\ Len(Spelled) \in Nat
         /\ DOMAIN Spelled = 1 .. Len(Spelled)
         /\ \A i \in 1 .. Len(source) :
              /\ 2 * i \in 1 .. Len(Spelled) /\ 2 * i - 1 \in 1 .. Len(Spelled)
              /\ Spelled[2 * i] = source[i]
              /\ Spelled[2 * i - 1] =
                   Unlabelled(IF i = 1 THEN [k |-> "org", literal |-> address[1]]
                              ELSE [k |-> "ds", literal |-> Gap(i)])
  <1> DEFINE n == Len(source)
             Placing(i) == Unlabelled(IF i = 1 THEN [k |-> "org", literal |-> address[1]]
                                      ELSE [k |-> "ds", literal |-> Gap(i)])
             At(j) == IF j % 2 = 0 THEN source[(j + 1) \div 2] ELSE Placing((j + 1) \div 2)
  <1>1. n \in Nat
    BY FileLength
  <1>2. Spelled = [j \in 1 .. 2 * n |-> At(j)]
    BY Zenon DEF Spelled
  <1> HIDE DEF n, At, Placing
  <1>3. Len(Spelled) = 2 * n /\ DOMAIN Spelled = 1 .. 2 * n /\ 2 * n \in Nat
    BY <1>1, <1>2
  <1>4. ASSUME NEW i \in 1 .. n
        PROVE  /\ 2 * i \in 1 .. 2 * n /\ 2 * i - 1 \in 1 .. 2 * n
               /\ (2 * i) % 2 = 0 /\ (2 * i - 1) % 2 # 0
               /\ (2 * i + 1) \div 2 = i /\ ((2 * i - 1) + 1) \div 2 = i
    BY <1>1, SMT
  <1>5. ASSUME NEW i \in 1 .. n
        PROVE  Spelled[2 * i] = source[i] /\ Spelled[2 * i - 1] = Placing(i)
    <2>1. Spelled[2 * i] = At(2 * i) /\ Spelled[2 * i - 1] = At(2 * i - 1)
      BY <1>2, <1>4
    <2>2. At(2 * i) = source[i] /\ At(2 * i - 1) = Placing(i)
      BY <1>4 DEF At
    <2>. QED
      BY <2>1, <2>2
  <1>. QED
    BY <1>1, <1>3, <1>4, <1>5 DEF n, Placing

\* Every line of a file's text is a line of Spelled, or what places one.
LEMMA SpelledType ==
  ASSUME FileOK, Ascending
  PROVE  Spelled \in Seq(TextLine)
  <1> DEFINE n == Len(source)
             L == TextLine
  <1>1. n \in Nat /\ Len(Spelled) = 2 * n /\ DOMAIN Spelled = 1 .. 2 * n
    BY SpelledIs
  <1>2. ASSUME NEW i \in 1 .. n
        PROVE  source[i] \in TextLine
    <2>1. i \in DOMAIN source /\ source \in Sources
      BY SourceAssumption DEF FileOK, IsSource
    <2>2. source[i] \in ToSet(source)
      BY <2>1 DEF ToSet
    <2>3. source[i] \in UNION {ToSet(s) : s \in Sources}
      BY <2>1, <2>2
    <2>. QED
      BY <2>3 DEF TextLine
  <1>3. ASSUME NEW i \in 1 .. n
        PROVE  Spelled[2 * i - 1] \in TextLine
    <2> DEFINE body == IF i = 1 THEN [k |-> "org", literal |-> address[1]]
                       ELSE [k |-> "ds", literal |-> Gap(i)]
    <2>1. address[1] \in Nat
      <3>1. 1 \in 1 .. n
        BY <1>1
      <3>. QED
        BY <3>1, AscendingIs, Widths DEF Word
    <2>2. i # 1 => Gap(i) \in Nat
      BY AscendingGap
    <2>3. body \in [k : {"org", "ds"}, literal : Nat]
      BY <2>1, <2>2
    <2>4. Spelled[2 * i - 1] = Unlabelled(body)
      BY SpelledIs
    <2> HIDE DEF body
    <2>5. Spelled[2 * i - 1] \in [label : {NoName}, body : [k : {"org", "ds"}, literal : Nat]]
      BY <2>3, <2>4 DEF Unlabelled
    <2>. QED
      BY <2>5 DEF TextLine
  <1>4. ASSUME NEW j \in 1 .. 2 * n
        PROVE  Spelled[j] \in TextLine
    <2>1. PICK i \in 1 .. n : j = 2 * i \/ j = 2 * i - 1
      <3>1. ((j + 1) \div 2) \in 1 .. n /\ (j = 2 * ((j + 1) \div 2) \/ j = 2 * ((j + 1) \div 2) - 1)
        BY <1>1, SMT
      <3>. QED
        BY <3>1
    <2>. QED
      BY <1>2, <1>3, <2>1, SpelledIs
  <1>5. \A j \in 1 .. 2 * n : Spelled[j] \in L
    BY <1>4
  <1>6. Spelled = [j \in 1 .. 2 * n |-> Spelled[j]]
    BY <1>1 DEF Spelled
  <1>7. 2 * n \in Nat
    BY <1>1
  <1>8. Spelled \in Seq(L)
    <2> HIDE DEF L
    <2>. QED
      BY <1>5, <1>6, <1>7
  <1>. QED
    BY <1>8

LEMMA TextStart ==
  ASSUME FileOK, Ascending
  PROVE  /\ Text!Start(1) = 0
         /\ \A j \in 1 .. Len(Spelled) + 1 : Text!Start(j) \in Nat
         /\ \A j \in 1 .. Len(Spelled) :
              Text!Length(j) \in Nat /\ Text!Start(j + 1) = Text!Start(j) + Text!Length(j)
  <1>1. Spelled \in Seq(TextLine)
    BY SpelledType
  <1>2. P!Abstract!Lines = 1 .. Len(Spelled)
    BY DEF P!Abstract!Lines
  <1>. QED
    BY <1>1, <1>2, P!StartIs, TextAssumptions, TextStarts, TextLengths

\* Adding n bytes to the blocks.
LEMMA FilledType ==
  ASSUME NEW m \in Seq(Blocks), NEW type \in {"code", "db", "ds", "dw"}, NEW n \in Nat
  PROVE  Filled(m, type, n) \in Seq(Blocks)
  <1>1. CASE m = <<>> \/ m[Len(m)].type # type
    <2>1. Filled(m, type, n) = Append(m, [type |-> type, count |-> n])
      BY <1>1 DEF Filled
    <2>2. [type |-> type, count |-> n] \in Blocks
      BY DEF Blocks
    <2>. QED
      BY <2>1, <2>2
  <1>2. CASE ~(m = <<>> \/ m[Len(m)].type # type)
    <2> DEFINE l == Len(m)
               sum == m[l].count + n
               last == [m[l] EXCEPT !.count = sum]
    <2>1. l \in 1 .. Len(m) /\ m[l] \in Blocks
      BY <1>2
    <2>2. Filled(m, type, n) = [m EXCEPT ![l] = last]
      BY <1>2 DEF Filled
    <2>3. sum \in Nat
      BY <2>1, SMT DEF Blocks
    <2>4. last \in Blocks
      BY <2>1, <2>3, SMT DEF Blocks
    <2> HIDE DEF l, last
    <2>. QED
      BY <2>1, <2>2, <2>4
  <1>. QED
    BY <1>1, <1>2

LEMMA LineFilledType ==
  ASSUME FileOK, Ascending, NEW i \in 1 .. Len(Spelled), NEW m \in Seq(Blocks)
  PROVE  LineFilled(m, i) \in Seq(Blocks)
  <1> DEFINE n == Text!Length(i)
  <1>1. n \in Nat
    BY TextStart
  <1>2. LineKind(i) \in {"opcode", "db", "ds", "dw"} => LineType(i) \in {"code", "db", "ds", "dw"}
    BY DEF LineType
  <1>3. LineFilled(m, i) = IF LineKind(i) \notin {"opcode", "db", "ds", "dw"} THEN m
                          ELSE Filled(m, LineType(i), n)
    BY DEF LineFilled
  <1> HIDE DEF n
  <1>. QED
    BY <1>1, <1>2, <1>3, FilledType

IsBlocked(g, N) == g = [i \in 0 .. N |-> IF i = 0 THEN <<>> ELSE LineFilled(g[i - 1], i)]

LEMMA BlockedIs ==
  ASSUME FileOK, Ascending
  PROVE  /\ Blocked[0] = <<>>
         /\ \A i \in 1 .. Len(Spelled) : Blocked[i] = LineFilled(Blocked[i - 1], i)
         /\ \A i \in 0 .. Len(Spelled) : Blocked[i] \in Seq(Blocks)
  <1> DEFINE N == Len(Spelled)
             V == Seq(Blocks)
             next == [i \in 1 .. N |-> [m \in V |-> LineFilled(m, i)]]
  <1>1. N \in Nat
    BY SpelledIs
  <1>2. \A i \in 1 .. N : \A m \in V : LineFilled(m, i) \in V
    BY LineFilledType
  <1>3. <<>> \in V
    OBVIOUS
  <1> HIDE DEF N, V
  <1>4. next \in [1 .. N -> [V -> V]]
    BY <1>2
  <1>5. PICK g : Iterates(g, N, V, <<>>, next)
    <2> HIDE DEF next
    <2>. QED
      BY <1>1, <1>3, <1>4, Recursion
  <1>6. g \in [0 .. N -> V] /\ g[0] = <<>> /\ \A i \in 1 .. N : g[i] = next[i][g[i - 1]]
    BY <1>5 DEF Iterates
  <1>7. ASSUME NEW i \in 0 .. N
        PROVE  g[i] = IF i = 0 THEN <<>> ELSE LineFilled(g[i - 1], i)
    <2>1. CASE i = 0
      BY <1>6, <2>1
    <2>2. CASE i # 0
      <3>1. i \in 1 .. N /\ i - 1 \in 0 .. N
        BY <1>1, <2>2
      <3>2. g[i - 1] \in V /\ g[i] = next[i][g[i - 1]]
        BY <1>6, <3>1
      <3>3. next[i][g[i - 1]] = LineFilled(g[i - 1], i)
        BY <3>1, <3>2
      <3>. QED
        BY <2>2, <3>2, <3>3
    <2>. QED
      BY <2>1, <2>2
  <1>8. IsBlocked(g, N)
    <2>1. g = [i \in 0 .. N |-> g[i]]
      BY <1>6
    <2>2. g = [i \in 0 .. N |-> IF i = 0 THEN <<>> ELSE LineFilled(g[i - 1], i)]
      BY <1>7, <2>1
    <2>. QED
      BY <2>2, Zenon DEF IsBlocked
  <1>9. Blocked = CHOOSE f : IsBlocked(f, Len(Spelled))
    BY DEF Blocked, IsBlocked
  <1>10. IsBlocked(Blocked, N)
    BY <1>8, <1>9 DEF N
  <1>11. \A i \in 0 .. N : Blocked[i] = IF i = 0 THEN <<>> ELSE LineFilled(Blocked[i - 1], i)
    BY <1>10, Zenon DEF IsBlocked
  <1>12. Blocked[0] = <<>> /\ \A i \in 1 .. N : Blocked[i] = LineFilled(Blocked[i - 1], i)
    BY <1>1, <1>11
  <1> DEFINE Q == {i \in Nat : i <= N => Blocked[i] \in V}
  <1>13. \A i \in Nat : i \in Q
    <2>1. 0 \in Q
      BY <1>3, <1>12
    <2>2. ASSUME NEW i \in Nat, i \in Q
          PROVE  i + 1 \in Q
      <3> SUFFICES ASSUME i + 1 <= N PROVE Blocked[i + 1] \in V
        OBVIOUS
      <3>1. i + 1 \in 1 .. N /\ (i + 1) - 1 = i /\ Blocked[i] \in V
        BY <1>1, <2>2
      <3>. QED
        BY <1>2, <1>12, <3>1
    <2> HIDE DEF Q
    <2>. QED
      BY <2>1, <2>2, NaturalInduction
  <1>14. \A i \in 0 .. N : Blocked[i] \in V
    BY <1>1, <1>13
  <1>. QED
    BY <1>12, <1>14 DEF N, V

-----------------------------------------------------------------------------
(* The text stays; the place in it moves. *)

LEMMA SpelledStays ==
  ASSUME source' = source, address' = address
  PROVE  Spelled' = Spelled
  <1>1. \A i : Gap(i)' = Gap(i)
    BY SameLengths DEF Gap
  <1>2. \A j : LET i == (j + 1) \div 2 IN
          (IF j % 2 = 0 THEN source[i]
           ELSE Unlabelled(IF i = 1 THEN [k |-> "org", literal |-> address[1]]
                           ELSE [k |-> "ds", literal |-> Gap(i)]))'
          = (IF j % 2 = 0 THEN source[i]
             ELSE Unlabelled(IF i = 1 THEN [k |-> "org", literal |-> address[1]]
                             ELSE [k |-> "ds", literal |-> Gap(i)]))
    BY <1>1 DEF Unlabelled
  <1>. QED
    BY <1>2 DEF Spelled

LEMMA TextStays ==
  ASSUME source' = source, address' = address
  PROVE  /\ \A i : Text!Body(i)' = Text!Body(i)
         /\ \A i : Text!Length(i)' = Text!Length(i)
         /\ \A i : Text!Start(i)' = Text!Start(i)
  <1>1. Spelled' = Spelled
    BY SpelledStays
  <1>2. \A i : Text!Body(i)' = Text!Body(i)
    BY <1>1 DEF Text!Body
  <1>3. \A items : Text!ItemLengths(items)' = Text!ItemLengths(items)
    BY DEF Text!ItemLengths, Text!ItemLength
  <1>4. \A i : Text!Length(i)' = Text!Length(i)
    BY <1>1, <1>2, <1>3 DEF Text!Length
  <1> DEFINE f == [j \in Text!Lines |-> Text!Length(j)]
  <1>5. f' = f
    BY <1>1, <1>4 DEF Text!Lines
  <1>6. \A i : Text!Start(i) = Text!SumOver(f, 1 .. i - 1)
    BY DEF Text!Start
  <1>7. \A i : Text!Start(i)' = Text!SumOver(f', 1 .. i - 1)
    BY DEF Text!Start
  <1>. QED
    BY <1>2, <1>4, <1>5, <1>6, <1>7

LEMMA LinesStay ==
  ASSUME source' = source, address' = address
  PROVE  \A m, i : LineFilled(m, i)' = LineFilled(m, i)
  <1>1. \A i : LineKind(i)' = LineKind(i) /\ LineType(i)' = LineType(i)
    BY TextStays DEF LineKind, LineType
  <1>2. \A m, type, n : Filled(m, type, n)' = Filled(m, type, n)
    BY DEF Filled
  <1>3. ASSUME NEW m, NEW i
        PROVE  LineFilled(m, i)' = LineFilled(m, i)
    <2>1. LineKind(i)' = LineKind(i) /\ LineType(i)' = LineType(i) /\ Text!Length(i)' = Text!Length(i)
      BY <1>1, TextStays
    <2> DEFINE kind == LineKind(i)
               type == LineType(i)
               n == Text!Length(i)
               a == Filled(m, type, n)
    <2>2. a' = a
      BY <2>1 DEF Filled
    <2>3. LineFilled(m, i) = IF kind \notin {"opcode", "db", "ds", "dw"} THEN m ELSE a
      BY Zenon DEF LineFilled
    <2>4. LineFilled(m, i)' = IF kind' \notin {"opcode", "db", "ds", "dw"} THEN m ELSE a'
      BY Zenon DEF LineFilled
    <2>. QED
      BY <2>1, <2>2, <2>3, <2>4
  <1>. QED
    BY <1>3

\* BlockedIs, with the line before given.
LEMMA BlockedBefore ==
  ASSUME FileOK, Ascending
  PROVE  /\ Blocked[0] = <<>>
         /\ \A i \in 1 .. Len(Spelled) : \A m : m = Blocked[i - 1] => Blocked[i] = LineFilled(m, i)
  BY BlockedIs

LEMMA BlockedBeforeNext ==
  (FileOK /\ Ascending =>
     /\ Blocked[0] = <<>>
     /\ \A i \in 1 .. Len(Spelled) : \A m : m = Blocked[i - 1] => Blocked[i] = LineFilled(m, i))'
  <1>1. FileOK /\ Ascending =>
          /\ Blocked[0] = <<>>
          /\ \A i \in 1 .. Len(Spelled) : \A m : m = Blocked[i - 1] => Blocked[i] = LineFilled(m, i)
    BY BlockedBefore
  <1>. QED
    BY <1>1, PTL

LEMMA BlockedStays ==
  ASSUME FileOK, Ascending, source' = source, address' = address
  PROVE  \A i \in 0 .. Len(Spelled) : Blocked[i]' = Blocked[i]
  <1> DEFINE N == Len(Spelled)
  <1>1. Spelled' = Spelled /\ N \in Nat
    BY SpelledStays, SpelledIs
  <1>2. FileOK' /\ Ascending'
    BY SameAscending DEF FileOK
  <1>3. /\ Blocked[0] = <<>>
        /\ \A i \in 1 .. N : \A m : m = Blocked[i - 1] => Blocked[i] = LineFilled(m, i)
    BY BlockedBefore
  <1>4. /\ Blocked'[0] = <<>>
        /\ \A i \in 1 .. N : \A m : m = Blocked'[i - 1] => Blocked'[i] = LineFilled(m, i)'
    BY <1>1, <1>2, BlockedBeforeNext
  <1>5. \A i \in 1 .. N : \A m : m = Blocked'[i - 1] => Blocked'[i] = LineFilled(m, i)
    BY <1>4, LinesStay
  <1> HIDE DEF N
  <1> DEFINE Q == {i \in Nat : i <= N => Blocked'[i] = Blocked[i]}
  <1>6. \A i \in Nat : i \in Q
    <2>1. 0 \in Q
      BY <1>3, <1>4
    <2>2. ASSUME NEW i \in Nat, i \in Q
          PROVE  i + 1 \in Q
      <3> SUFFICES ASSUME i + 1 <= N PROVE Blocked'[i + 1] = Blocked[i + 1]
        OBVIOUS
      <3>1. i + 1 \in 1 .. N /\ (i + 1) - 1 = i /\ Blocked'[i] = Blocked[i]
        BY <1>1, <2>2
      <3>. QED
        BY <1>3, <1>5, <3>1
    <2> HIDE DEF Q
    <2>. QED
      BY <2>1, <2>2, NaturalInduction
  <1>. QED
    BY <1>1, <1>6 DEF N

\* Closing a line, or staying in it.
LEMMA ClosedStays ==
  ASSUME FileOK, Ascending, UNCHANGED <<source, address>>, Place' = Place,
         Place \in 1 .. Len(Spelled) + 1
  PROVE  ClosedSize' = ClosedSize /\ ClosedBlocks' = ClosedBlocks
  <1> DEFINE p == Place
  <1>1. \A i : Text!Start(i)' = Text!Start(i)
    BY TextStays
  <1>2. \A i \in 0 .. Len(Spelled) : Blocked[i]' = Blocked[i]
    BY BlockedStays
  <1>3. p - 1 \in 0 .. Len(Spelled)
    BY SpelledIs
  <1>4. ClosedBlocks = Blocked[p - 1] /\ ClosedBlocks' = Blocked'[p' - 1]
    BY DEF ClosedBlocks
  <1>5. \A i : i = p => ClosedSize = Text!Start(i)
    BY DEF ClosedSize
  <1>6. \A i : i = p' => ClosedSize' = Text!Start(i)'
    BY DEF ClosedSize, Text!Start
  <1>. QED
    BY <1>1, <1>2, <1>3, <1>4, <1>5, <1>6

LEMMA ClosedGrows ==
  ASSUME FileOK, Ascending, UNCHANGED <<source, address>>, Place' = Place + 1,
         Place \in 1 .. Len(Spelled)
  PROVE  /\ ClosedSize' = ClosedSize + Text!Length(Place)
         /\ ClosedBlocks' = LineFilled(ClosedBlocks, Place)
         /\ ClosedSize \in Nat /\ Text!Length(Place) \in Nat /\ ClosedBlocks \in Seq(Blocks)
  <1> DEFINE p == Place
             V == Seq(Blocks)
  <1>1. \A i : Text!Start(i)' = Text!Start(i)
    BY TextStays
  <1>2. \A i \in 0 .. Len(Spelled) : Blocked[i]' = Blocked[i]
    BY BlockedStays
  <1>3. p \in 0 .. Len(Spelled) /\ p - 1 \in 0 .. Len(Spelled) /\ p' - 1 = p /\ p \in 1 .. Len(Spelled)
        /\ p \in 1 .. Len(Spelled) + 1
    BY SpelledIs
  <1>4. ClosedBlocks = Blocked[p - 1] /\ ClosedBlocks' = Blocked'[p' - 1]
    BY DEF ClosedBlocks
  <1>5. \A i : i = p => ClosedSize = Text!Start(i) /\ Text!Length(Place) = Text!Length(i)
    BY DEF ClosedSize
  <1>6. \A i : i = p' => ClosedSize' = Text!Start(i)'
    BY DEF ClosedSize, Text!Start
  <1>7. \A i : i = p => LineFilled(ClosedBlocks, Place) = LineFilled(ClosedBlocks, i)
    OBVIOUS
  <1> HIDE DEF p, V
  <1>8. /\ Text!Start(p) \in Nat /\ Text!Length(p) \in Nat /\ Text!Start(p + 1) = Text!Start(p) + Text!Length(p)
        /\ Blocked[p] = LineFilled(Blocked[p - 1], p) /\ Blocked[p - 1] \in V
    BY <1>3, TextStart, BlockedIs DEF V
  <1>9. p' = p + 1
    BY DEF p
  <1>10. ClosedSize' = Text!Start(p + 1)
    BY <1>1, <1>6, <1>9
  <1>11. ClosedBlocks' = Blocked[p]
    BY <1>2, <1>3, <1>4
  <1>. QED
    BY <1>4, <1>5, <1>7, <1>8, <1>10, <1>11 DEF V

\* The place is where the memory of a file starts.
LEMMA ClosedStarts ==
  ASSUME FileOK, Ascending, Place = 1
  PROVE  ClosedSize = 0 /\ ClosedBlocks = <<>>
  <1>1. \A i : i = Place => ClosedSize = Text!Start(i)
    BY DEF ClosedSize
  <1>. QED
    BY <1>1, TextStart, BlockedIs DEF ClosedBlocks

\* Accounting for a line is taking its bytes into the blocks.
LEMMA AccountsLine ==
  ASSUME FileOK, Ascending, UNCHANGED <<source, address>>, Place' = Place + 1,
         Place \in 1 .. Len(Spelled), NEW type, NEW size,
         LineKind(Place) \in {"opcode", "db", "ds", "dw"}, type = LineType(Place),
         size = ClosedSize + Text!Length(Place)
  PROVE  P!Account(type, size)
  <1> DEFINE n == Text!Length(Place)
             m == ClosedBlocks
             V == Seq(Blocks)
  <1>1. ClosedSize' = ClosedSize + n /\ m' = LineFilled(m, Place) /\ ClosedSize \in Nat /\ n \in Nat
        /\ m \in V
    BY ClosedGrows
  <1>2. \A k : k = Place => LineFilled(m, Place) = Filled(m, LineType(k), n)
    BY DEF LineFilled
  <1>3. m' = Filled(m, type, n)
    BY <1>1, <1>2
  <1>4. size - ClosedSize = n
    BY <1>1
  <1>5. CASE m = <<>> \/ m[Len(m)].type # type
    <2>1. m' = Append(m, [type |-> type, count |-> size - ClosedSize])
      BY <1>3, <1>4, <1>5 DEF Filled
    <2>. QED
      BY <1>1, <1>5, <2>1 DEF P!Account
  <1>6. CASE ~(m = <<>> \/ m[Len(m)].type # type)
    <2> DEFINE l == Len(m)
               sum == m[l].count + n
               total == m[l].count + size - ClosedSize
               last == [m[l] EXCEPT !.count = sum]
    <2>1. l \in 1 .. Len(m) /\ m[l] \in Blocks
      BY <1>1, <1>6
    <2>2. m[l].count \in Nat
      BY <2>1 DEF Blocks
    <2>3. sum = total
      BY <1>1, <2>2
    <2>4. m' = [m EXCEPT ![l] = last]
      BY <1>3, <1>6 DEF Filled
    <2>5. m' = [m EXCEPT ![l] = [m[l] EXCEPT !.count = total]]
      BY <2>3, <2>4
    <2>. QED
      BY <1>1, <1>6, <2>5 DEF P!Account
  <1>. QED
    BY <1>5, <1>6

-----------------------------------------------------------------------------
(* The loader is the assembler on the text it stands for: helpers. *)

LEMMA SameHelpers ==
  /\ P!Size = Size
  /\ \A m, base, new : P!Merge(m, base, new) = Merge(m, base, new)
  /\ \A at, back : P!Dollar(at, back) = Dollar(at, back)
  /\ \A e, a : P!ReplaceDollar(e, a) = ReplaceDollar(e, a)
  /\ \A n : P!Zeros(n) = Zeros(n)
  /\ \A S : P!Least(S) = Least(S)
  /\ \A n : P!Meanings(n) = Meanings(n)
  /\ P!Top = Top /\ P!Rest = Rest /\ P!Result = Result
  /\ \A v : P!Wrap(v) = Wrap(v)
  /\ \A op, x, y : P!Apply(op, x, y) = Apply(op, x, y)
  /\ \A op, x, y : P!Traps(op, x, y) <=> Traps(op, x, y)
  /\ \A a : P!RelOffset(a) = RelOffset(a)
  /\ \A v : P!InReach(v) <=> InReach(v)
  <1>1. /\ P!Size = Size
        /\ \A m, base, new : P!Merge(m, base, new) = Merge(m, base, new)
        /\ \A at, back : P!Dollar(at, back) = Dollar(at, back)
        /\ \A e, a : P!ReplaceDollar(e, a) = ReplaceDollar(e, a)
        /\ \A n : P!Zeros(n) = Zeros(n)
        /\ \A S : P!Least(S) = Least(S)
    BY DEF P!Size, Size, P!Merge, Merge, P!From, From, P!Dollar, Dollar, P!ReplaceDollar,
       ReplaceDollar, P!Zeros, Zeros, P!Least, Least
  <1>2. /\ \A n : P!Meanings(n) = Meanings(n)
        /\ P!Top = Top /\ P!Rest = Rest /\ P!Result = Result
        /\ \A v : P!InReach(v) <=> InReach(v)
    BY DEF P!Meanings, Meanings, P!Top, Top, P!Rest, Rest, P!Result, Result, P!InReach, InReach
  <1>3. \A v : P!Wrap(v) = Wrap(v)
    BY DEF P!Wrap, Wrap, P!IntSize, IntSize
  <1>4. \A x, y : P!CDiv(x, y) = CDiv(x, y)
    BY DEF P!CDiv, CDiv
  <1>5. \A op, x, y : P!Apply(op, x, y) = Apply(op, x, y)
    BY <1>3, <1>4 DEF P!Apply, Apply
  <1>6. \A op, x, y : P!Traps(op, x, y) <=> Traps(op, x, y)
    BY DEF P!Traps, Traps, P!MinInt, MinInt, P!IntSize, IntSize
  <1>7. \A v : P!SignedByte(v) = SignedByte(v)
    BY DEF P!SignedByte, SignedByte
  <1>8. \A a : P!RelOffset(a) = RelOffset(a)
    BY <1>2, <1>7 DEF P!RelOffset, RelOffset
  <1>. QED
    BY <1>1, <1>2, <1>3, <1>5, <1>6, <1>8

\* A file that is being loaded, one line after the other.
InFile == FileOK /\ handed \in BOOLEAN /\ Ascending /\ Loaded

LEMMA PlaceIs ==
  ASSUME InFile
  PROVE  /\ line \in Nat \ {0} /\ line <= Len(source) + 1
         /\ Place \in 1 .. Len(Spelled) + 1
         /\ handed => /\ line \in 1 .. Len(source) /\ Place = 2 * line
                      /\ Place \in 1 .. Len(Spelled) /\ Spelled[Place] = source[line]
         /\ ~handed /\ line <= Len(source) =>
              /\ line \in 1 .. Len(source) /\ Place = 2 * line - 1 /\ Place \in 1 .. Len(Spelled)
         /\ ~handed /\ line > Len(source) => line = Len(source) + 1 /\ Place = Len(Spelled) + 1
  <1>1. /\ line \in Nat \ {0} /\ line <= Len(source) + 1 /\ (handed => line <= Len(source))
        /\ handed \in BOOLEAN
    BY DEF InFile, Loaded, IInv, TypeOK, LineByLine
  <1>2. /\ Len(source) \in Nat /\ Len(Spelled) = 2 * Len(source)
        /\ \A i \in 1 .. Len(source) : Spelled[2 * i] = source[i]
    BY SpelledIs DEF InFile
  <1>3. Place = IF handed THEN 2 * line ELSE 2 * line - 1
    BY DEF Place
  <1>4. CASE handed
    BY <1>1, <1>2, <1>3, <1>4
  <1>5. CASE ~handed
    BY <1>1, <1>2, <1>3, <1>5
  <1>. QED
    BY <1>4, <1>5

LEMMA BodyAtPlace ==
  ASSUME InFile, handed
  PROVE  /\ P!Body = Body /\ LineKind(Place) = Body.k
         /\ Spelled[Place].label = source[line].label
         /\ Text!Body(Place) = Body
  <1>1. Spelled[Place] = source[line]
    BY PlaceIs
  <1>2. P!Body = Body /\ Text!Body(Place) = Body
    BY <1>1 DEF P!Body, Body, Text!Body
  <1>3. \A i : i = Place => LineKind(Place) = Text!Body(i).k
    BY DEF LineKind
  <1>4. \A i : i = Place => Text!Body(i) = Spelled[i].body
    BY DEF Text!Body
  <1>. QED
    BY <1>1, <1>2, <1>3, <1>4 DEF Body

\* A step of data::parse within a line, and one that ends it.
LEMMA StaysInPlace ==
  ASSUME InFile, AssembleLine, line' = line
  PROVE  UNCHANGED <<Spelled, Place, ClosedSize, ClosedBlocks, source, relative>>
  <1>1. handed' = handed /\ address' = address /\ UNCHANGED <<source, relative>>
    BY HandedKept, InputKept DEF InFile, AssembleLine, input
  <1>2. Place' = Place /\ Spelled' = Spelled
    BY <1>1, SpelledStays DEF Place
  <1>3. Place \in 1 .. Len(Spelled) + 1
    BY PlaceIs
  <1>. QED
    BY <1>1, <1>2, <1>3, ClosedStays DEF InFile

LEMMA MovesOn ==
  ASSUME InFile, AssembleLine, handed, line' = line + 1
  PROVE  /\ Place' = Place + 1 /\ Place \in 1 .. Len(Spelled)
         /\ UNCHANGED <<Spelled, source, relative, address>>
  <1>1. line \in Nat /\ Place = 2 * line /\ Place \in 1 .. Len(Spelled)
    BY PlaceIs
  <1>2. ~handed' /\ address' = address /\ UNCHANGED <<source, relative>>
    BY <1>1, HandedKept, InputKept DEF AssembleLine, input
  <1>3. Place' = 2 * line' - 1
    BY <1>2 DEF Place
  <1>. QED
    BY <1>1, <1>2, <1>3, SpelledStays

-----------------------------------------------------------------------------
(* The loader is the assembler on the text: what data::parse does. *)

\* On a line that has been handed over the text is at the same line.
LEMMA AtBodyIs ==
  ASSUME InFile, AssembleLine
  PROVE  /\ AtBody <=> P!AtBody
         /\ AtBody => handed
  <1>1. CASE handed
    BY <1>1, PlaceIs DEF AtBody, P!AtBody
  <1>2. CASE ~handed
    <2>0. Len(Spelled) \in Nat /\ Len(source) \in Nat /\ line \in Nat
      BY SpelledIs, PlaceIs DEF InFile
    <2>1. phase \in {"line", "body"} => line > Len(source)
      <3>1. phase \in {"line", "body"} => phase = "line"
        BY <1>2 DEF InFile, Loaded, LineByLine, Loading
      <3>2. ~(phase = "line" /\ line <= Len(source))
        BY <1>2, Zenon DEF AssembleLine, AtAddress
      <3>. QED
        BY <2>0, <3>1, <3>2
    <2>2. phase \in {"line", "body"} => Place = Len(Spelled) + 1
      BY <1>2, <2>1, PlaceIs
    <2>. QED
      BY <2>0, <2>1, <2>2 DEF AtBody, P!AtBody
  <1>. QED
    BY <1>1, <1>2

LEMMA DefineLabelSimulates ==
  ASSUME InFile, AssembleLine, DefineLabel
  PROVE  P!DefineLabel
  <1>1. handed
    BY DEF DefineLabel, AssembleLine, AtAddress
  <1>2. line' = line
    BY DEF DefineLabel, Fail
  <1>3. UNCHANGED <<Spelled, Place, ClosedSize, ClosedBlocks, source, relative>>
    BY <1>2, StaysInPlace
  <1>4. Spelled[Place].label = source[line].label /\ Place \in 1 .. Len(Spelled)
    BY <1>1, BodyAtPlace, PlaceIs
  <1>5. P!Size = Size
    BY SameHelpers
  <1> DEFINE n == source[line].label
  <1>6. Spelled[Place].label = n
    BY <1>4
  <1> HIDE DEF n
  <1>7. CASE n \in DOMAIN label \/ n \in DOMAIN equ
    <2>1. Fail /\ UNCHANGED label
      BY <1>7 DEF DefineLabel, n
    <2>2. P!Fail
      BY <1>3, <2>1 DEF Fail, P!Fail
    <2>. QED
      BY <1>3, <1>4, <1>6, <1>7, <2>1, <2>2 DEF DefineLabel, P!DefineLabel, input, P!input,
         program, P!program, fixups, P!fixups, n
  <1>8. CASE ~(n \in DOMAIN label \/ n \in DOMAIN equ)
    <2>1. /\ label' = [m \in DOMAIN label \cup {n} |->
                         IF m = n THEN Size % WordSize ELSE label[m]]
          /\ phase' = "body"
          /\ UNCHANGED <<line, item, todo, pos, acc>>
      BY <1>8 DEF DefineLabel, n
    <2>. QED
      BY <1>3, <1>4, <1>5, <1>6, <1>8, <2>1 DEF DefineLabel, P!DefineLabel, input, P!input,
         program, P!program, fixups, P!fixups, n
  <1>. QED
    BY <1>7, <1>8

LEMMA RejectLineSimulates ==
  ASSUME InFile, AssembleLine, RejectLine
  PROVE  P!RejectLine
  <1>1. handed /\ P!AtBody
    BY AtBodyIs DEF RejectLine
  <1>2. line' = line
    BY DEF RejectLine, Fail
  <1>3. UNCHANGED <<Spelled, Place, ClosedSize, ClosedBlocks, source, relative>>
    BY <1>2, StaysInPlace
  <1>4. P!Body = Body
    BY <1>1, BodyAtPlace
  <1>. QED
    BY <1>1, <1>3, <1>4 DEF RejectLine, P!RejectLine, Fail, P!Fail, input, P!input,
       program, P!program, symbols, P!symbols, fixups, P!fixups

LEMMA CallEquSimulates ==
  ASSUME InFile, AssembleLine, CallEqu
  PROVE  P!CallEqu
  <1>1. handed /\ P!AtBody
    BY AtBodyIs DEF CallEqu
  <1>2. line' = line
    BY DEF CallEqu
  <1>3. UNCHANGED <<Spelled, Place, ClosedSize, ClosedBlocks, source, relative>>
    BY <1>2, StaysInPlace
  <1>4. P!Body = Body
    BY <1>1, BodyAtPlace
  <1>. QED
    BY <1>1, <1>3, <1>4 DEF CallEqu, P!CallEqu, input, P!input,
       program, P!program, symbols, P!symbols, fixups, P!fixups

LEMMA PushOpcodeSimulates ==
  ASSUME InFile, AssembleLine, PushOpcode
  PROVE  P!PushOpcode
  <1>1. handed /\ P!AtBody
    BY AtBodyIs DEF PushOpcode
  <1>2. line' = line
    BY DEF PushOpcode, Fail
  <1>3. UNCHANGED <<Spelled, Place, ClosedSize, ClosedBlocks, source, relative>>
    BY <1>2, StaysInPlace
  <1>4. P!Body = Body
    BY <1>1, BodyAtPlace
  <1> DEFINE f == Body.form
             dollar == \E o \in DOMAIN f.byte : HasDollar(f.byte[o].expr)
             words == [o \in DOMAIN f.word |->
                         ReplaceDollar(f.word[o].expr, Dollar(Size + o, f.word[o].back))]
  <1>5. dollar <=> \E o \in DOMAIN f.byte : P!HasDollar(f.byte[o].expr)
    BY SameData
  <1>6. words = [o \in DOMAIN f.word |->
                   P!ReplaceDollar(f.word[o].expr, P!Dollar(P!Size + o, f.word[o].back))]
    BY SameHelpers
  <1>7. AtBody /\ Body.k = "opcode" /\ UNCHANGED <<input, org, org_set, last_size, mem_type, symbols>>
    BY DEF PushOpcode
  <1>8. CASE dollar
    <2>1. Fail /\ UNCHANGED <<memory, fixups>>
      BY <1>8 DEF PushOpcode
    <2> HIDE DEF dollar, f, words
    <2>2. P!Fail /\ UNCHANGED <<memory, P!fixups, P!input, org, org_set, ClosedSize, ClosedBlocks, P!symbols>>
      BY <1>3, <1>7, <2>1 DEF Fail, P!Fail, fixups, P!fixups, P!input, symbols, P!symbols
    <2>. QED
      BY <1>1, <1>4, <1>5, <1>7, <1>8, <2>2 DEF P!PushOpcode, f
  <1>9. CASE ~dollar
    <2>1. /\ memory' = memory \o f.bytes
          /\ rel_addr' = Merge(rel_addr, Size, f.rel)
          /\ byte_expr' = Merge(byte_expr, Size, f.byte)
          /\ word_expr' = Merge(word_expr, Size, words)
          /\ phase' = "opcode"
          /\ UNCHANGED <<line, item, todo, pos, acc>>
      BY <1>9 DEF PushOpcode
    <2> HIDE DEF dollar, f, words
    <2>2. /\ memory' = memory \o f.bytes
          /\ rel_addr' = P!Merge(rel_addr, P!Size, f.rel)
          /\ byte_expr' = P!Merge(byte_expr, P!Size, f.byte)
          /\ word_expr' = P!Merge(word_expr, P!Size, words)
      BY <2>1, SameHelpers
    <2>3. UNCHANGED <<P!input, org, org_set, ClosedSize, ClosedBlocks, P!symbols, Place, item, todo, pos, acc>>
      BY <1>3, <1>7, <2>1 DEF P!input, symbols, P!symbols
    <2>. QED
      BY <1>1, <1>4, <1>5, <1>6, <1>7, <1>9, <2>1, <2>2, <2>3 DEF P!PushOpcode, f
  <1>. QED
    BY <1>8, <1>9

LEMMA PushDbItemSimulates ==
  ASSUME InFile, AssembleLine, PushDbItem
  PROVE  P!PushDbItem
  <1>1. handed /\ P!AtBody
    BY AtBodyIs DEF PushDbItem
  <1>2. line' = line
    BY DEF PushDbItem, Fail
  <1>3. UNCHANGED <<Spelled, Place, ClosedSize, ClosedBlocks, source, relative>>
    BY <1>2, StaysInPlace
  <1>4. P!Body = Body
    BY <1>1, BodyAtPlace
  <1> DEFINE i == Body.items[item + 1]
             new == [o \in {0} |-> [expr |-> i.expr, op |-> "+"]]
  <1>5. /\ AtBody /\ Body.k = "db" /\ item < Len(Body.items)
        /\ UNCHANGED <<input, org, org_set, last_size, mem_type, symbols, rel_addr, word_expr>>
    BY DEF PushDbItem
  <1>6. UNCHANGED <<P!input, org, org_set, ClosedSize, ClosedBlocks, P!symbols, rel_addr, word_expr>>
    BY <1>3, <1>5 DEF P!input, symbols, P!symbols
  <1>7. CASE i.k = "string" /\ memory' = memory \o i.str /\ item' = item + 1
             /\ UNCHANGED <<phase, line, todo, evaluation, byte_expr>>
    BY <1>1, <1>3, <1>4, <1>5, <1>6, <1>7 DEF P!PushDbItem, evaluation, P!evaluation
  <1>8. CASE i.k = "expr" /\ HasDollar(i.expr) /\ Fail /\ UNCHANGED <<memory, byte_expr>>
    <2>1. P!HasDollar(i.expr) /\ P!Fail
      BY <1>3, <1>8, SameData DEF Fail, P!Fail
    <2>. QED
      BY <1>1, <1>4, <1>5, <1>6, <1>8, <2>1 DEF P!PushDbItem
  <1>9. CASE i.k = "expr" /\ ~HasDollar(i.expr) /\ memory' = Append(memory, 0)
             /\ byte_expr' = Merge(byte_expr, Size, new) /\ item' = item + 1
             /\ UNCHANGED <<phase, line, todo, evaluation>>
    <2>1. ~P!HasDollar(i.expr) /\ byte_expr' = P!Merge(byte_expr, P!Size, new)
      BY <1>9, SameData, SameHelpers
    <2>. QED
      BY <1>1, <1>3, <1>4, <1>5, <1>6, <1>9, <2>1 DEF P!PushDbItem, evaluation, P!evaluation
  <1>. QED
    BY <1>7, <1>8, <1>9 DEF PushDbItem

LEMMA PushDwItemSimulates ==
  ASSUME InFile, AssembleLine, PushDwItem
  PROVE  P!PushDwItem
  <1>1. handed /\ P!AtBody
    BY AtBodyIs DEF PushDwItem
  <1>2. line' = line
    BY DEF PushDwItem
  <1>3. UNCHANGED <<Spelled, Place, ClosedSize, ClosedBlocks, source, relative>>
    BY <1>2, StaysInPlace
  <1>4. P!Body = Body
    BY <1>1, BodyAtPlace
  <1> DEFINE new == [o \in {0} |-> ReplaceDollar(Body.items[item + 1], Dollar(Size, 2))]
             pnew == [o \in {0} |-> P!ReplaceDollar(P!Body.items[item + 1], P!Dollar(P!Size, 2))]
  <1>5. new = pnew
    BY <1>4, SameHelpers
  <1>6. /\ AtBody /\ Body.k = "dw" /\ item < Len(Body.items) /\ memory' = memory \o Zeros(2)
        /\ word_expr' = Merge(word_expr, Size, new) /\ item' = item + 1
        /\ UNCHANGED <<input, phase, line, todo, evaluation, org, org_set, last_size,
                       mem_type, symbols, rel_addr, byte_expr>>
    BY DEF PushDwItem
  <1> HIDE DEF new
  <1>7. memory' = memory \o P!Zeros(2) /\ word_expr' = P!Merge(word_expr, P!Size, pnew)
    BY <1>5, <1>6, SameHelpers
  <1>8. UNCHANGED <<P!input, phase, Place, todo, P!evaluation, org, org_set, ClosedSize,
                    ClosedBlocks, P!symbols, rel_addr, byte_expr>>
    BY <1>3, <1>6 DEF P!input, symbols, P!symbols, evaluation, P!evaluation
  <1>. QED
    BY <1>1, <1>4, <1>6, <1>7, <1>8 DEF P!PushDwItem

LEMMA StartFixupsSimulates ==
  ASSUME InFile, AssembleLine, StartFixups
  PROVE  P!StartFixups
  <1>1. UNCHANGED <<Spelled, Place, ClosedSize, ClosedBlocks, source, relative>>
    BY StaysInPlace DEF StartFixups
  <1>2. ~handed /\ line > Len(source)
    BY SpelledIs DEF StartFixups, InFile, Loaded, LineByLine, IInv, TypeOK
  <1>3. Place > Len(Spelled)
    BY <1>2, PlaceIs, SpelledIs DEF InFile
  <1>. QED
    BY <1>1, <1>3 DEF StartFixups, P!StartFixups, input, P!input, program, P!program,
       symbols, P!symbols, fixups, P!fixups


\* parse_expr works on the same expression.
LEMMA SameCurrent ==
  ASSUME InFile
  PROVE  /\ P!Current = Current
         /\ \A t : P!Reduces(t) <=> Reduces(t)
         /\ P!AtReturn <=> AtReturn
         /\ P!Returns <=> Returns
  <1>1. phase = "equ" => handed
    BY DEF InFile, Loaded, LineByLine, Loading
  <1>2. phase = "equ" => P!Body = Body
    BY <1>1, BodyAtPlace
  <1>3. P!Current = Current
    BY <1>2, SameHelpers DEF P!Current, Current
  <1>. QED
    BY <1>3, SameHelpers DEF P!Reduces, Reduces, P!AtReturn, AtReturn, P!Returns, Returns

\* What a reduction leaves alone.
LEMMA StepSimulates ==
  ASSUME InFile, AssembleLine, Step
  PROVE  P!Step /\ UNCHANGED <<Spelled, Place, ClosedSize, ClosedBlocks, source, relative>>
  <1>1. line' = line
    BY DEF Step
  <1>2. UNCHANGED <<Spelled, Place, ClosedSize, ClosedBlocks, source, relative>>
    BY <1>1, StaysInPlace
  <1>. QED
    BY <1>2 DEF Step, P!Step

LEMMA EvaluatingSimulates ==
  ASSUME InFile, AssembleLine, Evaluating
  PROVE  P!Evaluating
  <1> DEFINE Same == UNCHANGED <<P!input, P!program, P!symbols, P!fixups>>
  <1>1. line' = line /\ UNCHANGED <<input, program, symbols, fixups>>
    BY DEF Evaluating, PushNumber, PushName, Negate, BinaryOp, SyntaxError, ReturnNothing, Step, Fail
  <1>2. UNCHANGED <<Spelled, Place, ClosedSize, ClosedBlocks, source, relative>>
    BY <1>1, StaysInPlace
  <1>3. Same
    BY <1>1, <1>2 DEF input, P!input, program, P!program, symbols, P!symbols, fixups, P!fixups
  <1> HIDE DEF Same
  <1>4. /\ P!Current = Current
        /\ \A t : P!Reduces(t) <=> Reduces(t)
        /\ P!AtReturn <=> AtReturn
    BY SameCurrent
  <1>5. (Step <=> P!Step) /\ (Fail <=> P!Fail)
    BY <1>1, <1>2 DEF Step, P!Step, Fail, P!Fail
  <1>6. CASE PushNumber
    <2>1. PICK v \in Word : Reduces([t |-> "num", v |-> v]) /\ acc' = Append(acc, v) /\ Step
      BY <1>6 DEF PushNumber
    <2>2. v \in P!Word /\ P!Reduces([t |-> "num", v |-> v]) /\ P!Step
      BY <1>4, <1>5, <2>1, SameData
    <2>3. P!PushNumber
      BY <1>3, <2>1, <2>2 DEF P!PushNumber, Same
    <2>. QED
      BY <2>3 DEF P!Evaluating
  <1>7. CASE PushName
    <2>1. PICK n \in Names :
            /\ Reduces([t |-> "name", n |-> n])
            /\ \/ Meanings(n) = {} /\ Fail
               \/ \E m \in Meanings(n) : acc' = Append(acc, m) /\ Step
      BY <1>7 DEF PushName
    <2>2. P!Reduces([t |-> "name", n |-> n]) /\ P!Meanings(n) = Meanings(n)
      BY <1>4, <2>1, SameHelpers
    <2>3. P!PushName
      BY <1>3, <1>5, <2>1, <2>2 DEF P!PushName, Same
    <2>. QED
      BY <2>3 DEF P!Evaluating
  <1>8. CASE Negate
    <2>1. Reduces([t |-> "neg"]) /\ Len(acc) > 0 /\ acc' = Append(Rest, Wrap(-Top)) /\ Step
      BY <1>8 DEF Negate
    <2>2. P!Reduces([t |-> "neg"]) /\ acc' = Append(P!Rest, P!Wrap(-P!Top)) /\ P!Step
      BY <1>4, <1>5, <2>1, SameHelpers
    <2>3. P!Negate
      BY <1>3, <2>1, <2>2 DEF P!Negate, Same
    <2>. QED
      BY <2>3 DEF P!Evaluating
  <1>9. CASE BinaryOp
    <2>1. PICK op \in Operators :
            /\ Reduces([t |-> op]) /\ Len(acc) > 1
            /\ LET x == acc[Len(acc) - 1] IN
               IF Traps(op, x, Top)
               THEN phase' = "undefined" /\ UNCHANGED <<line, item, todo, pos, acc>>
               ELSE acc' = Append(SubSeq(acc, 1, Len(acc) - 2), Apply(op, x, Top)) /\ Step
      BY <1>9 DEF BinaryOp
    <2> DEFINE x == acc[Len(acc) - 1]
    <2>2. op \in P!Operators /\ P!Reduces([t |-> op]) /\ P!Top = Top
          /\ (P!Traps(op, x, P!Top) <=> Traps(op, x, Top))
          /\ P!Apply(op, x, P!Top) = Apply(op, x, Top)
      BY <1>4, <2>1, SameHelpers DEF P!Operators, Operators
    <2> DEFINE Outcome ==
                 IF P!Traps(op, x, P!Top)
                 THEN phase' = "undefined" /\ UNCHANGED <<Place, item, todo, pos, acc>>
                 ELSE acc' = Append(SubSeq(acc, 1, Len(acc) - 2), P!Apply(op, x, P!Top)) /\ P!Step
    <2>3. ASSUME Traps(op, x, Top) PROVE Outcome
      <3>1. phase' = "undefined" /\ UNCHANGED <<Place, item, todo, pos, acc>>
        BY <1>2, <2>1, <2>3
      <3> HIDE DEF x
      <3>. QED
        BY <2>2, <2>3, <3>1
    <2>4. ASSUME ~Traps(op, x, Top) PROVE Outcome
      <3>1. acc' = Append(SubSeq(acc, 1, Len(acc) - 2), Apply(op, x, Top)) /\ P!Step
        BY <1>5, <2>1, <2>4
      <3> HIDE DEF x
      <3>. QED
        BY <2>2, <2>4, <3>1
    <2>5. P!BinaryOp
      BY <1>3, <2>1, <2>2, <2>3, <2>4, Zenon DEF P!BinaryOp, Same
    <2>. QED
      BY <2>5 DEF P!Evaluating
  <1>10. CASE SyntaxError
    <2>1. P!SyntaxError
      BY <1>2, <1>3, <1>4, <1>10 DEF SyntaxError, P!SyntaxError, Same
    <2>. QED
      BY <2>1 DEF P!Evaluating
  <1>11. CASE ReturnNothing
    <2>1. P!ReturnNothing
      BY <1>2, <1>3, <1>4, <1>11 DEF ReturnNothing, P!ReturnNothing, Same, evaluation, P!evaluation
    <2>. QED
      BY <2>1 DEF P!Evaluating
  <1>. QED
    BY <1>6, <1>7, <1>8, <1>9, <1>10, <1>11 DEF Evaluating

LEMMA FixingUpSimulates ==
  ASSUME InFile, AssembleLine, FixingUp \/ CheckLimit
  PROVE  P!FixingUp \/ P!CheckLimit
  <1> DEFINE Same == UNCHANGED <<P!input, Place, item, org, org_set, ClosedSize, ClosedBlocks,
                                 P!symbols, P!fixups>>
  <1>1. line' = line /\ UNCHANGED <<input, item, org, org_set, symbols, fixups>>
    BY DEF FixingUp, CheckLimit, PatchRel, PatchByte, PatchWord, NextLoop, program
  <1>2. UNCHANGED <<Spelled, Place, ClosedSize, ClosedBlocks, source, relative>>
    BY <1>1, StaysInPlace
  <1>3. Same
    BY <1>1, <1>2 DEF P!input, symbols, P!symbols, fixups, P!fixups
  <1> HIDE DEF Same
  <1>4. (P!Returns <=> Returns) /\ P!Least(todo) = Least(todo) /\ P!Result = Result
        /\ \A a : P!RelOffset(a) = RelOffset(a) /\ (P!InReach(RelOffset(a)) <=> InReach(RelOffset(a)))
    BY SameCurrent, SameHelpers
  <1>5. CASE PatchRel
    <2>1. P!PatchRel
      BY <1>3, <1>4, <1>5 DEF PatchRel, P!PatchRel, Same
    <2>. QED
      BY <2>1 DEF P!FixingUp
  <1>6. CASE PatchByte
    <2>1. P!PatchByte
      BY <1>3, <1>4, <1>6 DEF PatchByte, P!PatchByte, Same
    <2>. QED
      BY <2>1 DEF P!FixingUp
  <1>7. CASE PatchWord
    <2>1. P!PatchWord
      BY <1>3, <1>4, <1>7 DEF PatchWord, P!PatchWord, Same
    <2>. QED
      BY <2>1 DEF P!FixingUp
  <1>8. CASE NextLoop
    <2>1. P!NextLoop
      BY <1>2, <1>3, <1>8 DEF NextLoop, P!NextLoop, Same, evaluation, P!evaluation, program, P!program
    <2>. QED
      BY <2>1 DEF P!FixingUp
  <1>9. CASE CheckLimit
    <2>1. P!Size = Size
      BY SameHelpers
    <2>2. P!CheckLimit
      BY <1>2, <1>3, <1>9, <2>1 DEF CheckLimit, P!CheckLimit, Same, evaluation, P!evaluation, program, P!program
    <2>. QED
      BY <2>2
  <1>. QED
    BY <1>5, <1>6, <1>7, <1>8, <1>9 DEF FixingUp

LEMMA EndedSimulates ==
  ASSUME InFile, AssembleLine, Ended
  PROVE  P!Ended
  <1>1. line' = line /\ phase \in Terminal
    BY DEF Ended, vars
  <1>2. UNCHANGED <<Spelled, Place, ClosedSize, ClosedBlocks, source, relative>>
    BY <1>1, StaysInPlace
  <1>. QED
    BY <1>1, <1>2 DEF Ended, vars, P!Ended, P!vars, P!Terminal, Terminal


\* The memory ends where the text's lines read so far end.
LEMMA SizeAtPlace ==
  ASSUME P!IInv, P!Read, phase \notin P!Lost
  PROVE  Size = ClosedSize + P!Progress
  BY SameHelpers DEF P!Read, P!Extent

\* A line that has bytes is closed.
LEMMA ClosesLine ==
  ASSUME InFile, AssembleLine, handed, NextLine, NEW type, NEW size,
         Body.k \in {"opcode", "db", "ds", "dw"},
         type = IF Body.k = "opcode" THEN "code" ELSE Body.k,
         size = ClosedSize + Text!Length(Place)
  PROVE  P!Account(type, size) /\ P!NextLine /\ UNCHANGED <<Spelled, source, relative>>
  <1>1. line' = line + 1
    BY DEF NextLine
  <1>2. /\ Place' = Place + 1 /\ Place \in 1 .. Len(Spelled)
        /\ UNCHANGED <<Spelled, source, relative, address>>
    BY <1>1, MovesOn
  <1>3. LineKind(Place) = Body.k
    BY BodyAtPlace
  <1>4. type = LineType(Place)
    <2>1. \A i : LineType(i) = IF LineKind(i) = "opcode" THEN "code" ELSE LineKind(i)
      BY DEF LineType
    <2>2. LineType(Place) = IF LineKind(Place) = "opcode" THEN "code" ELSE LineKind(Place)
      BY <2>1
    <2>. QED
      BY <1>3, <2>2
  <1>5. P!Account(type, size)
    BY <1>2, <1>3, <1>4, AccountsLine DEF InFile
  <1>. QED
    BY <1>2, <1>5 DEF NextLine, P!NextLine

\* A line without bytes leaves the blocks.
LEMMA NothingGrows ==
  ASSUME FileOK, Ascending, UNCHANGED <<source, address>>, Place' = Place + 1,
         Place \in 1 .. Len(Spelled), LineKind(Place) \notin {"opcode", "db", "ds", "dw"}
  PROVE  UNCHANGED <<ClosedSize, ClosedBlocks>>
  <1>1. /\ ClosedSize' = ClosedSize + Text!Length(Place)
        /\ ClosedBlocks' = LineFilled(ClosedBlocks, Place)
        /\ ClosedSize \in Nat
    BY ClosedGrows
  <1>2. Text!Length(Place) = 0
    <2>1. \A i : Text!Body(i).k \notin {"opcode", "db", "ds", "dw"} => Text!Length(i) = 0
      BY Zenon DEF Text!Length
    <2>2. \A i : LineKind(i) = Text!Body(i).k
      BY DEF LineKind
    <2>3. \A i : LineKind(i) \notin {"opcode", "db", "ds", "dw"} => Text!Length(i) = 0
      BY <2>1, <2>2
    <2>. QED
      BY <2>3
  <1>3. \A m : LineFilled(m, Place) = m
    <2>1. \A i, m : LineKind(i) \notin {"opcode", "db", "ds", "dw"} => LineFilled(m, i) = m
      BY Zenon DEF LineFilled
    <2>. QED
      BY <2>1
  <1>. QED
    BY <1>1, <1>2, <1>3

LEMMA ClosesNothing ==
  ASSUME InFile, AssembleLine, handed, NextLine, Body.k \notin {"opcode", "db", "ds", "dw"}
  PROVE  /\ UNCHANGED <<ClosedSize, ClosedBlocks>> /\ P!NextLine
         /\ UNCHANGED <<Spelled, source, relative>>
  <1>1. line' = line + 1
    BY DEF NextLine
  <1>2. /\ Place' = Place + 1 /\ Place \in 1 .. Len(Spelled)
        /\ UNCHANGED <<Spelled, source, relative, address>>
    BY <1>1, MovesOn
  <1>3. LineKind(Place) = Body.k
    BY BodyAtPlace
  <1>4. UNCHANGED <<ClosedSize, ClosedBlocks>>
    BY <1>2, <1>3, NothingGrows DEF InFile
  <1>. QED
    BY <1>2, <1>4 DEF NextLine, P!NextLine

LEMMA EmptyLineSimulates ==
  ASSUME InFile, AssembleLine, EmptyLine
  PROVE  P!EmptyLine
  <1>1. handed /\ P!AtBody /\ Body.k = "empty" /\ NextLine
    BY AtBodyIs DEF EmptyLine
  <1>2. P!Body = Body
    BY <1>1, BodyAtPlace
  <1>3. /\ UNCHANGED <<ClosedSize, ClosedBlocks>> /\ P!NextLine
        /\ UNCHANGED <<Spelled, source, relative>>
    BY <1>1, ClosesNothing
  <1>. QED
    BY <1>1, <1>2, <1>3 DEF EmptyLine, P!EmptyLine, input, P!input, evaluation, P!evaluation,
       program, P!program, symbols, P!symbols, fixups, P!fixups

\* An ORG of the file's own is refused: the first line has set the origin.
LEMMA SetOrgSimulates ==
  ASSUME InFile, AssembleLine, SetOrg
  PROVE  P!SetOrg
  <1>1. handed /\ P!AtBody /\ Body.k = "org"
    BY AtBodyIs DEF SetOrg
  <1>2. P!Body = Body
    BY <1>1, BodyAtPlace
  <1>3. org_set
    <2>1. phase \in {"line", "body"}
      BY DEF SetOrg, AtBody
    <2>. QED
      BY <1>1, <2>1 DEF InFile, Loaded, Placed, Loading
  <1>4. Fail /\ UNCHANGED <<org, org_set>>
    BY <1>3 DEF SetOrg
  <1>5. UNCHANGED <<Spelled, Place, ClosedSize, ClosedBlocks, source, relative>>
    BY <1>4, StaysInPlace DEF Fail
  <1>6. P!Fail
    BY <1>4, <1>5 DEF Fail, P!Fail
  <1>. QED
    BY <1>1, <1>2, <1>3, <1>4, <1>5, <1>6 DEF SetOrg, P!SetOrg, P!input,
       symbols, P!symbols, fixups, P!fixups

LEMMA AccountSimulates ==
  ASSUME InFile, AssembleLine, P!IInv, P!Read, AccountCode \/ AccountDb \/ AccountDw
  PROVE  P!AccountCode \/ P!AccountDb \/ P!AccountDw
  <1> DEFINE type == IF Body.k = "opcode" THEN "code" ELSE Body.k
             n == Size
  <1>1. /\ Body.k \in {"opcode", "db", "dw"} /\ NextLine /\ phase \in Loading
        /\ UNCHANGED <<input, todo, evaluation, org, org_set, memory, symbols, fixups>>
        /\ phase = "opcode" => Body.k = "opcode" /\ AccountCode
        /\ phase # "opcode" => /\ AtBody /\ Body.k \in {"db", "dw"} /\ item = Len(Body.items)
                               /\ AccountDb \/ AccountDw
    BY DEF AccountCode, AccountDb, AccountDw, AtBody, InFile, Loaded, LineByLine, Loading
  <1>2. handed
    BY <1>1, AtBodyIs DEF InFile, Loaded, LineByLine, Loading
  <1>3. P!Body = Body /\ Place <= Len(Spelled) /\ (AtBody <=> P!AtBody)
    BY <1>2, BodyAtPlace, PlaceIs, AtBodyIs, SpelledIs DEF InFile
  <1>4. P!Progress = Text!Length(Place)
    <2>1. P!InText
      BY DEF P!Read
    <2>2. P!Progress = P!Abstract!Length(Place)
      BY <1>1, <1>3, <2>1, P!ProgressEnds, TextAssumptions
    <2>. QED
      BY <2>2, TextLengths
  <1>5. n = ClosedSize + Text!Length(Place) /\ P!Size = n
    <2>1. phase \notin P!Lost
      BY <1>1 DEF Loading, P!Lost
    <2>. QED
      BY <1>4, <2>1, SizeAtPlace, SameHelpers
  <1> HIDE DEF n
  <1>6. P!Account(type, n) /\ P!NextLine /\ UNCHANGED <<Spelled, source, relative>>
    BY <1>1, <1>2, <1>5, ClosesLine
  <1>7. UNCHANGED <<P!input, todo, P!evaluation, org, org_set, memory, P!symbols, P!fixups>>
    BY <1>1, <1>6 DEF P!input, evaluation, P!evaluation, symbols, P!symbols, fixups, P!fixups
  <1>8. CASE phase = "opcode"
    <2>1. type = "code"
      BY <1>1, <1>8
    <2>2. P!Account("code", P!Size)
      BY <1>5, <1>6, <2>1
    <2>. QED
      BY <1>6, <1>7, <1>8, <2>2 DEF P!AccountCode
  <1>9. CASE phase # "opcode" /\ Body.k = "db"
    <2>1. type = "db"
      BY <1>9
    <2>2. P!Account("db", P!Size)
      BY <1>5, <1>6, <2>1
    <2>. QED
      BY <1>1, <1>3, <1>6, <1>7, <1>9, <2>2 DEF P!AccountDb
  <1>10. CASE phase # "opcode" /\ Body.k = "dw"
    <2>1. type = "dw"
      BY <1>10
    <2>2. P!Account("dw", P!Size)
      BY <1>5, <1>6, <2>1
    <2>. QED
      BY <1>1, <1>3, <1>6, <1>7, <1>10, <2>2 DEF P!AccountDw
  <1>. QED
    BY <1>1, <1>8, <1>9, <1>10

LEMMA ReserveDsSimulates ==
  ASSUME InFile, AssembleLine, P!IInv, P!Read, ReserveDs
  PROVE  P!ReserveDs
  <1> DEFINE n == Body.literal % WordSize
             size == Size + n
  <1>1. /\ handed /\ P!AtBody /\ Body.k = "ds" /\ NextLine /\ memory' = memory \o Zeros(n)
        /\ UNCHANGED <<input, todo, evaluation, org, org_set, symbols, fixups>>
        /\ phase \in {"line", "body"}
    BY AtBodyIs DEF ReserveDs, AtBody
  <1>2. P!Body = Body
    BY <1>1, BodyAtPlace
  <1>3. P!Progress = 0 /\ Text!Length(Place) = n
    <2>1. P!InText
      BY DEF P!Read
    <2>2. P!Progress = 0 /\ P!Abstract!Length(Place) = n
      BY <1>1, <1>2, <2>1, P!ProgressOfDs, TextAssumptions
    <2>. QED
      BY <2>2, TextLengths
  <1>4. size = ClosedSize + Text!Length(Place) /\ P!Size = Size
    <2>1. phase \notin P!Lost
      BY <1>1 DEF P!Lost
    <2>2. Size = ClosedSize + 0
      BY <1>3, <2>1, SizeAtPlace
    <2>3. ClosedSize \in Nat
      BY <1>1, MovesOn, ClosedGrows DEF NextLine, InFile
    <2>. QED
      BY <1>3, <2>2, <2>3, SameHelpers
  <1> HIDE DEF n, size
  <1>5. P!Account("ds", size) /\ P!NextLine /\ UNCHANGED <<Spelled, source, relative>>
    BY <1>1, <1>4, ClosesLine
  <1>6. UNCHANGED <<P!input, todo, P!evaluation, org, org_set, P!symbols, P!fixups>>
    BY <1>1, <1>5 DEF P!input, evaluation, P!evaluation, symbols, P!symbols, fixups, P!fixups
  <1>7. memory' = memory \o P!Zeros(n)
    BY <1>1, SameHelpers
  <1>8. size = P!Size + n
    BY <1>4 DEF size
  <1>. QED
    BY <1>1, <1>2, <1>5, <1>6, <1>7, <1>8 DEF P!ReserveDs, n

LEMMA ReturnEquSimulates ==
  ASSUME InFile, AssembleLine, ReturnEqu
  PROVE  P!ReturnEqu
  <1>1. /\ phase = "equ" /\ Returns /\ UNCHANGED <<input, todo, program, label, fixups>>
    BY DEF ReturnEqu
  <1>2. handed
    BY <1>1 DEF InFile, Loaded, LineByLine, Loading
  <1>3. P!Body = Body /\ P!Returns /\ P!Result = Result
    BY <1>1, <1>2, BodyAtPlace, SameCurrent, SameHelpers
  <1>4. CASE Body.name \in DOMAIN label
    <2>1. phase' = "error" /\ UNCHANGED <<line, item, equ>>
      BY <1>4 DEF ReturnEqu
    <2>2. UNCHANGED <<Spelled, Place, ClosedSize, ClosedBlocks, source, relative>>
      BY <2>1, StaysInPlace
    <2>. QED
      BY <1>1, <1>3, <1>4, <2>1, <2>2 DEF P!ReturnEqu, input, P!input, program, P!program,
         fixups, P!fixups
  <1>5. CASE Body.name \notin DOMAIN label
    <2>1. /\ equ' = [m \in DOMAIN equ \cup {Body.name} |-> IF m = Body.name THEN Result ELSE equ[m]]
          /\ NextLine
      BY <1>5 DEF ReturnEqu
    <2>2. Body.k = "equ"
      BY <1>1 DEF InFile, Loaded, IInv, EquOnItsLine
    <2>3. /\ UNCHANGED <<ClosedSize, ClosedBlocks>> /\ P!NextLine
          /\ UNCHANGED <<Spelled, source, relative>>
      BY <1>2, <2>1, <2>2, ClosesNothing
    <2>. QED
      BY <1>1, <1>3, <1>5, <2>1, <2>3 DEF P!ReturnEqu, input, P!input, program, P!program,
         fixups, P!fixups
  <1>. QED
    BY <1>4, <1>5


LEMMA AssembleSimulates ==
  ASSUME InFile, AssembleLine, P!IInv, P!Read
  PROVE  P!Next
  <1>1. Next
    BY DEF AssembleLine
  <1>2. CASE Parsing
    <2>1. P!Parsing
      BY <1>2, DefineLabelSimulates, EmptyLineSimulates, RejectLineSimulates, CallEquSimulates,
         SetOrgSimulates, PushOpcodeSimulates, AccountSimulates, PushDbItemSimulates,
         ReserveDsSimulates, PushDwItemSimulates, StartFixupsSimulates, Zenon DEF Parsing, P!Parsing
    <2>. QED
      BY <2>1 DEF P!Next
  <1>3. CASE Evaluating
    BY <1>3, EvaluatingSimulates DEF P!Next
  <1>4. CASE ReturnEqu
    BY <1>4, ReturnEquSimulates DEF P!Next
  <1>5. CASE FixingUp \/ CheckLimit
    BY <1>5, FixingUpSimulates DEF P!Next
  <1>6. CASE Ended
    BY <1>6, EndedSimulates DEF P!Next
  <1>. QED
    BY <1>1, <1>2, <1>3, <1>4, <1>5, <1>6 DEF Next

-----------------------------------------------------------------------------
(* The loader is the assembler on the text: placing a line. *)

\* A line that is about to be placed, in the text.
LEMMA AddressAtPlace ==
  ASSUME InFile, AtAddress
  PROVE  /\ line \in 1 .. Len(source) /\ Place = 2 * line - 1 /\ Place \in 1 .. Len(Spelled)
         /\ Spelled[Place].label = NoName
         /\ P!Body = IF line = 1 THEN [k |-> "org", literal |-> address[1]]
                     ELSE [k |-> "ds", literal |-> Gap(line)]
         /\ LineKind(Place) = IF line = 1 THEN "org" ELSE "ds"
         /\ P!AtBody /\ item = 0
  <1> DEFINE body == IF line = 1 THEN [k |-> "org", literal |-> address[1]]
                     ELSE [k |-> "ds", literal |-> Gap(line)]
  <1>1. phase = "line" /\ ~handed /\ line <= Len(source)
    BY DEF AtAddress
  <1>2. line \in 1 .. Len(source) /\ Place = 2 * line - 1 /\ Place \in 1 .. Len(Spelled)
    BY <1>1, PlaceIs
  <1>3. Spelled[Place] = Unlabelled(body)
    BY <1>2, SpelledIs DEF InFile
  <1> HIDE DEF body
  <1>4. Spelled[Place].label = NoName /\ Spelled[Place].body = body
    BY <1>3 DEF Unlabelled
  <1>5. P!Body = body
    BY <1>4 DEF P!Body
  <1>6. LineKind(Place) = body.k
    <2>1. \A i : LineKind(i) = Spelled[i].body.k
      BY DEF LineKind, Text!Body
    <2>. QED
      BY <1>4, <2>1
  <1>7. body.k = IF line = 1 THEN "org" ELSE "ds"
    BY DEF body
  <1>8. P!AtBody
    BY <1>1, <1>2, <1>4, SpelledIs DEF P!AtBody, InFile
  <1>9. item = 0
    BY <1>1 DEF InFile, Loaded, LineByLine, Loading
  <1>. QED
    BY <1>2, <1>4, <1>5, <1>6, <1>7, <1>8, <1>9 DEF body

LEMMA HandedMovesOn ==
  ASSUME InFile, AtAddress, handed', UNCHANGED <<source, address, relative, phase, line, item>>
  PROVE  /\ Place' = Place + 1 /\ UNCHANGED <<Spelled, relative>> /\ P!NextLine
  <1>1. line \in 1 .. Len(source) /\ Place = 2 * line - 1 /\ item = 0 /\ phase = "line"
        /\ Len(source) \in Nat
    BY AddressAtPlace, SpelledIs DEF AtAddress, InFile
  <1>2. Place' = 2 * line'
    BY DEF Place
  <1>3. Place' = Place + 1
    BY <1>1, <1>2
  <1>. QED
    BY <1>1, <1>3, SpelledStays DEF P!NextLine

\* The first line's address is the text's ORG.
LEMMA FirstLineSimulates ==
  ASSUME InFile, P!IInv, P!Read, FirstLine
  PROVE  P!SetOrg
  <1>1. /\ AtAddress /\ org = 0 /\ org' = address[line] /\ org_set' = TRUE /\ handed' = TRUE
        /\ UNCHANGED <<input, phase, line, item, todo, evaluation, last_size, memory, mem_type,
                       symbols, fixups, address>>
    BY DEF FirstLine
  <1>2. line \in 1 .. Len(source) /\ 1 \in 1 .. Len(source)
    BY <1>1, AddressAtPlace, SpelledIs DEF InFile
  <1>3. address[1] # 0 /\ address[line] \in Word
    BY <1>2, AscendingIs DEF InFile
  <1>4. line = 1
    BY <1>1, <1>2, <1>3 DEF InFile, Loaded, Placed, AtAddress, Loading
  <1>5. /\ Place = 1 /\ Place \in 1 .. Len(Spelled) /\ P!AtBody
        /\ P!Body = [k |-> "org", literal |-> address[1]] /\ LineKind(Place) = "org"
    BY <1>1, <1>4, AddressAtPlace
  <1>6. ~org_set
    <2>1. org_set <=> P!Orgs(Place) # {}
      BY DEF P!Read, P!Origin
    <2>2. \A p : p = 1 => P!Orgs(p) = {}
      BY DEF P!Orgs, P!Abstract!Is, P!Abstract!Lines
    <2>. QED
      BY <1>5, <2>1, <2>2
  <1>7. Place' = Place + 1 /\ UNCHANGED <<Spelled, relative>> /\ P!NextLine
    BY <1>1, HandedMovesOn DEF input
  <1>8. UNCHANGED <<ClosedSize, ClosedBlocks>>
    BY <1>1, <1>5, <1>7, NothingGrows DEF InFile, input
  <1>9. org' = address[1] % WordSize
    BY <1>1, <1>3, <1>4, Widths DEF Word
  <1>10. P!Body.k = "org" /\ P!Body.literal = address[1]
    BY <1>5
  <1>. QED
    BY <1>1, <1>5, <1>6, <1>7, <1>8, <1>9, <1>10 DEF P!SetOrg, P!input, evaluation, P!evaluation,
       symbols, P!symbols, fixups, P!fixups

\* Any other line's is a DS of the gap before it.
LEMMA PlaceLineSimulates ==
  ASSUME InFile, P!IInv, P!Read, PlaceLine
  PROVE  P!ReserveDs
  <1> DEFINE n == NewSize(address[line])
             gap == Gap(line)
  <1>1. AtAddress /\ org # 0 /\ UNCHANGED <<input, org, org_set, last_size, mem_type, symbols, fixups, address>>
    BY DEF PlaceLine
  <1>2. IInv /\ LineByLine /\ Placed /\ FileOK /\ Ascending
    BY DEF InFile, Loaded
  <1>3. n \in Nat /\ n >= Size /\ org + n = address[line] /\ address[line] \in Nat
    BY <1>1, <1>2, NewSizeGrows
  <1>4. memory \in Seq(Byte) /\ Size \in Nat /\ org \in Nat
    BY <1>2, SizeIsNat, Widths DEF IInv, TypeOK, Word
  <1>5. line \in 1 .. Len(source) /\ line # 1
    <2>1. line \in 1 .. Len(source)
      BY <1>1, AddressAtPlace
    <2>. QED
      BY <1>1, <1>2, <2>1 DEF Placed, AtAddress, Loading
  <1>6. org + Size = address[line - 1] + Lines!Length(line - 1)
    BY <1>1, <1>2, <1>5 DEF Placed, AtAddress, Loading
  <1>7. gap \in Nat /\ gap % WordSize = gap
    BY <1>2, <1>5, AscendingGap
  <1>8. gap = address[line] - (org + Size)
    BY <1>6 DEF Gap
  <1> HIDE DEF n, gap
  <1>9. n = Size + gap
    BY <1>3, <1>4, <1>7, <1>8
  <1>10. /\ handed' = TRUE /\ UNCHANGED <<phase, line, item, todo, evaluation>>
         /\ \/ memory' = memory /\ org + Size = address[line]
            \/ memory' = Resized(n)
    <2>1. ~(n < 0)
      BY <1>3
    <2>. QED
      BY <2>1 DEF PlaceLine, n
  <1>11. memory' = memory \o Zeros(gap)
    <2>1. CASE memory' = memory /\ org + Size = address[line]
      <3>1. gap = 0
        BY <1>4, <1>8, <2>1
      <3>2. Zeros(gap) = <<>>
        BY <3>1 DEF Zeros
      <3>. QED
        BY <1>4, <2>1, <3>2
    <2>2. CASE memory' = Resized(n)
      <3> DEFINE s == memory \o Zeros(gap)
      <3>1. Zeros(gap) \in Seq(Byte) /\ Len(Zeros(gap)) = gap
        BY <1>7, Widths DEF Zeros, Byte
      <3>2. Resized(n) = [i \in 1 .. n |-> IF i <= Size THEN memory[i] ELSE 0]
        BY DEF Resized
      <3>3. s \in Seq(Byte) /\ Len(s) = n
        BY <1>4, <1>9, <3>1 DEF Size
      <3>4. ASSUME NEW i \in 1 .. n
            PROVE  s[i] = IF i <= Size THEN memory[i] ELSE 0
        <4>1. i \in Nat /\ (i > Size => i - Size \in 1 .. gap)
          BY <1>4, <1>7, <1>9
        <4>2. \A j \in 1 .. gap : Zeros(gap)[j] = 0
          BY DEF Zeros
        <4>3. s[i] = IF i <= Len(memory) THEN memory[i] ELSE Zeros(gap)[i - Len(memory)]
          BY <1>4, <1>9, <3>1 DEF Size
        <4>. QED
          BY <1>4, <4>1, <4>2, <4>3 DEF Size
      <3> HIDE DEF s
      <3>5. s = [i \in 1 .. n |-> s[i]]
        BY <3>3
      <3>6. s = Resized(n)
        BY <3>2, <3>4, <3>5
      <3>. QED
        BY <2>2, <3>6 DEF s
    <2>. QED
      BY <1>10, <2>1, <2>2
  <1>12. /\ Place \in 1 .. Len(Spelled) /\ P!AtBody /\ LineKind(Place) = "ds"
         /\ P!Body = [k |-> "ds", literal |-> gap]
    BY <1>1, <1>5, AddressAtPlace DEF gap
  <1>13. P!Body.k = "ds" /\ P!Body.literal % WordSize = gap
    BY <1>7, <1>12
  <1>14. Place' = Place + 1 /\ UNCHANGED <<Spelled, relative, source, address>> /\ P!NextLine
    BY <1>1, <1>10, HandedMovesOn DEF input
  <1>15. P!Progress = 0 /\ Text!Length(Place) = gap
    <2>1. P!InText
      BY DEF P!Read
    <2>2. P!Progress = 0 /\ P!Abstract!Length(Place) = gap
      BY <1>12, <1>13, <2>1, P!ProgressOfDs, TextAssumptions
    <2>. QED
      BY <2>2, TextLengths
  <1>16. Size + gap = ClosedSize + Text!Length(Place) /\ P!Size = Size
    <2>1. phase \notin P!Lost
      BY <1>1 DEF AtAddress, P!Lost
    <2>2. Size = ClosedSize + 0
      BY <1>15, <2>1, SizeAtPlace
    <2>3. ClosedSize \in Nat
      BY <1>2, <1>12, <1>14, ClosedGrows
    <2>. QED
      BY <1>15, <2>2, <2>3, SameHelpers
  <1>17. "ds" = LineType(Place)
    <2>1. \A i : LineKind(i) = "ds" => LineType(i) = "ds"
      BY DEF LineType
    <2>. QED
      BY <1>12, <2>1
  <1> DEFINE size == Size + gap
  <1> HIDE DEF size
  <1>18. P!Account("ds", size)
    <2>1. size = ClosedSize + Text!Length(Place)
      BY <1>16 DEF size
    <2>. QED
      BY <1>2, <1>12, <1>14, <1>17, <2>1, AccountsLine
  <1>19. memory' = memory \o P!Zeros(gap)
    BY <1>11, SameHelpers
  <1>20. size = P!Size + (P!Body.literal % WordSize)
    BY <1>13, <1>16 DEF size
  <1>21. UNCHANGED <<P!input, todo, P!evaluation, org, org_set, P!symbols, P!fixups>>
    BY <1>1, <1>10, <1>14 DEF P!input, evaluation, P!evaluation, symbols, P!symbols, fixups, P!fixups
  <1>. QED
    BY <1>12, <1>13, <1>14, <1>18, <1>19, <1>20, <1>21 DEF P!ReserveDs

\* Every step of the loader is one of the assembler on the text.
LEMMA LoaderSimulates ==
  ASSUME InFile, P!IInv, P!Read, [SkoolNext]_skoolVars
  PROVE  [P!Next]_(P!vars)
  <1>1. CASE FirstLine
    BY <1>1, FirstLineSimulates DEF P!Next, P!Parsing
  <1>2. CASE PlaceLine
    BY <1>2, PlaceLineSimulates DEF P!Next, P!Parsing
  <1>3. CASE AssembleLine
    BY <1>3, AssembleSimulates
  <1>4. CASE SkipLine \/ UNCHANGED skoolVars
    <2>1. UNCHANGED skoolVars
      BY <1>4 DEF SkipLine
    <2>2. UNCHANGED <<source, address, handed, line>> /\ UNCHANGED vars
      BY <2>1 DEF skoolVars, skool, vars
    <2>3. Place' = Place /\ Spelled' = Spelled
      BY <2>2, SpelledStays DEF Place
    <2>4. UNCHANGED <<ClosedSize, ClosedBlocks>>
      BY <2>2, <2>3, PlaceIs, ClosedStays DEF InFile
    <2>. QED
      BY <2>2, <2>3, <2>4 DEF vars, P!vars
  <1>. QED
    BY <1>1, <1>2, <1>3, <1>4 DEF SkoolNext

-----------------------------------------------------------------------------
(* What the assembler keeps of the text, the loader keeps of the file. *)

TextInv == P!IInv /\ P!Read /\ P!Sound /\ P!Patched /\ P!Concluded
FileInv == SkoolInv /\ (Ascending => TextInv)

LEMMA InitSimulates ==
  ASSUME SkoolInit, SkoolInv, Ascending
  PROVE  P!Init
  <1>1. /\ Fresh(0) /\ handed = FALSE /\ relative = "absolute" /\ FileOK
    BY DEF SkoolInit, SkoolInv
  <1>2. line = 1 /\ Place = 1
    BY <1>1 DEF Fresh, Place
  <1>3. ClosedSize = 0 /\ ClosedBlocks = <<>>
    BY <1>1, <1>2, ClosedStarts
  <1>4. Spelled \in Seq(TextLine)
    BY <1>1, SpelledType
  <1>5. P!Fresh(0)
    BY <1>1, <1>2, <1>3 DEF Fresh, P!Fresh, Empty, P!Empty
  <1>. QED
    BY <1>1, <1>4, <1>5 DEF P!Init

LEMMA FileInitInv == SkoolInit => FileInv
  <1> SUFFICES ASSUME SkoolInit PROVE FileInv
    OBVIOUS
  <1>1. SkoolInv
    BY SkoolInitInv
  <1>2. ASSUME Ascending PROVE TextInv
    <2>1. P!Init
      BY <1>1, <1>2, InitSimulates
    <2>2. P!IInv /\ P!Read
      BY <2>1, P!InitInv, P!InitRead, TextAssumptions
    <2>3. P!Sound /\ P!Patched
      BY <2>1, P!InitSound, P!InitPatched, TextAssumptions
    <2>4. phase = "line"
      BY <2>1 DEF P!Init, P!Fresh
    <2>5. P!Concluded
      BY <2>4 DEF P!Concluded
    <2>. QED
      BY <2>2, <2>3, <2>5 DEF TextInv
  <1>. QED
    BY <1>1, <1>2 DEF FileInv

LEMMA FileStep ==
  ASSUME FileInv, [SkoolNext]_skoolVars
  PROVE  FileInv' /\ (Ascending => [P!Next]_(P!vars))
  <1>1. SkoolInv /\ SkoolInv'
    BY SkoolStepInv DEF FileInv
  <1>2. UNCHANGED <<source, address>>
    BY InputKept DEF SkoolNext, SkipLine, FirstLine, PlaceLine, AssembleLine, skoolVars, skool,
       vars, input
  <1>3. Ascending' <=> Ascending
    BY <1>2, SameAscending
  <1>4. ASSUME Ascending PROVE TextInv' /\ [P!Next]_(P!vars)
    <2>1. TextInv
      BY <1>4 DEF FileInv
    <2>2. P!IInv /\ P!Read /\ P!Sound /\ P!Patched /\ P!Concluded
      BY <2>1 DEF TextInv
    <2>3. InFile
      BY <1>1, <1>4 DEF SkoolInv, InFile
    <2>4. [P!Next]_(P!vars)
      BY <2>2, <2>3, LoaderSimulates
    <2>5. P!IInv'
      BY <2>2, <2>4, P!StepInv, TextAssumptions
    <2>6. P!Read'
      BY <2>2, <2>4, P!ReadStep, TextAssumptions
    <2>7. P!Sound'
      BY <2>2, <2>4, P!SoundStep, TextAssumptions
    <2>8. P!Patched'
      BY <2>2, <2>4, P!PatchedStep, TextAssumptions
    <2>9. P!Concluded'
      BY <2>2, <2>4, P!ConcludedStep, TextAssumptions
    <2>. QED
      BY <2>4, <2>5, <2>6, <2>7, <2>8, <2>9 DEF TextInv
  <1>. QED
    BY <1>1, <1>3, <1>4 DEF FileInv

LEMMA FileInvariance == SkoolSpec => []FileInv
  <1>1. FileInv /\ [SkoolNext]_skoolVars => FileInv'
    BY FileStep
  <1>. QED
    BY <1>1, FileInitInv, PTL DEF SkoolSpec

\* An ascending file gives the image of the text it stands for, and is refused
\* exactly when that text is.
THEOREM AscendingIsAssembled == SkoolSpec => []AscendingAssembles
  <1>1. FileInv => AscendingAssembles
    <2> SUFFICES ASSUME FileInv, phase \in {"done", "error"}, Ascending, Text!Promised
                 PROVE  /\ phase = "error" <=> Text!Refused
                        /\ phase = "done" => org = Text!Image.org /\ memory = Text!Image.memory
      BY DEF AscendingAssembles
    <2>1. P!Abstract!Promised /\ P!Concluded
      BY TextPromised DEF FileInv, TextInv
    <2>2. /\ phase = "error" => Text!Refused
          /\ phase = "done" => ~Text!Refused
      BY <2>1, TextRefused DEF P!Concluded
    <2>3. ASSUME phase = "done" PROVE org = Text!Image.org /\ memory = Text!Image.memory
      <3> DEFINE kinds == P!Expand(ClosedBlocks)
                 image == [org |-> org, memory |-> memory, kinds |-> kinds]
      <3>1. image = P!Abstract!Image
        BY <2>1, <2>3 DEF P!Concluded
      <3>2. image.org = org /\ image.memory = memory
        OBVIOUS
      <3>. QED
        BY <3>1, <3>2, TextImage
    <2>. QED
      BY <2>2, <2>3
  <1>. QED
    BY <1>1, FileInvariance, PTL


-----------------------------------------------------------------------------
(* P and Asm are the same assembler. *)

LEMMA SameParsing ==
  /\ P!DefineLabel => Asm!DefineLabel
  /\ P!EmptyLine => Asm!EmptyLine
  /\ P!RejectLine => Asm!RejectLine
  /\ P!CallEqu => Asm!CallEqu
  /\ P!SetOrg => Asm!SetOrg
  /\ P!PushOpcode => Asm!PushOpcode
  /\ P!AccountCode => Asm!AccountCode
  /\ P!PushDbItem => Asm!PushDbItem
  /\ P!AccountDb => Asm!AccountDb
  /\ P!ReserveDs => Asm!ReserveDs
  /\ P!PushDwItem => Asm!PushDwItem
  /\ P!AccountDw => Asm!AccountDw
  /\ P!StartFixups => Asm!StartFixups
  <1>1. P!DefineLabel => Asm!DefineLabel
    BY DEF P!DefineLabel, Asm!DefineLabel, P!Fail, Asm!Fail, P!Size, Asm!Size,
         P!input, Asm!input, P!program, Asm!program, P!fixups, Asm!fixups
  <1>2. P!EmptyLine => Asm!EmptyLine
    BY DEF P!EmptyLine, Asm!EmptyLine, P!AtBody, Asm!AtBody, P!Body, Asm!Body,
         P!NextLine, Asm!NextLine, P!input, Asm!input, P!evaluation, Asm!evaluation,
         P!program, Asm!program, P!symbols, Asm!symbols, P!fixups, Asm!fixups
  <1>3. P!RejectLine => Asm!RejectLine
    BY DEF P!RejectLine, Asm!RejectLine, P!AtBody, Asm!AtBody, P!Body, Asm!Body,
         P!Fail, Asm!Fail, P!input, Asm!input, P!program, Asm!program,
         P!symbols, Asm!symbols, P!fixups, Asm!fixups
  <1>4. P!CallEqu => Asm!CallEqu
    BY DEF P!CallEqu, Asm!CallEqu, P!AtBody, Asm!AtBody, P!Body, Asm!Body, P!input, Asm!input,
         P!program, Asm!program, P!symbols, Asm!symbols, P!fixups, Asm!fixups
  <1>5. P!SetOrg => Asm!SetOrg
    BY DEF P!SetOrg, Asm!SetOrg, P!AtBody, Asm!AtBody, P!Body, Asm!Body, P!Fail, Asm!Fail,
         P!NextLine, Asm!NextLine, P!evaluation, Asm!evaluation, P!input, Asm!input,
         P!symbols, Asm!symbols, P!fixups, Asm!fixups
  <1>6. P!PushOpcode => Asm!PushOpcode
    BY DEF P!PushOpcode, Asm!PushOpcode, P!AtBody, Asm!AtBody, P!Body, Asm!Body,
         P!HasDollar, Asm!HasDollar, P!Fail, Asm!Fail, P!Merge, Asm!Merge, P!From, Asm!From,
         P!Size, Asm!Size, P!ReplaceDollar, Asm!ReplaceDollar, P!Dollar, Asm!Dollar,
         P!input, Asm!input, P!symbols, Asm!symbols, P!fixups, Asm!fixups
  <1>7. P!AccountCode => Asm!AccountCode
    BY DEF P!AccountCode, Asm!AccountCode, P!Account, Asm!Account, P!Size, Asm!Size,
         P!NextLine, Asm!NextLine, P!input, Asm!input, P!evaluation, Asm!evaluation,
         P!symbols, Asm!symbols, P!fixups, Asm!fixups
  <1>8. P!PushDbItem => Asm!PushDbItem
    BY DEF P!PushDbItem, Asm!PushDbItem, P!AtBody, Asm!AtBody, P!Body, Asm!Body,
         P!HasDollar, Asm!HasDollar, P!Fail, Asm!Fail, P!Merge, Asm!Merge, P!From, Asm!From,
         P!Size, Asm!Size, P!evaluation, Asm!evaluation, P!input, Asm!input,
         P!symbols, Asm!symbols
  <1>9. P!AccountDb => Asm!AccountDb
    BY DEF P!AccountDb, Asm!AccountDb, P!AtBody, Asm!AtBody, P!Body, Asm!Body,
         P!Account, Asm!Account, P!Size, Asm!Size, P!NextLine, Asm!NextLine,
         P!input, Asm!input, P!evaluation, Asm!evaluation, P!symbols, Asm!symbols,
         P!fixups, Asm!fixups
  <1>10. P!ReserveDs => Asm!ReserveDs
    BY DEF P!ReserveDs, Asm!ReserveDs, P!AtBody, Asm!AtBody, P!Body, Asm!Body,
         P!Account, Asm!Account, P!Zeros, Asm!Zeros, P!Size, Asm!Size,
         P!NextLine, Asm!NextLine, P!input, Asm!input, P!evaluation, Asm!evaluation,
         P!symbols, Asm!symbols, P!fixups, Asm!fixups
  <1>11. P!PushDwItem => Asm!PushDwItem
    BY DEF P!PushDwItem, Asm!PushDwItem, P!AtBody, Asm!AtBody, P!Body, Asm!Body,
         P!Zeros, Asm!Zeros, P!Merge, Asm!Merge, P!From, Asm!From, P!Size, Asm!Size,
         P!ReplaceDollar, Asm!ReplaceDollar, P!Dollar, Asm!Dollar, P!input, Asm!input,
         P!evaluation, Asm!evaluation, P!symbols, Asm!symbols
  <1>12. P!AccountDw => Asm!AccountDw
    BY DEF P!AccountDw, Asm!AccountDw, P!AtBody, Asm!AtBody, P!Body, Asm!Body,
         P!Account, Asm!Account, P!Size, Asm!Size, P!NextLine, Asm!NextLine,
         P!input, Asm!input, P!evaluation, Asm!evaluation, P!symbols, Asm!symbols,
         P!fixups, Asm!fixups
  <1>13. P!StartFixups => Asm!StartFixups
    BY DEF P!StartFixups, Asm!StartFixups, P!input, Asm!input, P!program, Asm!program,
         P!symbols, Asm!symbols, P!fixups, Asm!fixups
  <1>. QED
    BY <1>1, <1>2, <1>3, <1>4, <1>5, <1>6, <1>7, <1>8, <1>9, <1>10, <1>11, <1>12, <1>13

LEMMA SameEvaluating ==
  /\ P!PushNumber => Asm!PushNumber
  /\ P!PushName => Asm!PushName
  /\ P!Negate => Asm!Negate
  /\ P!BinaryOp => Asm!BinaryOp
  /\ P!SyntaxError => Asm!SyntaxError
  /\ P!ReturnNothing => Asm!ReturnNothing
  <1>1. P!PushNumber => Asm!PushNumber
    BY DEF P!PushNumber, Asm!PushNumber, P!Word, Asm!Word, P!Reduces, Asm!Reduces,
         P!Current, Asm!Current, P!Body, Asm!Body, P!Least, Asm!Least, P!Step, Asm!Step,
         P!input, Asm!input, P!program, Asm!program, P!symbols, Asm!symbols,
         P!fixups, Asm!fixups
  <1>2. P!PushName => Asm!PushName
    BY DEF P!PushName, Asm!PushName, P!Reduces, Asm!Reduces, P!Current, Asm!Current,
         P!Body, Asm!Body, P!Least, Asm!Least, P!Meanings, Asm!Meanings, P!Fail, Asm!Fail,
         P!Step, Asm!Step, P!input, Asm!input, P!program, Asm!program,
         P!symbols, Asm!symbols, P!fixups, Asm!fixups
  <1>3. P!Negate => Asm!Negate
    BY DEF P!Negate, Asm!Negate, P!Reduces, Asm!Reduces, P!Current, Asm!Current,
         P!Body, Asm!Body, P!Least, Asm!Least, P!Rest, Asm!Rest, P!Top, Asm!Top,
         P!Wrap, Asm!Wrap, P!IntSize, Asm!IntSize, P!Step, Asm!Step, P!input, Asm!input,
         P!program, Asm!program, P!symbols, Asm!symbols, P!fixups, Asm!fixups
  <1>4. P!BinaryOp => Asm!BinaryOp
    BY DEF P!BinaryOp, Asm!BinaryOp, P!Operators, Asm!Operators, P!Reduces, Asm!Reduces,
         P!Current, Asm!Current, P!Body, Asm!Body, P!Least, Asm!Least, P!Top, Asm!Top,
         P!Traps, Asm!Traps, P!MinInt, Asm!MinInt, P!Apply, Asm!Apply, P!CDiv, Asm!CDiv,
         P!Wrap, Asm!Wrap, P!IntSize, Asm!IntSize, P!Step, Asm!Step, P!input, Asm!input,
         P!program, Asm!program, P!symbols, Asm!symbols, P!fixups, Asm!fixups
  <1>5. P!SyntaxError => Asm!SyntaxError
    BY DEF P!SyntaxError, Asm!SyntaxError, P!Reduces, Asm!Reduces, P!Current, Asm!Current,
         P!Body, Asm!Body, P!Least, Asm!Least, P!input, Asm!input, P!program, Asm!program,
         P!symbols, Asm!symbols, P!fixups, Asm!fixups
  <1>6. P!ReturnNothing => Asm!ReturnNothing
    BY DEF P!ReturnNothing, Asm!ReturnNothing, P!AtReturn, Asm!AtReturn,
         P!Current, Asm!Current, P!Body, Asm!Body, P!Least, Asm!Least, P!input, Asm!input,
         P!evaluation, Asm!evaluation, P!program, Asm!program, P!symbols, Asm!symbols,
         P!fixups, Asm!fixups
  <1>. QED
    BY <1>1, <1>2, <1>3, <1>4, <1>5, <1>6

LEMMA SamePatching ==
  /\ P!ReturnEqu => Asm!ReturnEqu
  /\ P!PatchRel => Asm!PatchRel
  /\ P!PatchByte => Asm!PatchByte
  /\ P!PatchWord => Asm!PatchWord
  /\ P!NextLoop => Asm!NextLoop
  /\ P!CheckLimit => Asm!CheckLimit
  /\ P!Ended => Asm!Ended
  <1>1. P!ReturnEqu => Asm!ReturnEqu
    BY DEF P!ReturnEqu, Asm!ReturnEqu, P!Returns, Asm!Returns, P!AtReturn, Asm!AtReturn,
         P!Current, Asm!Current, P!Body, Asm!Body, P!Least, Asm!Least, P!Rest, Asm!Rest,
         P!Result, Asm!Result, P!Top, Asm!Top, P!NextLine, Asm!NextLine, P!input, Asm!input,
         P!program, Asm!program, P!fixups, Asm!fixups
  <1>2. P!PatchRel => Asm!PatchRel
    BY DEF P!PatchRel, Asm!PatchRel, P!Returns, Asm!Returns, P!AtReturn, Asm!AtReturn,
         P!Current, Asm!Current, P!Body, Asm!Body, P!Least, Asm!Least, P!Rest, Asm!Rest,
         P!Result, Asm!Result, P!Top, Asm!Top, P!RelOffset, Asm!RelOffset,
         P!SignedByte, Asm!SignedByte, P!InReach, Asm!InReach, P!input, Asm!input,
         P!symbols, Asm!symbols, P!fixups, Asm!fixups
  <1>3. P!PatchByte => Asm!PatchByte
    BY DEF P!PatchByte, Asm!PatchByte, P!Returns, Asm!Returns, P!AtReturn, Asm!AtReturn,
         P!Current, Asm!Current, P!Body, Asm!Body, P!Least, Asm!Least, P!Rest, Asm!Rest,
         P!Result, Asm!Result, P!Top, Asm!Top, P!input, Asm!input, P!symbols, Asm!symbols,
         P!fixups, Asm!fixups
  <1>4. P!PatchWord => Asm!PatchWord
    BY DEF P!PatchWord, Asm!PatchWord, P!Returns, Asm!Returns, P!AtReturn, Asm!AtReturn,
         P!Current, Asm!Current, P!Body, Asm!Body, P!Least, Asm!Least, P!Rest, Asm!Rest,
         P!Result, Asm!Result, P!Top, Asm!Top, P!input, Asm!input, P!symbols, Asm!symbols,
         P!fixups, Asm!fixups
  <1>5. P!NextLoop => Asm!NextLoop
    BY DEF P!NextLoop, Asm!NextLoop, P!input, Asm!input, P!evaluation, Asm!evaluation,
         P!program, Asm!program, P!symbols, Asm!symbols, P!fixups, Asm!fixups
  <1>6. P!CheckLimit => Asm!CheckLimit
    BY DEF P!CheckLimit, Asm!CheckLimit, P!Size, Asm!Size, P!input, Asm!input,
         P!evaluation, Asm!evaluation, P!program, Asm!program, P!symbols, Asm!symbols,
         P!fixups, Asm!fixups
  <1>7. P!Ended => Asm!Ended
    BY DEF P!Ended, Asm!Ended, P!Terminal, Asm!Terminal, P!vars, Asm!vars
  <1>. QED
    BY <1>1, <1>2, <1>3, <1>4, <1>5, <1>6, <1>7

LEMMA SameAssembler == [P!Next]_(P!vars) => [Asm!Next]_(Asm!vars)
  <1>1. P!Next => Asm!Next
    BY SameParsing, SameEvaluating, SamePatching, Zenon
    DEF P!Next, Asm!Next, P!Parsing, Asm!Parsing, P!Evaluating, Asm!Evaluating,
        P!FixingUp, Asm!FixingUp
  <1>. QED
    BY <1>1 DEF P!vars, Asm!vars

LEMMA SameInit == P!Init => Asm!Init
  BY DEF P!Init, Asm!Init, P!Fresh, Asm!Fresh, P!Empty, Asm!Empty

\* Loading an ascending file is, from the first state on and step for step,
\* assembling the text it stands for.
THEOREM AscendingIsAssembly == SkoolSpec => AscendingRefines
  <1>1. SkoolInit => (Ascending => Asm!Init)
    BY InitSimulates, SkoolInitInv, SameInit
  <1>2. FileInv /\ [SkoolNext]_skoolVars => [Ascending => [Asm!Next]_(Asm!vars)]_skoolVars
    BY FileStep, SameAssembler
  <1>. QED
    BY <1>1, <1>2, FileInvariance, PTL DEF SkoolSpec, AscendingRefines
=============================================================================
