---------------------------- MODULE Driver_proofs ----------------------------
(***************************************************************************)
(* Theorems about read_sna: what it keeps in range, that it reads back     *)
(* whatever dump_blocks prints, and which files it cannot read; about      *)
(* main: what a save may touch, and what it leaves; and about a session of *)
(* runs: that a snapshot is listed as the text it was saved from.          *)
(***************************************************************************)
EXTENDS Session, SequenceTheorems, Data_proofs, TLAPS

-----------------------------------------------------------------------------
(* Types. *)

LEMMA TokenTypes ==
  ASSUME ReadDataOK, NEW i \in 1 .. Len(Tokens)
  PROVE  /\ Tokens[i].t = "integer" => Tokens[i].v \in Nat
         /\ TypeOf(Tokens[i]) \in Types
<1>1. Tokens \in Seq(Token) BY DEF ReadDataOK, IsSnapshot, Tokens
<1>2. Tokens[i] \in Token BY <1>1, ElementOfSeq
<1>3. Tokens[i].t = "integer" => Tokens[i].v \in Nat BY <1>2 DEF Token
<1>4. TypeOf(Tokens[i]) \in Types BY DEF TypeOf, Types
<1>. QED BY <1>3, <1>4

LEMMA CountNatural ==
  ASSUME ReadDataOK, NEW i \in Nat \ {0}
  PROVE  CountAt(i) \in Nat
<1>1. Len(Tokens) \in Nat BY DEF ReadDataOK, IsSnapshot, Tokens
<1>2. CASE i <= Len(Tokens) BY <1>1, <1>2, TokenTypes DEF CountAt
<1>3. CASE ~(i <= Len(Tokens)) BY <1>3 DEF CountAt
<1>. QED BY <1>2, <1>3

LEMMA OriginWord ==
  ASSUME ReadDataOK, NEW n \in Numbers
  PROVE  Origins(n) \subseteq 0 .. WordSize - 1
<1>1. \A i : IsInteger(i) => Tokens[i].v \in Nat
  <2>. SUFFICES ASSUME NEW i, IsInteger(i) PROVE Tokens[i].v \in Nat OBVIOUS
  <2>1. i \in 1 .. Len(Tokens) BY DEF IsInteger, ReadDataOK, IsSnapshot, Tokens
  <2>. QED BY <2>1, TokenTypes DEF IsInteger
<1>2. \A i : Leading(i) \subseteq Int BY <1>1 DEF Leading
<1>3. n \in Int BY <1>2 DEF Numbers
<1>4. n % WordSize \in 0 .. WordSize - 1 BY <1>3, SizeAssumption
<1>. QED BY <1>4 DEF Origins

LEMMA ReadKeepsTypes ==
  ASSUME ReadDataOK, Read
  PROVE  ReadDataOK'
<1>1. CASE AssignMemory
  <2>. DEFINE bytes == snapshot.bytes
  <2>1. bytes \in Seq(0 .. 255) BY DEF ReadDataOK, IsSnapshot
  <2>. HIDE DEF bytes
  <2>2. ASSUME NEW i \in Header + 1 .. Len(bytes) PROVE bytes[i] \in 0 .. 255
    <3>1. i \in 1 .. Len(bytes) BY <2>1, SizeAssumption
    <3>. QED BY <2>1, <3>1, ElementOfSeq
  <2>3. SubSeq(bytes, Header + 1, Len(bytes)) \in Seq(0 .. 255)
    BY <2>1, <2>2, SizeAssumption, SubSeqProperties
  <2>. QED BY <1>1, <2>3 DEF bytes, AssignMemory, ReadDataOK, IsSnapshot
<1>2. CASE ReadOrigin
  <2>1. org' \in 0 .. WordSize - 1 BY <1>2, OriginWord DEF ReadOrigin
  <2>. QED BY <1>2, <2>1 DEF ReadOrigin, ReadDataOK, IsSnapshot
<1>3. CASE SkipNewLine BY <1>3 DEF SkipNewLine, ReadDataOK, program, IsSnapshot
<1>4. CASE ReadBlock
  <2>1. pos \in 1 .. Len(Tokens) BY <1>4 DEF ReadBlock, ReadDataOK
  <2>2. [type |-> TypeOf(Tokens[pos]), count |-> CountAt(pos + 1)] \in Block
    BY <2>1, TokenTypes, CountNatural DEF Block, ReadDataOK
  <2>. QED BY <1>4, <2>2 DEF ReadBlock, ReadDataOK, IsSnapshot
<1>5. CASE EndBlocks BY <1>5 DEF EndBlocks, ReadDataOK, program, IsSnapshot
<1>. QED BY <1>1, <1>2, <1>3, <1>4, <1>5 DEF Read

\* Every snapshot and blocks file leaves a program: an origin of 16 bits, a
\* memory of bytes, and blocks of the four types.
THEOREM ReadTypeCorrect == Spec => []ReadTypeOK
<1>1. Init => ReadTypeOK
  BY SnapshotAssumption, SizeAssumption DEF Init, ReadTypeOK, ReadDataOK
<1>2. ReadTypeOK /\ [Next]_readVars => ReadTypeOK'
  <2>. SUFFICES ASSUME ReadTypeOK, [Next]_readVars PROVE ReadTypeOK' OBVIOUS
  <2>1. CASE Read
    <3>1. ReadDataOK' BY <2>1, ReadKeepsTypes DEF ReadTypeOK
    <3>2. phase' \in {"load", "origin", "blocks"} \cup Ends
      BY <2>1 DEF Read, AssignMemory, ReadOrigin, SkipNewLine, ReadBlock, EndBlocks, Ends, ReadTypeOK
    <3>. QED BY <3>1, <3>2 DEF ReadTypeOK
  <2>2. CASE UNCHANGED readVars
    BY <2>2 DEF readVars, program, ReadTypeOK, ReadDataOK, IsSnapshot
  <2>. QED BY <2>1, <2>2 DEF Next, ReadEnded
<1>. QED BY <1>1, <1>2, PTL DEF Spec

-----------------------------------------------------------------------------
(* What cannot be read. *)

\* read_sna leaves C++ only on a blocks file of no tokens, or one that ends
\* without a line end.
THEOREM LineEndedIsDefined == Spec => []DefinedIfLineEnded
<1>1. Init => DefinedIfLineEnded BY DEF Init, DefinedIfLineEnded
<1>2. ReadTypeOK /\ DefinedIfLineEnded /\ [Next]_readVars => DefinedIfLineEnded'
  <2>. SUFFICES ASSUME ReadTypeOK, DefinedIfLineEnded, [Next]_readVars PROVE DefinedIfLineEnded'
    OBVIOUS
  <2>1. CASE AssignMemory BY <2>1 DEF AssignMemory, DefinedIfLineEnded
  <2>2. CASE ReadOrigin BY <2>2 DEF ReadOrigin, DefinedIfLineEnded, Tokens
  <2>3. CASE SkipNewLine BY <2>3 DEF SkipNewLine, DefinedIfLineEnded, Tokens
  <2>4. CASE ReadBlock BY <2>4 DEF ReadBlock, DefinedIfLineEnded, Tokens
  <2>5. CASE EndBlocks BY <2>5 DEF EndBlocks, DefinedIfLineEnded, Tokens
  <2>6. CASE UNCHANGED readVars BY <2>6 DEF readVars, DefinedIfLineEnded, Tokens
  <2>. QED BY <2>1, <2>2, <2>3, <2>4, <2>5, <2>6 DEF Next, Read, ReadEnded
<1>. QED BY <1>1, <1>2, ReadTypeCorrect, PTL DEF Spec

-----------------------------------------------------------------------------
(* dump_blocks and read_sna. *)

LEMMA ProgramFields ==
  ASSUME NEW p \in Programs
  PROVE  /\ p.org \in 0 .. WordSize - 1
         /\ p.mem_type \in Seq(Countable)
         /\ Len(p.mem_type) \in Nat
<1>1. IsProgram(p) BY ProgramAssumption
<1>2. p.mem_type \in Seq(Countable) BY <1>1 DEF IsProgram
<1>3. Len(p.mem_type) \in Nat BY <1>2
<1>. QED BY <1>1, <1>2, <1>3 DEF IsProgram

\* In the tokens dump_blocks prints, k blocks end at token 3k + 1.
LEMMA PrintedTokens ==
  ASSUME NEW p \in Programs, Tokens = BlockTokens(p.org, p.mem_type)
  PROVE  /\ Len(p.mem_type) \in Nat
         /\ Len(Tokens) = 3 * Len(p.mem_type) + 2
         /\ DOMAIN Tokens = 1 .. 3 * Len(p.mem_type) + 2
         /\ Tokens[1] = Integer(p.org)
         /\ \A k \in 0 .. Len(p.mem_type) : Tokens[3 * k + 2] = NewLine
         /\ \A k \in 0 .. Len(p.mem_type) - 1 :
              /\ Tokens[3 * k + 3] = [t |-> "name", s |-> p.mem_type[k + 1].type]
              /\ Tokens[3 * k + 4] = Integer(p.mem_type[k + 1].count)
<1>. DEFINE n == Len(p.mem_type)
<1>1. n \in Nat BY ProgramFields
<1>2. Tokens = [i \in 1 .. 3 * n + 2 |->
                  CASE i = 1 -> Integer(p.org)
                    [] i % 3 = 2 -> NewLine
                    [] i % 3 = 0 -> [t |-> "name", s |-> p.mem_type[i \div 3].type]
                    [] OTHER -> Integer(p.mem_type[i \div 3].count)]
  BY DEF BlockTokens
<1>. HIDE DEF n
<1>a. ASSUME NEW i \in 1 .. 3 * n + 2, i # 1
      PROVE  /\ i % 3 = 2 => Tokens[i] = NewLine
             /\ i % 3 = 0 => Tokens[i] = [t |-> "name", s |-> p.mem_type[i \div 3].type]
             /\ i % 3 = 1 => Tokens[i] = Integer(p.mem_type[i \div 3].count)
  <2>1. Tokens[i] = CASE i = 1 -> Integer(p.org)
                      [] i % 3 = 2 -> NewLine
                      [] i % 3 = 0 -> [t |-> "name", s |-> p.mem_type[i \div 3].type]
                      [] OTHER -> Integer(p.mem_type[i \div 3].count)
    BY <1>2
  <2>2. CASE i % 3 = 2 BY <1>a, <2>1, <2>2
  <2>3. CASE i % 3 = 0 BY <1>a, <2>1, <2>3
  <2>4. CASE i % 3 = 1 BY <1>a, <2>1, <2>4
  <2>5. i % 3 \in 0 .. 2 BY <1>1
  <2>. QED BY <2>2, <2>3, <2>4, <2>5
<1>3. DOMAIN Tokens = 1 .. 3 * n + 2 BY <1>2
<1>4. Len(Tokens) = 3 * n + 2
  <2>1. Tokens \in Seq({Tokens[i] : i \in 1 .. 3 * n + 2}) BY <1>1, <1>2
  <2>. QED BY <1>1, <1>3, <2>1
<1>5. Tokens[1] = Integer(p.org) BY <1>1, <1>2
<1>6. \A k \in 0 .. n : Tokens[3 * k + 2] = NewLine
  <2>. TAKE k \in 0 .. n
  <2>1. 3 * k + 2 \in 1 .. 3 * n + 2 /\ 3 * k + 2 # 1 /\ (3 * k + 2) % 3 = 2 BY <1>1
  <2>. QED BY <1>a, <2>1
<1>7. ASSUME NEW k \in 0 .. n - 1
      PROVE  /\ Tokens[3 * k + 3] = [t |-> "name", s |-> p.mem_type[k + 1].type]
             /\ Tokens[3 * k + 4] = Integer(p.mem_type[k + 1].count)
  <2>1. /\ 3 * k + 3 \in 1 .. 3 * n + 2 /\ 3 * k + 3 # 1
        /\ (3 * k + 3) % 3 = 0 /\ (3 * k + 3) \div 3 = k + 1 BY <1>1, <1>7
  <2>2. /\ 3 * k + 4 \in 1 .. 3 * n + 2 /\ 3 * k + 4 # 1
        /\ (3 * k + 4) % 3 = 1 /\ (3 * k + 4) \div 3 = k + 1 BY <1>1, <1>7
  <2>. QED BY <1>a, <2>1, <2>2
<1>. QED BY <1>1, <1>3, <1>4, <1>5, <1>6, <1>7 DEF n

\* How far read_sna has come in what dump_blocks printed of p: past k blocks, and
\* at the line end after the last of them or past it.
ReadSoFar(p, k) ==
  /\ k \in 0 .. Len(p.mem_type)
  /\ org = p.org
  /\ mem_type = SubSeq(p.mem_type, 1, k)
  /\ pos \in {3 * k + 2, 3 * k + 3}

InStep(p) ==
  /\ phase # "undefined"
  /\ phase \in {"load", "origin"} => mem_type = <<>>
  /\ phase = "blocks" => \E k \in Nat : ReadSoFar(p, k)
  /\ phase = "loaded" => org = p.org /\ mem_type = p.mem_type

ReadInStep == \A p \in Programs : Tokens = BlockTokens(p.org, p.mem_type) => InStep(p)

LEMMA PrintedOrigin ==
  ASSUME NEW p \in Programs, Tokens = BlockTokens(p.org, p.mem_type)
  PROVE  Numbers = {p.org} /\ Origins(p.org) = {p.org}
<1>1. DOMAIN Tokens = 1 .. 3 * Len(p.mem_type) + 2 /\ Len(p.mem_type) \in Nat
      /\ Tokens[1] = Integer(p.org)
  BY PrintedTokens
<1>2. IsFirstText(1) /\ IsInteger(1) /\ Tokens[1].v = p.org
  BY <1>1 DEF IsFirstText, IsInteger, Integer, NewLine, White, Other
<1>3. ASSUME NEW j \in DOMAIN Tokens, IsFirstText(j) PROVE j = 1
  <2>1. 1 \in 1 .. j - 1 => Tokens[1] \in White BY <1>3 DEF IsFirstText
  <2>2. Tokens[1] \notin White BY <1>2 DEF IsFirstText
  <2>. QED BY <1>1, <2>1, <2>2
<1>4. (CHOOSE i \in DOMAIN Tokens : IsFirstText(i)) = 1
  <2>1. 1 \in DOMAIN Tokens BY <1>1
  <2>. QED BY <1>2, <1>3, <2>1
<1>5. Leading(1) = {p.org}
  <2>1. Tokens[1] # Other("plus") /\ Tokens[1] # Other("minus") BY <1>1 DEF Integer, Other
  <2>. QED BY <1>2, <2>1 DEF Leading
<1>6. Numbers = {p.org} BY <1>2, <1>4, <1>5 DEF Numbers, IsFirstText
<1>7. p.org \in -IntLimit .. IntLimit - 1 /\ p.org % WordSize = p.org
  BY ProgramFields, SizeAssumption
<1>. QED BY <1>6, <1>7 DEF Origins

LEMMA SkipInStep ==
  ASSUME NEW p \in Programs, Tokens = BlockTokens(p.org, p.mem_type), InStep(p), SkipNewLine
  PROVE  InStep(p)'
<1>1. PICK k \in Nat : ReadSoFar(p, k) BY DEF InStep, SkipNewLine
<1>2. pos = 3 * k + 2
  <2>1. SUFFICES ASSUME pos = 3 * k + 3 PROVE FALSE BY <1>1 DEF ReadSoFar
  <2>2. k \in 0 .. Len(p.mem_type) - 1 BY <1>1, <2>1, PrintedTokens DEF SkipNewLine, ReadSoFar
  <2>3. Tokens[pos] = [t |-> "name", s |-> p.mem_type[k + 1].type] BY <2>1, <2>2, PrintedTokens
  <2>. QED BY <2>3 DEF SkipNewLine, NewLine
<1>3. ReadSoFar(p, k)' BY <1>1, <1>2 DEF ReadSoFar, SkipNewLine, program
<1>. QED BY <1>3 DEF InStep, SkipNewLine

LEMMA BlockInStep ==
  ASSUME NEW p \in Programs, Tokens = BlockTokens(p.org, p.mem_type), InStep(p), ReadBlock
  PROVE  InStep(p)'
<1>. DEFINE bl == p.mem_type
<1>1. PICK k \in Nat : ReadSoFar(p, k) BY DEF InStep, ReadBlock
<1>2. Len(bl) \in Nat /\ bl \in Seq(Countable)
  BY ProgramFields
<1>3. pos = 3 * k + 3 /\ k \in 0 .. Len(bl) - 1
  <2>1. pos # 3 * k + 2 BY <1>1, PrintedTokens DEF ReadBlock, ReadSoFar
  <2>. QED BY <1>1, <1>2, <2>1, PrintedTokens DEF ReadBlock, ReadSoFar
<1>4. bl[k + 1] \in Countable /\ bl[k + 1].type \in Types /\ bl[k + 1].count \in 0 .. CountSize - 1
  <2>1. k + 1 \in 1 .. Len(bl) BY <1>2, <1>3
  <2>2. bl[k + 1] \in Countable BY <1>2, <2>1, ElementOfSeq
  <2>. QED BY <2>2 DEF Countable
<1>5. TypeOf(Tokens[pos]) = bl[k + 1].type
  <2>1. Tokens[pos] = [t |-> "name", s |-> bl[k + 1].type] BY <1>3, PrintedTokens
  <2>. QED BY <1>4, <2>1 DEF TypeOf, Types
<1>6. CountAt(pos + 1) = bl[k + 1].count
  <2>0. pos + 1 = 3 * k + 4 BY <1>3
  <2>1. Tokens[pos + 1] = Integer(bl[k + 1].count) BY <1>3, <2>0, PrintedTokens
  <2>2. pos + 1 <= Len(Tokens) BY <1>2, <1>3, PrintedTokens
  <2>3. bl[k + 1].count < CountSize BY <1>4, SizeAssumption
  <2>. QED BY <2>1, <2>2, <2>3 DEF CountAt, Integer
<1>7. mem_type' = SubSeq(bl, 1, k + 1)
  <2>1. mem_type' = Append(SubSeq(bl, 1, k), bl[k + 1])
    <3>1. bl[k + 1] = [type |-> bl[k + 1].type, count |-> bl[k + 1].count] BY <1>4 DEF Countable
    <3>. HIDE DEF bl
    <3>2. mem_type' = Append(mem_type, bl[k + 1]) BY <1>5, <1>6, <3>1 DEF ReadBlock
    <3>. QED BY <1>1, <3>2 DEF bl, ReadSoFar
  <2>2. SubSeq(bl, 1, k + 1) = SubSeq(bl, 1, k) \o <<bl[k + 1]>>
    BY <1>2, <1>3, SubSeqRecursiveSecond
  <2>3. SubSeq(bl, 1, k) \in Seq(Countable)
    <3>1. \A i \in 1 .. k : bl[i] \in Countable
      <4>1. \A i \in 1 .. k : i \in 1 .. Len(bl) BY <1>2, <1>3
      <4>. QED BY <1>2, <4>1, ElementOfSeq
    <3>. HIDE DEF bl
    <3>. QED BY <3>1, <1>3, SubSeqProperties
  <2>4. Append(SubSeq(bl, 1, k), bl[k + 1]) = SubSeq(bl, 1, k) \o <<bl[k + 1]>>
    BY <1>4, <2>3
  <2>. QED BY <2>1, <2>2, <2>4
<1>8. pos' = 3 * (k + 1) + 2 /\ phase' = "blocks"
  BY <1>2, <1>3, PrintedTokens DEF ReadBlock
<1>9. ReadSoFar(p, k + 1)' BY <1>1, <1>2, <1>3, <1>7, <1>8 DEF ReadSoFar, ReadBlock
<1>. QED BY <1>8, <1>9 DEF InStep

LEMMA EndInStep ==
  ASSUME NEW p \in Programs, Tokens = BlockTokens(p.org, p.mem_type), InStep(p), EndBlocks
  PROVE  InStep(p)'
<1>1. PICK k \in Nat : ReadSoFar(p, k) BY DEF InStep, EndBlocks
<1>2. p.mem_type \in Seq(Countable) /\ Len(p.mem_type) \in Nat
  BY ProgramFields
<1>3. k = Len(p.mem_type) BY <1>1, <1>2, PrintedTokens DEF EndBlocks, ReadSoFar
<1>4. mem_type = p.mem_type BY <1>1, <1>2, <1>3, SubSeqFull DEF ReadSoFar
<1>. QED BY <1>1, <1>4 DEF InStep, EndBlocks, ReadSoFar, program

LEMMA OriginInStep ==
  ASSUME NEW p \in Programs, Tokens = BlockTokens(p.org, p.mem_type), InStep(p), ReadOrigin
  PROVE  InStep(p)'
<1>1. Tokens # <<>> BY PrintedTokens
<1>2. mem_type = SubSeq(p.mem_type, 1, 0) BY SubSeqEmpty DEF InStep, ReadOrigin
<1>3. org' = p.org BY PrintedOrigin DEF ReadOrigin
<1>4. ReadSoFar(p, 0)' BY <1>2, <1>3, PrintedTokens DEF ReadSoFar, ReadOrigin
<1>. QED BY <1>1, <1>4 DEF InStep, ReadOrigin

\* read_sna reads back every origin and every list of blocks that dump_blocks
\* prints, whatever their number and their counts, and never leaves C++ on it.
THEOREM PrintedIsRead == Spec => []ReadsWhatIsPrinted
<1>1. Init => ReadInStep BY DEF Init, ReadInStep, InStep
<1>2. ReadInStep /\ [Next]_readVars => ReadInStep'
  <2>. SUFFICES ASSUME [Next]_readVars, ReadInStep, NEW p \in Programs,
                       Tokens' = BlockTokens(p.org, p.mem_type)
                PROVE  InStep(p)'
    BY DEF ReadInStep
  <2>1. Tokens' = Tokens
    BY DEF Next, Read, ReadEnded, AssignMemory, ReadOrigin, SkipNewLine, ReadBlock, EndBlocks,
           readVars, Tokens
  <2>2. Tokens = BlockTokens(p.org, p.mem_type) /\ InStep(p) BY <2>1 DEF ReadInStep
  <2>3. CASE AssignMemory BY <2>2, <2>3 DEF AssignMemory, InStep
  <2>4. CASE ReadOrigin BY <2>2, <2>4, OriginInStep
  <2>5. CASE SkipNewLine BY <2>2, <2>5, SkipInStep
  <2>6. CASE ReadBlock BY <2>2, <2>6, BlockInStep
  <2>7. CASE EndBlocks BY <2>2, <2>7, EndInStep
  <2>8. CASE UNCHANGED readVars BY <2>2, <2>8 DEF readVars, program, InStep, ReadSoFar
  <2>. QED BY <2>3, <2>4, <2>5, <2>6, <2>7, <2>8 DEF Next, Read, ReadEnded
<1>3. ReadInStep => ReadsWhatIsPrinted BY DEF ReadInStep, InStep, ReadsWhatIsPrinted
<1>. QED BY <1>1, <1>2, <1>3, PTL DEF Spec

-----------------------------------------------------------------------------
(* The run of main. *)

Reading == {"load", "origin", "blocks"}

FilesOK(fs) == \A p \in DOMAIN fs : fs[p] \in Seq(0 .. 255)

\* Types, and what is known at each stage.
Staged ==
  /\ ReadDataOK
  /\ FilesOK(files) /\ FilesOK(disk.files) /\ buffer \in Seq(0 .. 255)
  /\ phase \in Reading => Kind[argv[1]] = "sna"
  /\ phase = "save" => org + Len(memory) <= WordSize

LEMMA BytesAreBytes ==
  ASSUME NEW fs, FilesOK(fs), NEW path
  PROVE  Bytes(fs, path) \in Seq(0 .. 255)
BY DEF FilesOK, Bytes

LEMMA PatchedBytes ==
  ASSUME NEW sna \in Seq(0 .. 255), memory \in Seq(0 .. 255), org \in Nat
  PROVE  /\ Patched(sna) \in Seq(0 .. 255)
         /\ DOMAIN Patched(sna) = DOMAIN sna
         /\ Len(Patched(sna)) = Len(sna)
<1>1. DOMAIN sna = 1 .. Len(sna) /\ Len(sna) \in Nat OBVIOUS
<1>2. ASSUME NEW k \in 1 .. Len(sna)
      PROVE  (IF k - Start \in DOMAIN memory THEN memory[k - Start] ELSE sna[k]) \in 0 .. 255
  <2>1. CASE k - Start \in DOMAIN memory
    <3>. DEFINE i == k - Start
    <3>0. i \in 1 .. Len(memory) BY <2>1
    <3>. HIDE DEF i
    <3>1. memory[i] \in 0 .. 255 BY <3>0, ElementOfSeq
    <3>. QED BY <2>1, <3>1 DEF i
  <2>2. CASE k - Start \notin DOMAIN memory
    <3>1. sna[k] \in 0 .. 255 BY <1>2, ElementOfSeq
    <3>. QED BY <2>2, <3>1
  <2>. QED BY <2>1, <2>2
<1>3. Patched(sna) \in [1 .. Len(sna) -> 0 .. 255] BY <1>1, <1>2 DEF Patched
<1>4. Patched(sna) \in Seq(0 .. 255) BY <1>1, <1>3, SeqDef
<1>5. DOMAIN Patched(sna) = 1 .. Len(sna) BY <1>3
<1>6. Len(Patched(sna)) = Len(sna) BY <1>1, <1>4, <1>5, LenProperties
<1>. QED BY <1>1, <1>4, <1>5, <1>6

LEMMA StagedInit == DriverInit => Staged
<1>. SUFFICES ASSUME DriverInit PROVE Staged OBVIOUS
<1>1. IsDisk(disk) BY DriverAssumption DEF DriverInit, Begin
<1>2. FilesOK(files) /\ FilesOK(disk.files) BY <1>1 DEF IsDisk, FilesOK, DriverInit, Begin
<1>3. snapshot.bytes \in Seq(0 .. 255)
  <2>1. snapshot.bytes = IF argv = <<>> THEN <<>> ELSE Bytes(files, argv[1]) BY DEF DriverInit, Begin
  <2>. QED BY <1>2, <2>1, BytesAreBytes
<1>4. IsSnapshot(snapshot) BY <1>1, <1>3 DEF IsDisk, IsSnapshot, DriverInit, Begin
<1>5. ReadDataOK BY <1>4, SizeAssumption DEF ReadDataOK, DriverInit, Begin
<1>. QED BY <1>2, <1>5 DEF Staged, Reading, DriverInit, Begin

\* Before a text is loaded, and after, read_sna's data are only carried along.
LEMMA CarriedData ==
  ASSUME ReadDataOK, UNCHANGED <<snapshot, pos, program>>
  PROVE  ReadDataOK'
BY DEF ReadDataOK, program, IsSnapshot

LEMMA LoadedData ==
  ASSUME ReadDataOK, LoadText
  PROVE  ReadDataOK'
<1>1. CASE UNCHANGED program BY <1>1, CarriedData DEF LoadText
<1>2. CASE \E p \in Programs : org' = p.org /\ memory' = p.memory /\ mem_type' = p.mem_type
  <2>1. PICK p \in Programs : org' = p.org /\ memory' = p.memory /\ mem_type' = p.mem_type BY <1>2
  <2>2. p.org \in 0 .. WordSize - 1 /\ p.memory \in Seq(0 .. 255) /\ p.mem_type \in Seq(Countable)
    BY ProgramAssumption DEF IsProgram
  <2>3. Countable \subseteq Block BY DEF Countable, Block
  <2>4. p.mem_type \in Seq(Block) BY <2>2, <2>3, SeqMonotonic
  <2>. QED BY <2>1, <2>2, <2>4 DEF ReadDataOK, LoadText, IsSnapshot
<1>. QED BY <1>1, <1>2 DEF LoadText

LEMMA StagedNext == Staged /\ [DriverNext]_driverVars => Staged'
<1>. SUFFICES ASSUME Staged, [DriverNext]_driverVars PROVE Staged' OBVIOUS
<1>1. CASE Usage BY <1>1, CarriedData DEF Usage, Staged, Reading
<1>2. CASE ReadArgument
  BY <1>2, CarriedData DEF ReadArgument, Staged, Reading, readVars
<1>3. CASE CheckArguments BY <1>3, CarriedData DEF CheckArguments, Staged, Reading
<1>4. CASE LoadText BY <1>4, LoadedData DEF LoadText, Staged, Reading
<1>5. CASE LoadSnapshot
  <2>1. ReadDataOK' BY <1>5, ReadKeepsTypes DEF LoadSnapshot, Staged
  <2>2. phase \in Reading /\ phase' # "save"
    BY <1>5 DEF LoadSnapshot, Read, AssignMemory, ReadOrigin, SkipNewLine, ReadBlock, EndBlocks,
                Reading
  <2>. QED BY <1>5, <2>1, <2>2 DEF LoadSnapshot, Staged
<1>6. CASE CheckLimit
  <2>1. org + Len(memory) <= WordSize \/ phase' = "error"
    BY <1>6, SizeAssumption DEF CheckLimit
  <2>2. phase' \in {"save", "print", "list", "error"} BY <1>6 DEF CheckLimit, Output
  <2>. QED BY <1>6, <2>1, <2>2, CarriedData DEF CheckLimit, Staged, Reading, program
<1>7. CASE PrintBlocks BY <1>7, CarriedData DEF PrintBlocks, Staged, Reading
<1>8. CASE PatchSnapshot
  <2>1. Bytes(files, argv[2]) \in Seq(0 .. 255) BY BytesAreBytes DEF Staged
  <2>2. Patched(Bytes(files, argv[2])) \in Seq(0 .. 255)
    BY <2>1, PatchedBytes, SizeAssumption DEF Staged, ReadDataOK
  <2>3. buffer' \in Seq(0 .. 255) BY <1>8, <2>2 DEF PatchSnapshot, Staged
  <2>. QED BY <1>8, <2>3, CarriedData DEF PatchSnapshot, Staged, Reading
<1>9. CASE WriteSnapshot
  <2>1. FilesOK(files')
    <3>1. CASE UNCHANGED files BY <3>1 DEF Staged, FilesOK
    <3>2. CASE \E n \in 0 .. Len(buffer) : files' = Written(argv[3], SubSeq(buffer, 1, n))
      <4>1. PICK n \in 0 .. Len(buffer) : files' = Written(argv[3], SubSeq(buffer, 1, n)) BY <3>2
      <4>2. SubSeq(buffer, 1, n) \in Seq(0 .. 255)
        <5>1. buffer \in Seq(0 .. 255) /\ Len(buffer) \in Nat BY DEF Staged
        <5>2. \A i \in 1 .. n : i \in 1 .. Len(buffer) BY <5>1
        <5>3. \A i \in 1 .. n : buffer[i] \in 0 .. 255 BY <5>1, <5>2, ElementOfSeq
        <5>. QED BY <5>3, SubSeqProperties
      <4>. QED BY <4>1, <4>2 DEF Written, FilesOK, Staged
    <3>. QED BY <1>9, <3>1, <3>2 DEF WriteSnapshot
  <2>. QED BY <1>9, <2>1, CarriedData DEF WriteSnapshot, Staged, Reading
<1>10. CASE UNCHANGED driverVars
  BY <1>10, CarriedData DEF driverVars, readVars, program, Staged
<1>. QED BY <1>1, <1>2, <1>3, <1>4, <1>5, <1>6, <1>7, <1>8, <1>9, <1>10 DEF DriverNext, Ended

LEMMA InsideNext == Staged /\ SavesInside /\ [DriverNext]_driverVars => SavesInside'
<1>. SUFFICES ASSUME Staged, SavesInside, [DriverNext]_driverVars, phase' = "undefined"
              PROVE  SavesInside'
  BY DEF SavesInside
<1>1. CASE Usage \/ ReadArgument \/ CheckArguments \/ LoadText \/ CheckLimit \/ PrintBlocks
           \/ WriteSnapshot
  <2>1. phase = "arguments" /\ phase' = phase
    BY <1>1 DEF Usage, ReadArgument, CheckArguments, LoadText, CheckLimit, PrintBlocks,
                WriteSnapshot, Output, readVars
  <2>. QED BY <2>1
<1>2. CASE LoadSnapshot
  <2>1. phase \in Reading /\ UNCHANGED <<snapshot, argv>>
    BY <1>2 DEF LoadSnapshot, Read, AssignMemory, ReadOrigin, SkipNewLine, ReadBlock, EndBlocks,
                Reading
  <2>2. Tokens = <<>> \/ Tokens[Len(Tokens)] # NewLine
    BY <1>2, <2>1 DEF LoadSnapshot, Read, AssignMemory, ReadOrigin, SkipNewLine, ReadBlock,
                      EndBlocks, Reading
  <2>3. ReadPastBlocks' BY <2>1, <2>2 DEF Staged, ReadPastBlocks, Tokens
  <2>. QED BY <2>3 DEF SavesInside
<1>3. CASE PatchSnapshot
  <2>. DEFINE sna == Bytes(files, argv[2])
  <2>1. sna \in Seq(0 .. 255) BY BytesAreBytes DEF Staged
  <2>2. Len(sna) \in Nat BY <2>1
  <2>3. memory = <<>> \/ Start < 0 \/ Start + Len(memory) > Len(sna) BY <1>3 DEF PatchSnapshot
  <2>4. org + Len(memory) <= WordSize /\ org \in Nat /\ Len(memory) \in Nat
    BY <1>3, SizeAssumption DEF PatchSnapshot, Staged, ReadDataOK
  <2>5. memory = <<>> \/ org < RamStart - Header \/ Len(sna) < Header + WordSize - RamStart
    <3>. HIDE DEF sna
    <3>. QED BY <2>2, <2>3, <2>4, SizeAssumption, DriverAssumption DEF Start
  <2>6. UNCHANGED <<memory, org, files, argv>> BY <1>3 DEF PatchSnapshot, program
  <2>. QED BY <2>5, <2>6 DEF SavesInside
<1>4. CASE UNCHANGED driverVars
  BY <1>4 DEF driverVars, readVars, program, SavesInside, ReadPastBlocks, Tokens
<1>. QED BY <1>1, <1>2, <1>3, <1>4 DEF DriverNext, Ended

\* A program that save would write outside a whole snapshot has been refused by
\* the size limit: the copy leaves the snapshot only when the program is empty,
\* begins below the snapshot or the snapshot is cut off.
THEOREM SaveStaysInside == DriverSpec => []SavesInside
<1>1. DriverInit => SavesInside BY DEF DriverInit, Begin, SavesInside
<1>. QED BY <1>1, StagedInit, StagedNext, InsideNext, PTL DEF DriverSpec

-----------------------------------------------------------------------------
(* Refusals. *)

UnchangedSoFar == phase # "done" => files = disk.files

\* No command line, source or snapshot makes a run that ends in an error message
\* change a file.
THEOREM RefusalsChangeNothing == DriverSpec => []RefusedUnchanged
<1>1. DriverInit => UnchangedSoFar BY DEF DriverInit, Begin, UnchangedSoFar
<1>2. UnchangedSoFar /\ [DriverNext]_driverVars => UnchangedSoFar'
  <2>. SUFFICES ASSUME UnchangedSoFar, [DriverNext]_driverVars PROVE UnchangedSoFar' OBVIOUS
  <2>1. CASE Usage BY <2>1 DEF Usage, UnchangedSoFar
  <2>2. CASE ReadArgument BY <2>2 DEF ReadArgument, readVars, UnchangedSoFar
  <2>3. CASE CheckArguments BY <2>3 DEF CheckArguments, UnchangedSoFar
  <2>4. CASE LoadText BY <2>4 DEF LoadText, UnchangedSoFar
  <2>5. CASE LoadSnapshot
    BY <2>5 DEF LoadSnapshot, Read, AssignMemory, ReadOrigin, SkipNewLine, ReadBlock, EndBlocks,
                UnchangedSoFar
  <2>6. CASE CheckLimit BY <2>6 DEF CheckLimit, UnchangedSoFar
  <2>7. CASE PrintBlocks BY <2>7 DEF PrintBlocks, UnchangedSoFar
  <2>8. CASE PatchSnapshot BY <2>8 DEF PatchSnapshot, UnchangedSoFar
  <2>9. CASE WriteSnapshot BY <2>9 DEF WriteSnapshot, UnchangedSoFar
  <2>10. CASE UNCHANGED driverVars BY <2>10 DEF driverVars, readVars, UnchangedSoFar
  <2>. QED BY <2>1, <2>2, <2>3, <2>4, <2>5, <2>6, <2>7, <2>8, <2>9, <2>10 DEF DriverNext, Ended
<1>3. UnchangedSoFar => RefusedUnchanged BY DEF UnchangedSoFar, RefusedUnchanged
<1>. QED BY <1>1, <1>2, <1>3, PTL DEF DriverSpec

-----------------------------------------------------------------------------
(* What a save leaves. *)

\* In the order of the usage line the pathnames are the first arguments.
InOrder ==
  /\ argv \in CommandLines
  /\ arg \in Nat /\ arg >= 2
  /\ pathnames \in Seq(Paths)
  /\ Len(pathnames) <= arg - 2
  /\ UsageOrder =>
       /\ \A k \in 1 .. Len(pathnames) : pathnames[k] = argv[k + 1]
       /\ Len(pathnames) = arg - 2 \/ \E i \in 2 .. arg - 1 : i <= Len(argv) /\ argv[i] \in Switches

LEMMA ReadInOrder ==
  ASSUME InOrder, ReadArgument
  PROVE  InOrder'
<1>. DEFINE a == argv[arg]
<1>1. argv \in Seq(Paths \cup Switches) /\ Len(argv) \in Nat /\ Len(pathnames) \in Nat
  BY DriverAssumption DEF InOrder
<1>2. arg \in 2 .. Len(argv) BY <1>1 DEF InOrder, ReadArgument
<1>3. a \in Paths \cup Switches
  <2>1. arg \in 1 .. Len(argv) BY <1>2
  <2>. QED BY <1>1, <2>1, ElementOfSeq
<1>4. arg' = arg + 1 /\ UNCHANGED argv /\ UsageOrder' = UsageOrder BY DEF ReadArgument, UsageOrder
<1>5. CASE a \in Switches
  <2>1. UNCHANGED pathnames BY <1>5 DEF ReadArgument
  <2>2. arg \in 2 .. arg' - 1 BY <1>2, <1>4
  <2>3. \E i \in 2 .. arg' - 1 : i <= Len(argv') /\ argv'[i] \in Switches
    BY <1>2, <1>4, <1>5, <2>2
  <2>. QED BY <1>1, <1>4, <2>1, <2>3 DEF InOrder
<1>6. CASE a \notin Switches
  <2>1. pathnames' = Append(pathnames, a) BY <1>6 DEF ReadArgument
  <2>2. pathnames' \in Seq(Paths) /\ Len(pathnames') = Len(pathnames) + 1
    BY <1>3, <1>6, <2>1 DEF InOrder
  <2>3. ASSUME UsageOrder
        PROVE  /\ Len(pathnames) = arg - 2
               /\ \A k \in 1 .. Len(pathnames') : pathnames'[k] = argv[k + 1]
    <3>1. Len(pathnames) = arg - 2
      <4>1. SUFFICES ASSUME NEW i \in 2 .. arg - 1, i <= Len(argv), argv[i] \in Switches PROVE FALSE
        BY <2>3 DEF InOrder
      <4>2. i \in 2 .. Len(argv) /\ i < arg BY <1>1, <1>2, <4>1
      <4>. QED BY <1>2, <1>6, <2>3, <4>1, <4>2 DEF UsageOrder
    <3>2. ASSUME NEW k \in 1 .. Len(pathnames') PROVE pathnames'[k] = argv[k + 1]
      <4>1. CASE k = Len(pathnames) + 1
        <5>1. pathnames'[k] = a BY <1>1, <2>1, <4>1 DEF InOrder
        <5>2. k + 1 = arg BY <1>2, <3>1, <4>1
        <5>. QED BY <5>1, <5>2
      <4>2. CASE k # Len(pathnames) + 1
        <5>1. k \in 1 .. Len(pathnames) BY <1>1, <2>2, <4>2
        <5>2. pathnames'[k] = pathnames[k] BY <1>1, <2>1, <5>1 DEF InOrder
        <5>. QED BY <2>3, <5>1, <5>2 DEF InOrder
      <4>. QED BY <4>1, <4>2
    <3>. QED BY <3>1, <3>2
  <2>. QED BY <1>1, <1>2, <1>4, <2>2, <2>3 DEF InOrder
<1>. QED BY <1>5, <1>6

\* The buffer, and then the file, is the patched source.
SaveReady ==
  /\ Bytes(disk.files, argv[2]) # <<>>
  /\ buffer = Patched(Bytes(disk.files, argv[2]))
  /\ Start + Len(memory) <= Len(Bytes(disk.files, argv[2]))

Stored(n) ==
  /\ n \in 0 .. Len(buffer)
  /\ n = Len(buffer) \/ disk.full
  /\ files = [p \in DOMAIN disk.files \cup {argv[3]} |->
               IF p = argv[3] THEN SubSeq(buffer, 1, n) ELSE disk.files[p]]

Saving ==
  /\ InOrder
  /\ UnchangedSoFar
  /\ phase \in {"save", "write"} => Len(pathnames) = 2
  /\ phase = "print" => Len(pathnames) # 2
  /\ phase = "write" => SaveReady
  /\ Saved => SaveReady /\ \E n \in Nat : Stored(n)

LEMMA SavingNext == Saving /\ [DriverNext]_driverVars => Saving'
<1>. SUFFICES ASSUME Saving, [DriverNext]_driverVars PROVE Saving' OBVIOUS
<1>. DEFINE Else == /\ UNCHANGED <<files, disk, argv, arguments>>
                    /\ phase \notin {"write", "done"}
                    /\ phase' \notin {"save", "write", "print", "done"}
<1>0. ASSUME Else PROVE Saving'
  BY <1>0 DEF Saving, InOrder, UsageOrder, UnchangedSoFar, arguments, Saved
<1>1. CASE Usage BY <1>0, <1>1 DEF Usage
<1>2. CASE ReadArgument
  <2>1. InOrder' BY <1>2, ReadInOrder DEF Saving
  <2>2. phase = "arguments" /\ phase' = "arguments" /\ UNCHANGED <<files, disk>>
    BY <1>2 DEF ReadArgument, readVars
  <2>. QED BY <2>1, <2>2 DEF Saving, UnchangedSoFar, Saved
<1>3. CASE CheckArguments BY <1>0, <1>3 DEF CheckArguments
<1>4. CASE LoadText BY <1>0, <1>4 DEF LoadText
<1>5. CASE LoadSnapshot
  BY <1>0, <1>5 DEF LoadSnapshot, Read, AssignMemory, ReadOrigin, SkipNewLine, ReadBlock, EndBlocks
<1>6. CASE CheckLimit
  BY <1>6 DEF CheckLimit, Output, Saving, InOrder, UsageOrder, UnchangedSoFar, arguments, Saved
<1>7. CASE PrintBlocks
  BY <1>7 DEF PrintBlocks, Saving, InOrder, UsageOrder, UnchangedSoFar, arguments, Saved
<1>8. CASE PatchSnapshot
  <2>1. files = disk.files BY <1>8 DEF PatchSnapshot, Saving, UnchangedSoFar
  <2>2. phase' \in {"write", "error", "undefined"} /\ UNCHANGED <<argv, disk, files, arguments, program>>
    BY <1>8 DEF PatchSnapshot
  <2>3. phase' = "write" => SaveReady'
    BY <1>8, <2>1, <2>2 DEF PatchSnapshot, SaveReady, Patched, Start, program
  <2>. QED BY <1>8, <2>2, <2>3 DEF PatchSnapshot, Saving, InOrder, UsageOrder, UnchangedSoFar,
                                   arguments, Saved
<1>9. CASE WriteSnapshot
  <2>1. files = disk.files /\ SaveReady /\ phase = "write" BY <1>9 DEF WriteSnapshot, Saving, UnchangedSoFar
  <2>2. phase' \in {"error", "done"} /\ UNCHANGED <<argv, disk, arguments, program, buffer>>
    BY <1>9 DEF WriteSnapshot
  <2>3. SaveReady' BY <2>1, <2>2 DEF SaveReady, Patched, Start, program
  <2>4. CASE phase' = "error"
    BY <1>9, <2>1, <2>2, <2>4 DEF WriteSnapshot, Saving, InOrder, UsageOrder, UnchangedSoFar,
                                   arguments, Saved
  <2>5. CASE phase' = "done"
    <3>1. PICK n \in 0 .. Len(buffer) : /\ n = Len(buffer) \/ disk.full
                                        /\ files' = Written(argv[3], SubSeq(buffer, 1, n))
      BY <1>9, <2>5 DEF WriteSnapshot
    <3>2. Stored(n)' BY <2>1, <2>2, <3>1 DEF Stored, Written
    <3>3. n \in Nat BY <3>1
    <3>. QED BY <2>2, <2>3, <2>5, <3>2, <3>3 DEF Saving, InOrder, UsageOrder, UnchangedSoFar,
                                                 arguments, Saved
  <2>. QED BY <2>2, <2>4, <2>5
<1>10. CASE UNCHANGED driverVars
  <2>1. UNCHANGED <<argv, disk, files, arguments, program, buffer, phase>>
    BY <1>10 DEF driverVars, readVars
  <2>2. UNCHANGED <<InOrder, UnchangedSoFar, SaveReady, Saved>>
    BY <2>1 DEF InOrder, UsageOrder, UnchangedSoFar, SaveReady, Saved, Patched, Start, arguments,
                program
  <2>3. \A n : Stored(n)' <=> Stored(n) BY <2>1 DEF Stored
  <2>. QED BY <2>1, <2>2, <2>3 DEF Saving, arguments
<1>. QED BY <1>1, <1>2, <1>3, <1>4, <1>5, <1>6, <1>7, <1>8, <1>9, <1>10 DEF DriverNext, Ended

LEMMA SavingInit == DriverInit => Saving
<1>. SUFFICES ASSUME DriverInit PROVE Saving OBVIOUS
<1>1. phase = "arguments" /\ pathnames = <<>> /\ arg = 2 /\ argv \in CommandLines /\ files = disk.files
  BY DEF DriverInit, Begin
<1>2. InOrder BY <1>1 DEF InOrder
<1>. QED BY <1>1, <1>2 DEF Saving, UnchangedSoFar, Saved

\* A byte of the file is the byte of the patched source in the same place.
LEMMA StoredBytes ==
  ASSUME NEW bytes \in Seq(0 .. 255), NEW n \in 0 .. Len(bytes)
  PROVE  /\ Len(SubSeq(bytes, 1, n)) = n
         /\ \A k \in 1 .. n : SubSeq(bytes, 1, n)[k] = bytes[k]
<1>1. Len(bytes) \in Nat OBVIOUS
<1>2. \A i \in 1 .. n : i \in 1 .. Len(bytes) BY <1>1
<1>3. \A i \in 1 .. n : bytes[i] \in 0 .. 255 BY <1>2, ElementOfSeq
<1>. QED BY <1>1, <1>3, SubSeqProperties

LEMMA SavedAsNamed == Staged /\ Saving => PatchedAsNamed
<1>. SUFFICES ASSUME Staged, Saving, Saved, UsageOrder PROVE PatchedAsNamed BY DEF PatchedAsNamed
<1>. DEFINE sna == disk.files[pathnames[1]]
            patched == files[pathnames[2]]
<1>1. pathnames[1] = argv[2] /\ pathnames[2] = argv[3] BY DEF Saving, InOrder, Saved
<1>2. Bytes(disk.files, argv[2]) = sna /\ buffer = Patched(sna)
  BY <1>1 DEF Saving, SaveReady, Bytes
<1>3. sna \in Seq(0 .. 255) BY <1>2, BytesAreBytes DEF Staged
<1>4. memory \in Seq(0 .. 255) /\ Len(memory) \in Nat /\ DOMAIN memory = 1 .. Len(memory)
      /\ org \in Nat /\ Header \in Nat /\ RamStart \in Nat
  BY SizeAssumption, DriverAssumption DEF Staged, ReadDataOK
<1>5. PICK n \in Nat : Stored(n) BY DEF Saving
<1>6. buffer \in Seq(0 .. 255) /\ DOMAIN buffer = DOMAIN sna /\ Len(buffer) = Len(sna)
  BY <1>2, <1>3, <1>4, PatchedBytes
<1>7. n \in 0 .. Len(buffer) /\ (n = Len(buffer) \/ disk.full) BY <1>5 DEF Stored
<1>8. patched = SubSeq(buffer, 1, n) BY <1>1, <1>5 DEF Stored
<1>9. Len(patched) = n /\ \A k \in 1 .. n : patched[k] = buffer[k] BY <1>6, <1>7, <1>8, StoredBytes
<1>10. \A p \in DOMAIN files \ {pathnames[2]} : files[p] = disk.files[p]
  BY <1>1, <1>5 DEF Stored
<1>. HIDE DEF sna, patched
<1>11. Len(sna) \in Nat /\ DOMAIN sna = 1 .. Len(sna) BY <1>3
<1>12. ASSUME NEW k \in 1 .. n
       PROVE  patched[k] = IF k - Start \in 1 .. Len(memory) THEN memory[k - Start] ELSE sna[k]
  <2>1. k \in DOMAIN sna
    <3>. DEFINE l == Len(sna)
    <3>. HIDE DEF l
    <3>1. l \in Nat /\ n \in 0 .. l /\ DOMAIN sna = 1 .. l BY <1>6, <1>7, <1>11 DEF l
    <3>. QED BY <3>1
  <2>. QED BY <1>2, <1>4, <1>9, <2>1 DEF Patched
<1>13. ASSUME NEW a \in RamStart .. RamStart + Len(patched) - Header - 1
       PROVE  Cell(patched, a) = IF a \in org .. org + Len(memory) - 1 THEN memory[a - org + 1]
                                 ELSE Cell(sna, a)
  <2>. DEFINE k == Header + 1 + a - RamStart
  <2>1. k \in 1 .. n BY <1>4, <1>9
  <2>2. k - Start = a - org + 1 BY <1>4 DEF Start
  <2>3. k - Start \in 1 .. Len(memory) <=> a \in org .. org + Len(memory) - 1 BY <1>4, <2>2
  <2>4. patched[k] = IF k - Start \in 1 .. Len(memory) THEN memory[k - Start] ELSE sna[k]
    <3>. HIDE DEF k
    <3>. QED BY <1>12, <2>1
  <2>5. Cell(patched, a) = patched[k] /\ Cell(sna, a) = sna[k] BY DEF Cell
  <2>. QED BY <2>2, <2>3, <2>4, <2>5
<1>14. ASSUME org >= RamStart, NEW k \in 1 .. Header, k <= Len(patched)
       PROVE  patched[k] = sna[k]
  <2>1. k \in 1 .. n BY <1>4, <1>9, <1>14
  <2>2. k - Start \notin 1 .. Len(memory) BY <1>4, <1>14 DEF Start
  <2>. QED BY <1>12, <2>1, <2>2
<1>15. Len(patched) = Len(sna) \/ (disk.full /\ Len(patched) < Len(sna))
  <2>. DEFINE l == Len(sna)
  <2>. HIDE DEF l
  <2>1. l \in Nat /\ n \in 0 .. l /\ (n = l \/ disk.full) BY <1>6, <1>7, <1>11 DEF l
  <2>. QED BY <1>9, <2>1 DEF l
<1>. QED BY <1>10, <1>13, <1>14, <1>15 DEF PatchedAsNamed, sna, patched

\* A snapshot saved from a command line in the usage line's order is the first
\* pathname's with the program at its addresses, in the second pathname's file,
\* whatever the program and the snapshot: nothing else on the disk has changed.
THEOREM SaveIsPatch == DriverSpec => []PatchedAsNamed
<1>1. DriverInit => Staged /\ Saving BY StagedInit, SavingInit
<1>2. Staged /\ Saving /\ [DriverNext]_driverVars => (Staged /\ Saving)' BY StagedNext, SavingNext
<1>. QED BY <1>1, <1>2, SavedAsNamed, PTL DEF DriverSpec

-----------------------------------------------------------------------------
(* The walk of dump as a function of the program and of how numbers are    *)
(* printed, b the base and r the mode of relative jumps.                   *)

\* The programs of texts are as the assembler leaves them.
FromAssembler == \A p \in Programs : \E starts : Listing!MadeOf(p, starts)

End(p, k) == Listing!Covered(p.mem_type, k)
StartsOf(p) == CHOOSE starts : Listing!MadeOf(p, starts)

\* A state of the walk: what dump has listed, and where it is.
State == [first |-> first, block |-> block, count |-> count, lines |-> lines]
FirstState(p) == [first |-> 0, block |-> 1, count |-> p.mem_type[1].count, lines |-> <<>>]

BlockAt(s) == IF s.count = 0 THEN s.block + 1 ELSE s.block
LeftAt(p, s) == IF s.count = 0 THEN p.mem_type[BlockAt(s)].count ELSE s.count
TypeAt(p, s) == p.mem_type[BlockAt(s)].type
RowAt(p, s) == CHOOSE row \in Listing!CaseAt(p.memory, s.first) : TRUE
SizeAt(p, s) ==
  CASE TypeAt(p, s) = "code" -> Len(RowAt(p, s).bytes)
    [] TypeAt(p, s) = "ds" -> LeftAt(p, s)
    [] TypeAt(p, s) = "db" -> IF LeftAt(p, s) \in 1 .. 4 THEN LeftAt(p, s) ELSE 4
    [] TypeAt(p, s) = "dw" -> IF LeftAt(p, s) = 2 THEN 2 ELSE 4

\* The numbers and lines of Dump.
ByteIn(b, v) == Listing!Plus(IF b = "hexadecimal" THEN 0 ELSE v)
NumberIn(b, r, p, kind, instruction, k, at) ==
  CASE kind = "byte" -> ByteIn(b, instruction[k + 1])
    [] kind = "disp" -> Listing!SignedNumber(instruction[k + 1])
    [] kind = "word" -> Listing!WordNumber(instruction[k + 1], instruction[k + 2])
    [] kind = "rel" -> IF r = "offset" THEN ByteIn(b, Listing!Signed(instruction[k + 1]))
                       ELSE Listing!Plus(p.org + (at + k) + 1 + Listing!Signed(instruction[k + 1]))
InstructionIn(b, r, p, row, instruction, at) ==
  [text |-> IF row.text[1] = "RST" /\ b = "hexadecimal" THEN <<"RST", Listing!Written(0)>>
            ELSE row.text,
   numbers |-> [h \in DOMAIN row.holes |->
                  NumberIn(b, r, p, row.holes[h].kind, instruction, row.holes[h].at, at)]]
BytesIn(b, p, s) ==
  [text |-> <<"DB">>, numbers |-> [i \in 1 .. SizeAt(p, s) |-> ByteIn(b, p.memory[s.first + i])]]
WordsIn(p, s) ==
  [text |-> <<"DW">>,
   numbers |-> [i \in 1 .. SizeAt(p, s) \div 2 |->
                  Listing!WordNumber(p.memory[s.first + 2 * i - 1], p.memory[s.first + 2 * i])]]
LineAt(b, r, p, s) ==
  CASE TypeAt(p, s) = "code" ->
         InstructionIn(b, r, p, RowAt(p, s), SubSeq(p.memory, s.first + 1, s.first + SizeAt(p, s)), s.first)
    [] TypeAt(p, s) = "ds" -> [text |-> <<"DS">>, numbers |-> <<Listing!Plus(LeftAt(p, s))>>]
    [] TypeAt(p, s) = "db" -> BytesIn(b, p, s)
    [] TypeAt(p, s) = "dw" -> WordsIn(p, s)

\* The walk goes on, and the state after its next line.
Going(p, s) == BlockAt(s) <= Len(p.mem_type)
NextState(b, r, p, s) ==
  [first |-> s.first + SizeAt(p, s), block |-> BlockAt(s), count |-> LeftAt(p, s) - SizeAt(p, s),
   lines |-> Append(s.lines, LineAt(b, r, p, s))]

\* W is a walk of n lines.
IsWalk(b, r, p, n, W) ==
  /\ W[0] = FirstState(p)
  /\ \A k \in 0 .. n - 1 : Going(p, W[k]) /\ W[k + 1] = NextState(b, r, p, W[k])
Walked(b, r, p, s) == \E n \in Nat : \E W : IsWalk(b, r, p, n, W) /\ s = W[n]

LEMMA WalkBegins ==
  ASSUME NEW b, NEW r, NEW p
  PROVE  Walked(b, r, p, FirstState(p))
<1>. DEFINE W == [k \in 0 .. 0 |-> FirstState(p)]
<1>1. W[0] = FirstState(p) OBVIOUS
<1>. HIDE DEF W
<1>2. IsWalk(b, r, p, 0, W) BY <1>1 DEF IsWalk
<1>. QED BY <1>1, <1>2 DEF Walked

LEMMA WalkGoesOn ==
  ASSUME NEW b, NEW r, NEW p, NEW s, Walked(b, r, p, s), Going(p, s)
  PROVE  Walked(b, r, p, NextState(b, r, p, s))
<1>0. PICK n \in Nat : \E W : IsWalk(b, r, p, n, W) /\ s = W[n] BY DEF Walked
<1>1. PICK W : IsWalk(b, r, p, n, W) /\ s = W[n] BY <1>0
<1>. DEFINE t == NextState(b, r, p, s)
            V == [k \in 0 .. n + 1 |-> IF k <= n THEN W[k] ELSE t]
<1>2. /\ \A k \in 0 .. n : V[k] = W[k]
      /\ V[n + 1] = t
  OBVIOUS
<1>. HIDE DEF V, t
<1>3. V[0] = FirstState(p) BY <1>1, <1>2 DEF IsWalk
<1>4. ASSUME NEW k \in 0 .. (n + 1) - 1
      PROVE  Going(p, V[k]) /\ V[k + 1] = NextState(b, r, p, V[k])
  <2>1. CASE k = n
    <3>1. V[k] = s BY <1>1, <1>2, <2>1
    <3>. QED BY <1>2, <2>1, <3>1 DEF t
  <2>2. CASE k # n
    <3>1. k \in 0 .. n - 1 /\ k \in 0 .. n /\ k + 1 \in 0 .. n BY <2>2
    <3>. QED BY <1>1, <1>2, <3>1 DEF IsWalk
  <2>. QED BY <2>1, <2>2
<1>5. IsWalk(b, r, p, n + 1, V) BY <1>3, <1>4 DEF IsWalk
<1>. QED BY <1>2, <1>5 DEF Walked, t

\* Two walks agree as far as both go.
LEMMA WalksAgree ==
  ASSUME NEW b, NEW r, NEW p, NEW n \in Nat, NEW W, IsWalk(b, r, p, n, W),
         NEW m \in Nat, NEW V, IsWalk(b, r, p, m, V), m <= n
  PROVE  V[m] = W[m]
<1>. DEFINE Q == {k \in Nat : k <= m => V[k] = W[k]}
<1>1. 0 \in Q BY DEF IsWalk
<1>2. ASSUME NEW k \in Nat, k \in Q PROVE k + 1 \in Q
  <2>. SUFFICES ASSUME k + 1 <= m PROVE V[k + 1] = W[k + 1] OBVIOUS
  <2>1. k \in 0 .. m - 1 /\ k \in 0 .. n - 1 /\ V[k] = W[k] BY <1>2
  <2>. QED BY <2>1 DEF IsWalk
<1>. HIDE DEF Q
<1>3. \A k \in Nat : k \in Q BY <1>1, <1>2, NaturalInduction
<1>. QED BY <1>3 DEF Q

\* There is one walk to the end.
LEMMA WalkedOnce ==
  ASSUME NEW b, NEW r, NEW p, NEW s, Walked(b, r, p, s), ~Going(p, s),
         NEW t, Walked(b, r, p, t), ~Going(p, t)
  PROVE  s = t
<1>0. PICK n \in Nat : \E W : IsWalk(b, r, p, n, W) /\ s = W[n] BY DEF Walked
<1>1. PICK W : IsWalk(b, r, p, n, W) /\ s = W[n] BY <1>0
<1>a. PICK m \in Nat : \E V : IsWalk(b, r, p, m, V) /\ t = V[m] BY DEF Walked
<1>2. PICK V : IsWalk(b, r, p, m, V) /\ t = V[m] BY <1>a
<1>3. CASE m < n
  <2>1. V[m] = W[m] BY <1>1, <1>2, <1>3, WalksAgree
  <2>2. Going(p, W[m]) BY <1>1, <1>3 DEF IsWalk
  <2>. QED BY <1>2, <2>1, <2>2
<1>4. CASE n < m
  <2>1. V[n] = W[n] BY <1>1, <1>2, <1>4, WalksAgree
  <2>2. Going(p, V[n]) BY <1>2, <1>4 DEF IsWalk
  <2>. QED BY <1>1, <2>1, <2>2
<1>5. CASE m = n
  BY <1>1, <1>2, <1>5, WalksAgree
<1>. QED BY <1>3, <1>4, <1>5

\* The lines of a walk.
LinesOf(b, r, p, n, W) == {LineAt(b, r, p, W[i]) : i \in 0 .. n}

OneByOne(b, r, p, n, W) ==
  \A k \in 0 .. n : W[k].lines \in Seq(LinesOf(b, r, p, n, W)) /\ Len(W[k].lines) = k

\* A walk prints a line with every step.
LEMMA WalkLines ==
  ASSUME NEW b, NEW r, NEW p, NEW n \in Nat, NEW W, IsWalk(b, r, p, n, W)
  PROVE  OneByOne(b, r, p, n, W)
<1>. DEFINE S == LinesOf(b, r, p, n, W)
            Q == {k \in Nat : k <= n => W[k].lines \in Seq(S) /\ Len(W[k].lines) = k}
<1>1. 0 \in Q
  <2>1. W[0].lines = <<>> BY DEF IsWalk, FirstState
  <2>. QED BY <2>1, EmptySeq
<1>2. ASSUME NEW k \in Nat, k \in Q PROVE k + 1 \in Q
  <2>. SUFFICES ASSUME k + 1 <= n PROVE W[k + 1].lines \in Seq(S) /\ Len(W[k + 1].lines) = k + 1
    OBVIOUS
  <2>1. k \in 0 .. n - 1 /\ k \in 0 .. n OBVIOUS
  <2>a. W[k + 1] = NextState(b, r, p, W[k]) BY <2>1 DEF IsWalk
  <2>2. W[k + 1].lines = Append(W[k].lines, LineAt(b, r, p, W[k])) BY <2>a DEF NextState
  <2>3. LineAt(b, r, p, W[k]) \in S BY <2>1 DEF LinesOf
  <2>4. W[k].lines \in Seq(S) /\ Len(W[k].lines) = k BY <1>2, <2>1
  <2>. HIDE DEF S
  <2>. QED BY <2>2, <2>3, <2>4, AppendProperties
<1>. HIDE DEF Q, S
<1>3. \A k \in Nat : k \in Q BY <1>1, <1>2, NaturalInduction
<1>4. \A k \in 0 .. n : W[k].lines \in Seq(S) /\ Len(W[k].lines) = k BY <1>3 DEF Q
<1>. QED BY <1>4 DEF OneByOne, S

\* What has been printed is not printed otherwise later.
LEMMA WalkGrows ==
  ASSUME NEW b, NEW r, NEW p, NEW n \in Nat, NEW W, IsWalk(b, r, p, n, W), NEW m \in 0 .. n
  PROVE  Listing!IsPrefix(W[m].lines, W[n].lines)
<1>. DEFINE S == LinesOf(b, r, p, n, W)
<1>1. \A k \in 0 .. n : W[k].lines \in Seq(S) /\ Len(W[k].lines) = k
  <2>1. OneByOne(b, r, p, n, W) BY WalkLines
  <2>. QED BY <2>1 DEF OneByOne, S
<1>. HIDE DEF S
<1>. DEFINE Q == {k \in Nat : k \in m .. n => \A i \in 1 .. m : W[k].lines[i] = W[m].lines[i]}
<1>2. 0 \in Q
  <2>1. 0 \in m .. n => \A i \in 1 .. m : FALSE OBVIOUS
  <2>. QED BY <2>1
<1>3. ASSUME NEW k \in Nat, k \in Q PROVE k + 1 \in Q
  <2>. SUFFICES ASSUME k + 1 \in m .. n, NEW i \in 1 .. m
                PROVE  W[k + 1].lines[i] = W[m].lines[i]
    OBVIOUS
  <2>1. CASE k + 1 = m BY <2>1
  <2>2. CASE k + 1 # m
    <3>1. k \in m .. n /\ k \in 0 .. n - 1 /\ k \in 0 .. n /\ i \in 1 .. k BY <2>2
    <3>2. W[k].lines[i] = W[m].lines[i] BY <1>3, <3>1
    <3>a. W[k + 1] = NextState(b, r, p, W[k]) BY <3>1 DEF IsWalk
    <3>3. W[k + 1].lines = Append(W[k].lines, LineAt(b, r, p, W[k])) BY <3>a DEF NextState
    <3>4. W[k].lines \in Seq(S \cup {LineAt(b, r, p, W[k])}) /\ Len(W[k].lines) = k
      BY <1>1, <3>1, SeqMonotonic
    <3>5. W[k + 1].lines[i] = W[k].lines[i] BY <3>1, <3>3, <3>4, AppendProperties
    <3>. QED BY <3>2, <3>5
  <2>. QED BY <2>1, <2>2
<1>. HIDE DEF Q
<1>4. \A k \in Nat : k \in Q BY <1>2, <1>3, NaturalInduction
<1>. DEFINE s == W[m].lines
            t == W[n].lines
<1>5. s \in Seq(S) /\ t \in Seq(S) /\ Len(s) = m /\ Len(t) = n BY <1>1
<1>6. \A i \in 1 .. m : t[i] = s[i] BY <1>4 DEF Q
<1>. HIDE DEF s, t
<1>7. \A i \in 1 .. m : s[i] \in S /\ t[i] \in S
  <2>1. \A i \in 1 .. m : i \in 1 .. Len(s) /\ i \in 1 .. Len(t) BY <1>5
  <2>. QED BY <1>5, <2>1, ElementOfSeq
<1>8. /\ SubSeq(s, 1, m) \in Seq(S) /\ SubSeq(t, 1, m) \in Seq(S)
      /\ Len(SubSeq(s, 1, m)) = m /\ Len(SubSeq(t, 1, m)) = m
      /\ \A i \in 1 .. m : SubSeq(s, 1, m)[i] = s[i] /\ SubSeq(t, 1, m)[i] = t[i]
  BY <1>7, SubSeqProperties
<1>9. SubSeq(s, 1, m) = SubSeq(t, 1, m) BY <1>6, <1>8, SeqEqual
<1>. QED BY <1>5, <1>9 DEF Listing!IsPrefix, s, t

\* What any walk has printed is printed by the one to the end.
LEMMA WalkedBefore ==
  ASSUME NEW b, NEW r, NEW p, NEW s, Walked(b, r, p, s), ~Going(p, s), NEW t, Walked(b, r, p, t)
  PROVE  Listing!IsPrefix(t.lines, s.lines)
<1>0. PICK n \in Nat : \E W : IsWalk(b, r, p, n, W) /\ s = W[n] BY DEF Walked
<1>1. PICK W : IsWalk(b, r, p, n, W) /\ s = W[n] BY <1>0
<1>a. PICK m \in Nat : \E V : IsWalk(b, r, p, m, V) /\ t = V[m] BY DEF Walked
<1>2. PICK V : IsWalk(b, r, p, m, V) /\ t = V[m] BY <1>a
<1>3. ~(n < m)
  <2>. SUFFICES ASSUME n < m PROVE FALSE OBVIOUS
  <2>1. V[n] = W[n] BY <1>1, <1>2, WalksAgree
  <2>2. Going(p, V[n]) BY <1>2 DEF IsWalk
  <2>. QED BY <1>1, <2>1, <2>2
<1>4. m \in 0 .. n /\ V[m] = W[m] BY <1>1, <1>2, <1>3, WalksAgree
<1>5. Listing!IsPrefix(W[m].lines, W[n].lines) BY <1>1, <1>4, WalkGrows
<1>. QED BY <1>1, <1>2, <1>4, <1>5

-----------------------------------------------------------------------------
(* Where a listable program's walk is. *)

LEMMA BlockFields ==
  ASSUME NEW p \in Programs, NEW k \in 1 .. Len(p.mem_type)
  PROVE  /\ p.mem_type[k].type \in Types /\ p.mem_type[k].count \in Nat
         /\ DOMAIN p.mem_type = 1 .. Len(p.mem_type)
<1>1. p.mem_type \in Seq(Countable) BY ProgramFields
<1>2. p.mem_type[k] \in Countable BY <1>1, ElementOfSeq
<1>3. p.mem_type[k].count \in Nat BY <1>2, SizeAssumption DEF Countable
<1>. QED BY <1>1, <1>2, <1>3, LenProperties DEF Countable

LEMMA EndIs ==
  ASSUME NEW p \in Programs, NEW k \in 0 .. Len(p.mem_type)
  PROVE  /\ End(p, 0) = 0 /\ End(p, k) \in Nat
         /\ k > 0 => End(p, k) = End(p, k - 1) + p.mem_type[k].count
<1>. DEFINE counts == [i \in DOMAIN p.mem_type |-> p.mem_type[i].count]
            L == Len(p.mem_type)
<1>1. L \in Nat /\ k \in Nat /\ k <= L BY ProgramFields
<1>2. \A i \in 1 .. L : counts[i] = p.mem_type[i].count /\ counts[i] \in Nat BY BlockFields
<1>3. \A i : End(p, i) = SumOf(counts, 1 .. i)
  BY DEF End, Listing!Covered, Listing!MapThenSumSet, Listing!MapThenFoldSet, SumOf,
         MapThenSumSet, MapThenFoldSet
<1>. HIDE DEF counts, L
<1>4. End(p, 0) = 0
  <2>1. 1 .. 0 = {} OBVIOUS
  <2>. QED BY <1>3, <2>1, SumOfEmpty
<1>5. End(p, k) \in Nat
  <2>1. \A i \in 1 .. k : counts[i] \in Nat BY <1>1, <1>2
  <2>. QED BY <1>1, <1>3, <2>1, SumToType
<1>6. ASSUME k > 0 PROVE End(p, k) = End(p, k - 1) + p.mem_type[k].count
  <2>. DEFINE m == k - 1
  <2>1. m \in Nat /\ m + 1 = k /\ k \in 1 .. L BY <1>1, <1>6
  <2>. HIDE DEF m
  <2>2. \A i \in 1 .. m + 1 : counts[i] \in Int BY <1>1, <1>2, <2>1
  <2>3. SumOf(counts, 1 .. m + 1) = SumOf(counts, 1 .. m) + counts[m + 1]
    BY <2>1, <2>2, SumToNext
  <2>. QED BY <1>2, <1>3, <2>1, <2>3 DEF m
<1>. QED BY <1>4, <1>5, <1>6

LEMMA EndGrows ==
  ASSUME NEW p \in Programs, NEW k \in 0 .. Len(p.mem_type), NEW n \in k .. Len(p.mem_type)
  PROVE  End(p, k) <= End(p, n)
<1>. DEFINE L == Len(p.mem_type)
            Q == {i \in Nat : i <= L => i < k \/ End(p, k) <= End(p, i)}
<1>1. L \in Nat BY ProgramFields
<1>2. \A i \in 0 .. L : End(p, i) \in Nat BY EndIs
<1>3. 0 \in Q BY <1>1, <1>2
<1>4. ASSUME NEW i \in Nat, i \in Q PROVE i + 1 \in Q
  <2>. SUFFICES ASSUME i + 1 <= L, ~(i + 1 < k) PROVE End(p, k) <= End(p, i + 1) OBVIOUS
  <2>1. i + 1 \in 0 .. L /\ i \in 0 .. L /\ i + 1 \in 1 .. L /\ (i + 1) - 1 = i BY <1>1
  <2>2. End(p, i + 1) = End(p, i) + p.mem_type[i + 1].count BY <2>1, EndIs
  <2>3. p.mem_type[i + 1].count \in Nat BY <2>1, BlockFields
  <2>4. i < k \/ End(p, k) <= End(p, i) BY <1>4, <2>1
  <2>5. CASE k = i + 1 BY <1>2, <2>1, <2>5
  <2>6. CASE k <= i
    <3>1. End(p, k) <= End(p, i) BY <2>4, <2>6, <2>1
    <3>2. End(p, k) \in Nat /\ End(p, i) \in Nat /\ End(p, i + 1) \in Nat BY <1>2, <2>1
    <3>. QED BY <2>2, <2>3, <3>1, <3>2
  <2>. QED BY <2>1, <2>5, <2>6
<1>. HIDE DEF Q
<1>5. \A i \in Nat : i \in Q BY <1>3, <1>4, NaturalInduction
<1>. QED BY <1>1, <1>5 DEF Q

\* What the assembler has left of instructions.
LEMMA Made ==
  ASSUME FromAssembler, NEW p \in Programs
  PROVE  /\ End(p, Len(p.mem_type)) <= Len(p.memory)
         /\ \A k \in 1 .. Len(p.mem_type) : p.mem_type[k].type = "code" =>
              /\ End(p, k - 1) \in StartsOf(p)
              /\ \A at \in StartsOf(p) : at \in End(p, k - 1) .. End(p, k) - 1 =>
                   /\ Listing!CaseAt(p.memory, at) # {}
                   /\ \A row \in Listing!CaseAt(p.memory, at) :
                        /\ Len(row.bytes) \in 1 .. End(p, k) - at
                        /\ at + Len(row.bytes) \in StartsOf(p)
<1>1. Listing!MadeOf(p, StartsOf(p)) BY DEF FromAssembler, StartsOf
<1>2. DOMAIN p.mem_type = 1 .. Len(p.mem_type)
  <2>1. p.mem_type \in Seq(Countable) BY ProgramFields
  <2>. QED BY <2>1, LenProperties
<1>. QED BY <1>1, <1>2 DEF Listing!MadeOf, Listing!Fits, End

\* What is left of a block is what count says, instructions begin where a line
\* of code does, and words are listed whole.
StepAt(p, s) ==
  /\ s.block \in 1 .. Len(p.mem_type) /\ s.first \in Nat /\ s.count \in Nat
  /\ s.first + s.count = End(p, s.block) /\ s.count <= p.mem_type[s.block].count
  /\ p.mem_type[s.block].type = "code" /\ s.count > 0 => s.first \in StartsOf(p)
  /\ p.mem_type[s.block].type = "dw" => s.count % 2 = 0

\* What a line starts from.
LEMMA LineStarts ==
  ASSUME FromAssembler, NEW p \in Programs, Listable(p.mem_type), NEW s, StepAt(p, s), Going(p, s)
  PROVE  /\ BlockAt(s) \in 1 .. Len(p.mem_type) /\ LeftAt(p, s) \in Nat /\ s.first \in Nat
         /\ s.first + LeftAt(p, s) = End(p, BlockAt(s))
         /\ LeftAt(p, s) <= p.mem_type[BlockAt(s)].count
         /\ TypeAt(p, s) \in Types
         /\ TypeAt(p, s) # "ds" => LeftAt(p, s) > 0
         /\ TypeAt(p, s) = "code" => s.first \in StartsOf(p)
         /\ TypeAt(p, s) = "dw" => LeftAt(p, s) % 2 = 0
         /\ s.first < Len(p.memory)
<1>. DEFINE L == Len(p.mem_type)
            k == BlockAt(s)
<1>1. L \in Nat /\ Len(p.memory) \in Nat
  BY ProgramFields, ProgramAssumption DEF IsProgram
<1>2. k \in 1 .. L /\ L \in 1 .. L /\ L \in 0 .. L BY <1>1 DEF StepAt, Going, BlockAt
<1>3. TypeAt(p, s) \in Types /\ p.mem_type[k].count \in Nat /\ DOMAIN p.mem_type = 1 .. L
  BY <1>2, BlockFields DEF TypeAt
<1>4. End(p, L) <= Len(p.memory) /\ End(p, L) \in Nat BY <1>1, <1>2, Made, EndIs
<1>5. CASE s.count = 0
  <2>1. k = s.block + 1 /\ LeftAt(p, s) = p.mem_type[k].count BY <1>5 DEF BlockAt, LeftAt
  <2>2. k - 1 = s.block /\ k \in 0 .. L /\ k - 1 \in 0 .. L /\ k > 0 BY <1>2, <2>1 DEF StepAt
  <2>3. /\ End(p, k) = End(p, k - 1) + p.mem_type[k].count
        /\ End(p, k - 1) \in Nat /\ s.first = End(p, k - 1)
    BY <1>5, <2>2, EndIs DEF StepAt
  <2>4. /\ TypeAt(p, s) # "ds" => LeftAt(p, s) > 0
        /\ TypeAt(p, s) = "dw" => LeftAt(p, s) % 2 = 0
    BY <1>2, <1>3, <2>1 DEF Listable, TypeAt
  <2>5. TypeAt(p, s) = "code" => s.first \in StartsOf(p) BY <1>2, <2>3, Made DEF TypeAt
  <2>6. s.first < End(p, L)
    <3>1. L - 1 \in k - 1 .. L /\ L - 1 \in 0 .. L /\ L > 0 BY <1>1, <1>2, <2>2
    <3>2. End(p, k - 1) <= End(p, L - 1)
      <4>. HIDE DEF k
      <4>1. L - 1 \in k - 1 .. L BY <3>1
      <4>. QED BY <1>1, <2>2, <4>1, EndGrows
    <3>3. End(p, L) = End(p, L - 1) + p.mem_type[L].count /\ End(p, L - 1) \in Nat BY <1>2, <3>1, EndIs
    <3>4. p.mem_type[L].count > 0 /\ p.mem_type[L].count \in Nat BY <1>2, BlockFields DEF Listable
    <3>. QED BY <1>4, <2>3, <3>2, <3>3, <3>4
  <2>. QED BY <1>1, <1>2, <1>3, <1>4, <2>1, <2>3, <2>4, <2>5, <2>6
<1>6. CASE s.count # 0
  <2>1. k = s.block /\ LeftAt(p, s) = s.count BY <1>6 DEF BlockAt, LeftAt
  <2>2. End(p, k) <= End(p, L) /\ End(p, k) \in Nat
    <3>. HIDE DEF k
    <3>1. k \in 0 .. L /\ L \in k .. L BY <1>1, <1>2
    <3>. QED BY <3>1, EndGrows, EndIs
  <2>3. s.first < Len(p.memory) BY <1>1, <1>4, <1>6, <2>1, <2>2 DEF StepAt
  <2>. QED BY <1>2, <1>3, <1>6, <2>1, <2>3 DEF StepAt, TypeAt
<1>. QED BY <1>5, <1>6

\* A line's bytes are in its block.
LEMMA SizeFits ==
  ASSUME FromAssembler, NEW p \in Programs, Listable(p.mem_type), NEW s, StepAt(p, s), Going(p, s)
  PROVE  /\ SizeAt(p, s) \in 0 .. LeftAt(p, s)
         /\ TypeAt(p, s) = "code" =>
              /\ RowAt(p, s) \in Listing!CaseAt(p.memory, s.first)
              /\ SizeAt(p, s) = Len(RowAt(p, s).bytes)
              /\ s.first + SizeAt(p, s) \in StartsOf(p)
         /\ TypeAt(p, s) = "ds" => SizeAt(p, s) = LeftAt(p, s)
         /\ TypeAt(p, s) = "dw" => SizeAt(p, s) % 2 = 0
<1>. DEFINE L == Len(p.mem_type)
            k == BlockAt(s)
            left == LeftAt(p, s)
<1>1. /\ k \in 1 .. L /\ left \in Nat /\ s.first \in Nat /\ s.first + left = End(p, k)
      /\ left <= p.mem_type[k].count /\ TypeAt(p, s) \in Types
      /\ TypeAt(p, s) # "ds" => left > 0
      /\ TypeAt(p, s) = "code" => s.first \in StartsOf(p)
      /\ TypeAt(p, s) = "dw" => left % 2 = 0
  BY LineStarts
<1>. HIDE DEF k, left
<1>2. CASE TypeAt(p, s) = "code"
  <2>1. k \in 0 .. L /\ k - 1 \in 0 .. L /\ k > 0 /\ L \in Nat BY <1>1, ProgramFields
  <2>2. End(p, k) = End(p, k - 1) + p.mem_type[k].count /\ End(p, k - 1) \in Nat /\ End(p, k) \in Nat
    BY <2>1, EndIs
  <2>3. p.mem_type[k].count \in Nat BY <1>1, BlockFields
  <2>4. s.first \in End(p, k - 1) .. End(p, k) - 1 /\ s.first \in StartsOf(p)
    BY <1>1, <1>2, <2>2, <2>3
  <2>5. p.mem_type[k].type = "code" BY <1>2 DEF TypeAt, k
  <2>6. /\ Listing!CaseAt(p.memory, s.first) # {}
        /\ \A row \in Listing!CaseAt(p.memory, s.first) :
             /\ Len(row.bytes) \in 1 .. End(p, k) - s.first
             /\ s.first + Len(row.bytes) \in StartsOf(p)
    BY <1>1, <2>4, <2>5, Made
  <2>7. RowAt(p, s) \in Listing!CaseAt(p.memory, s.first) BY <2>6 DEF RowAt
  <2>8. SizeAt(p, s) = Len(RowAt(p, s).bytes) BY <1>2 DEF SizeAt
  <2>9. SizeAt(p, s) \in 1 .. End(p, k) - s.first /\ s.first + SizeAt(p, s) \in StartsOf(p)
    BY <2>6, <2>7, <2>8
  <2>10. SizeAt(p, s) \in 0 .. left BY <1>1, <2>2, <2>9
  <2>. QED BY <1>2, <2>7, <2>8, <2>9, <2>10 DEF left
<1>3. CASE TypeAt(p, s) = "ds"
  <2>1. SizeAt(p, s) = left BY <1>3 DEF SizeAt, left
  <2>. QED BY <1>1, <1>3, <2>1 DEF left
<1>4. CASE TypeAt(p, s) = "db"
  <2>1. SizeAt(p, s) = IF left \in 1 .. 4 THEN left ELSE 4 BY <1>4 DEF SizeAt, left
  <2>2. SizeAt(p, s) \in 0 .. left BY <1>1, <1>4, <2>1
  <2>. QED BY <1>4, <2>2 DEF left
<1>5. CASE TypeAt(p, s) = "dw"
  <2>1. SizeAt(p, s) = IF left = 2 THEN 2 ELSE 4 BY <1>5 DEF SizeAt, left
  <2>2. SizeAt(p, s) \in 0 .. left /\ SizeAt(p, s) % 2 = 0 BY <1>1, <1>5, <2>1
  <2>. QED BY <1>5, <2>2 DEF left
<1>. QED BY <1>1, <1>2, <1>3, <1>4, <1>5 DEF Types

LEMMA NextInStep ==
  ASSUME FromAssembler, NEW p \in Programs, Listable(p.mem_type), NEW s, StepAt(p, s), Going(p, s),
         NEW b, NEW r
  PROVE  StepAt(p, NextState(b, r, p, s)) /\ s.first + SizeAt(p, s) <= Len(p.memory)
<1>. DEFINE t == NextState(b, r, p, s)
            left == LeftAt(p, s)
            size == SizeAt(p, s)
            k == BlockAt(s)
            L == Len(p.mem_type)
<1>1. t.first = s.first + size /\ t.block = k /\ t.count = left - size BY DEF NextState
<1>2. /\ k \in 1 .. L /\ left \in Nat /\ s.first \in Nat /\ s.first + left = End(p, k)
      /\ left <= p.mem_type[k].count /\ TypeAt(p, s) = p.mem_type[k].type
      /\ TypeAt(p, s) = "dw" => left % 2 = 0
  BY LineStarts DEF TypeAt
<1>3. /\ size \in 0 .. left
      /\ TypeAt(p, s) = "code" => s.first + size \in StartsOf(p)
      /\ TypeAt(p, s) = "dw" => size % 2 = 0
  BY SizeFits
<1>4. End(p, k) <= Len(p.memory) /\ p.mem_type[k].count \in Nat /\ Len(p.memory) \in Nat
  <2>1. Len(p.memory) \in Nat /\ L \in Nat BY ProgramFields, ProgramAssumption DEF IsProgram
  <2>. HIDE DEF k
  <2>2. k \in 0 .. L /\ L \in k .. L /\ L \in 0 .. L BY <1>2, <2>1
  <2>3. End(p, k) <= End(p, L) /\ End(p, k) \in Nat /\ End(p, L) \in Nat BY <2>2, EndGrows, EndIs
  <2>4. End(p, L) <= Len(p.memory) BY Made
  <2>. QED BY <1>2, <2>1, <2>3, <2>4, BlockFields
<1>. HIDE DEF t, left, size, k, L
<1>5. t.first \in Nat /\ t.count \in Nat /\ t.first + t.count = End(p, t.block)
      /\ t.count <= p.mem_type[t.block].count
  BY <1>1, <1>2, <1>3, <1>4
<1>6. p.mem_type[t.block].type = "dw" => t.count % 2 = 0 BY <1>1, <1>2, <1>3
<1>7. p.mem_type[t.block].type = "code" => t.first \in StartsOf(p) BY <1>1, <1>2, <1>3
<1>8. s.first + size <= Len(p.memory) BY <1>2, <1>3, <1>4
<1>. QED BY <1>1, <1>2, <1>5, <1>6, <1>7, <1>8 DEF StepAt, t, size, L

LEMMA FirstInStep ==
  ASSUME FromAssembler, NEW p \in Programs, Listable(p.mem_type)
  PROVE  StepAt(p, FirstState(p)) /\ p.memory # <<>> /\ p.mem_type # <<>>
<1>. DEFINE L == Len(p.mem_type)
            s == FirstState(p)
<1>0. p.mem_type # <<>> BY DEF Listable
<1>1. p.mem_type \in Seq(Countable) /\ L \in Nat /\ p.memory \in Seq(0 .. 255) /\ Len(p.memory) \in Nat
  BY ProgramFields, ProgramAssumption DEF IsProgram
<1>2. 1 \in 1 .. L /\ 1 \in 0 .. L /\ L \in 1 .. L /\ L \in 0 .. L
  <2>1. L # 0 BY <1>0, <1>1, EmptySeq
  <2>. QED BY <1>1, <2>1
<1>3. End(p, 0) = 0 /\ End(p, 1) = End(p, 1 - 1) + p.mem_type[1].count BY <1>2, EndIs
<1>4. p.mem_type[1].count \in Nat /\ DOMAIN p.mem_type = 1 .. L BY <1>2, BlockFields
<1>5. End(p, 1) = p.mem_type[1].count BY <1>3, <1>4
<1>6. p.mem_type[1].type = "code" => 0 \in StartsOf(p)
  <2>1. p.mem_type[1].type = "code" => End(p, 1 - 1) \in StartsOf(p) BY <1>2, Made
  <2>. QED BY <1>3, <2>1
<1>7. p.mem_type[1].type = "dw" => p.mem_type[1].count % 2 = 0 BY <1>2, <1>4 DEF Listable
<1>8. s.first = 0 /\ s.block = 1 /\ s.count = p.mem_type[1].count BY DEF FirstState
<1>9. p.memory # <<>>
  <2>1. End(p, L) = End(p, L - 1) + p.mem_type[L].count /\ L - 1 \in 0 .. L BY <1>2, EndIs
  <2>2. End(p, L - 1) \in Nat BY <2>1, EndIs
  <2>3. p.mem_type[L].count > 0 /\ p.mem_type[L].count \in Nat BY <1>2, BlockFields DEF Listable
  <2>4. End(p, L) <= Len(p.memory) BY Made
  <2>5. Len(p.memory) > 0 BY <1>1, <2>1, <2>2, <2>3, <2>4
  <2>. QED BY <2>5, EmptySeq
<1>. HIDE DEF s
<1>. QED BY <1>0, <1>2, <1>4, <1>5, <1>6, <1>7, <1>8, <1>9 DEF StepAt, s

-----------------------------------------------------------------------------
(* Listing a program that begins like p, with p's blocks: what follows p's *)
(* memory does not matter, and it may be cut off.                          *)

Agrees(p) ==
  /\ org = p.org /\ mem_type = p.mem_type
  /\ \A k \in 1 .. Len(p.memory) : k <= Len(memory) => memory[k] = p.memory[k]
Cut(p) == ~(Len(p.memory) <= Len(memory))

\* The switches look at no more of the memory than they need for a case.
LEMMA CaseExtends ==
  ASSUME NEW p, NEW m, Len(p) \in Nat, Len(m) \in Nat, Len(p) <= Len(m),
         \A k \in 1 .. Len(p) : m[k] = p[k],
         NEW at \in Nat, Listing!CaseAt(p, at) # {}
  PROVE  Listing!CaseAt(m, at) = Listing!CaseAt(p, at)
<1>. DEFINE Index(i, s) ==
       IF Len(s) - at < 2 THEN {}
       ELSE IF s[at + 2] # 203 THEN Listing!IndexCase(i, s[at + 2])
       ELSE IF Len(s) - at < 4 THEN {} ELSE {Listing!IndexedBitCase(i, s[at + 4])}
     Case(s) ==
       CASE Len(s) - at < 1 -> {}
         [] s[at + 1] = 203 -> IF Len(s) - at < 2 THEN {} ELSE {Listing!BitCase(s[at + 2])}
         [] s[at + 1] = 237 -> IF Len(s) - at < 2 THEN {} ELSE Listing!ExtendedCase(s[at + 2])
         [] s[at + 1] = 221 -> Index("IX", s)
         [] s[at + 1] = 253 -> Index("IY", s)
         [] OTHER -> Listing!MainCase(s[at + 1])
<1>1. \A s : Listing!CaseAt(s, at) = Case(s) BY DEF Listing!CaseAt
<1>2. ~(Len(p) - at < 1)
  BY <1>1
<1>3. ~(Len(m) - at < 1) /\ m[at + 1] = p[at + 1] BY <1>2
<1>4. ASSUME ~(Len(p) - at < 2)
      PROVE  ~(Len(m) - at < 2) /\ m[at + 2] = p[at + 2]
  BY <1>4
<1>5. ASSUME ~(Len(p) - at < 4)
      PROVE  ~(Len(m) - at < 4) /\ m[at + 4] = p[at + 4]
  BY <1>5
<1>6. ASSUME NEW i, Index(i, p) # {} PROVE Index(i, m) = Index(i, p)
  BY <1>4, <1>5, <1>6
<1>. HIDE DEF Index
<1>7. Case(p) # {} BY <1>1
<1>8. CASE p[at + 1] = 203
  <2>1. ~(Len(p) - at < 2) BY <1>2, <1>7, <1>8
  <2>2. Case(p) = {Listing!BitCase(p[at + 2])} BY <1>2, <1>8, <2>1
  <2>3. Case(m) = {Listing!BitCase(m[at + 2])} BY <1>3, <1>4, <1>8, <2>1
  <2>4. m[at + 2] = p[at + 2] BY <1>4, <2>1
  <2>5. Listing!CaseAt(p, at) = Case(p) /\ Listing!CaseAt(m, at) = Case(m) BY <1>1
  <2>. HIDE DEF Case
  <2>. QED BY <2>2, <2>3, <2>4, <2>5
<1>9. CASE p[at + 1] = 237 BY <1>2, <1>3, <1>4, <1>7, <1>9, <1>1
<1>10. CASE p[at + 1] = 221 BY <1>2, <1>3, <1>6, <1>7, <1>10, <1>1
<1>11. CASE p[at + 1] = 253 BY <1>2, <1>3, <1>6, <1>7, <1>11, <1>1
<1>12. CASE p[at + 1] \notin {203, 237, 221, 253} BY <1>2, <1>3, <1>7, <1>12, <1>1
<1>. QED BY <1>8, <1>9, <1>10, <1>11, <1>12

\* There is one case at most.
LEMMA OneRow ==
  ASSUME Listing!OneCase, NEW m \in Seq(0 .. 255), NEW at \in Nat,
         NEW row \in Listing!CaseAt(m, at), NEW other \in Listing!CaseAt(m, at)
  PROVE  row = other
<1>. DEFINE left == Len(m) - at
<1>1. Len(m) \in Nat OBVIOUS
<1>2. \A k \in 1 .. left : m[at + k] \in 0 .. 255
  <2>. SUFFICES ASSUME NEW k \in 1 .. left PROVE m[at + k] \in 0 .. 255 OBVIOUS
  <2>1. at + k \in 1 .. Len(m) BY <1>1
  <2>. QED BY <2>1, ElementOfSeq
<1>3. ~(left < 1) BY DEF Listing!CaseAt
<1>4. m[at + 1] \in 0 .. 255 BY <1>1, <1>2, <1>3
<1>5. ~(left < 2) => m[at + 2] \in 0 .. 255 BY <1>1, <1>2
<1>. HIDE DEF left
<1>6. CASE m[at + 1] = 203
  <2>1. row \in {Listing!BitCase(m[at + 2])} /\ other \in {Listing!BitCase(m[at + 2])}
    BY <1>3, <1>6 DEF Listing!CaseAt, left
  <2>. QED BY <2>1
<1>7. CASE m[at + 1] = 237
  <2>1. ~(left < 2) /\ row \in Listing!ExtendedCase(m[at + 2]) /\ other \in Listing!ExtendedCase(m[at + 2])
    BY <1>3, <1>7 DEF Listing!CaseAt, left
  <2>. QED BY <1>5, <2>1 DEF Listing!OneCase
<1>8. ASSUME NEW i \in Listing!IndexRegisters, ~(left < 2),
             row \in IF m[at + 2] # 203 THEN Listing!IndexCase(i, m[at + 2])
                     ELSE IF left < 4 THEN {} ELSE {Listing!IndexedBitCase(i, m[at + 4])},
             other \in IF m[at + 2] # 203 THEN Listing!IndexCase(i, m[at + 2])
                     ELSE IF left < 4 THEN {} ELSE {Listing!IndexedBitCase(i, m[at + 4])}
      PROVE  row = other
  <2>1. CASE m[at + 2] = 203
    <3>1. row \in {Listing!IndexedBitCase(i, m[at + 4])} /\ other \in {Listing!IndexedBitCase(i, m[at + 4])}
      BY <1>8, <2>1
    <3>. QED BY <3>1
  <2>2. CASE m[at + 2] # 203
    <3>1. row \in Listing!IndexCase(i, m[at + 2]) /\ other \in Listing!IndexCase(i, m[at + 2])
      BY <1>8, <2>2
    <3>. QED BY <1>5, <1>8, <3>1 DEF Listing!OneCase
  <2>. QED BY <2>1, <2>2
<1>9. CASE m[at + 1] = 221
  <2>1. "IX" \in Listing!IndexRegisters BY DEF Listing!IndexRegisters
  <2>2. /\ ~(left < 2)
        /\ \A x \in {row, other} :
             x \in IF m[at + 2] # 203 THEN Listing!IndexCase("IX", m[at + 2])
                   ELSE IF left < 4 THEN {} ELSE {Listing!IndexedBitCase("IX", m[at + 4])}
    BY <1>3, <1>9 DEF Listing!CaseAt, left
  <2>. QED BY <1>8, <2>1, <2>2
<1>10. CASE m[at + 1] = 253
  <2>1. "IY" \in Listing!IndexRegisters BY DEF Listing!IndexRegisters
  <2>2. /\ ~(left < 2)
        /\ \A x \in {row, other} :
             x \in IF m[at + 2] # 203 THEN Listing!IndexCase("IY", m[at + 2])
                   ELSE IF left < 4 THEN {} ELSE {Listing!IndexedBitCase("IY", m[at + 4])}
    BY <1>3, <1>10 DEF Listing!CaseAt, left
  <2>. QED BY <1>8, <2>1, <2>2
<1>11. CASE m[at + 1] \notin {203, 237, 221, 253}
  <2>1. row \in Listing!MainCase(m[at + 1]) /\ other \in Listing!MainCase(m[at + 1])
    BY <1>3, <1>11 DEF Listing!CaseAt, left
  <2>. QED BY <1>4, <2>1 DEF Listing!OneCase
<1>. QED BY <1>6, <1>7, <1>9, <1>10, <1>11

\* What dump prints, as printed of p.
LEMMA PrintsAs ==
  ASSUME NEW p, org = p.org
  PROVE  /\ \A v : Listing!ByteNumber(v) = ByteIn(base, v)
         /\ \A row, instruction, at :
              Listing!Mnemonic(row, instruction, at) = InstructionIn(base, relative, p, row, instruction, at)
<1>1. \A v : Listing!ByteNumber(v) = ByteIn(base, v) BY DEF Listing!ByteNumber, ByteIn
<1>2. ASSUME NEW kind, NEW instruction, NEW k, NEW at
      PROVE  Listing!Number(kind, instruction, k, at)
               = NumberIn(base, relative, p, kind, instruction, k, at)
  <2>1. Program.org = p.org BY DEF Program
  <2>. QED BY <1>1, <2>1 DEF Listing!Number, NumberIn, Listing!Target
<1>. QED BY <1>1, <1>2 DEF Listing!Mnemonic, InstructionIn

LEMMA SameBytes ==
  ASSUME NEW p \in Programs, Agrees(p), memory \in Seq(0 .. 255),
         NEW i \in Nat, NEW n \in Nat, i + n <= Len(p.memory), i + n <= Len(memory)
  PROVE  /\ SubSeq(memory, i + 1, i + n) = SubSeq(p.memory, i + 1, i + n)
         /\ \A k \in 1 .. n : memory[i + k] = p.memory[i + k]
<1>1. p.memory \in Seq(0 .. 255) /\ Len(p.memory) \in Nat BY ProgramAssumption DEF IsProgram
<1>2. ASSUME NEW k \in i + 1 .. i + n PROVE memory[k] = p.memory[k] /\ p.memory[k] \in 0 .. 255
  <2>1. k \in 1 .. Len(p.memory) /\ k <= Len(memory) BY <1>1
  <2>. QED BY <1>1, <2>1, ElementOfSeq DEF Agrees
<1>. DEFINE s == SubSeq(memory, i + 1, i + n)
            t == SubSeq(p.memory, i + 1, i + n)
<1>3. /\ s \in Seq(0 .. 255) /\ t \in Seq(0 .. 255)
      /\ Len(s) = n /\ Len(t) = n
      /\ \A k \in 1 .. n : s[k] = memory[i + k] /\ t[k] = p.memory[i + k]
  <2>. DEFINE a == i + 1
              z == i + n
  <2>1. a \in Int /\ z \in Int /\ z - a + 1 = n /\ (IF a <= z THEN z - a + 1 ELSE 0) = n
        /\ \A k \in 1 .. n : a + k - 1 = i + k
    OBVIOUS
  <2>2. \A k \in a .. z : memory[k] \in 0 .. 255 /\ p.memory[k] \in 0 .. 255 BY <1>2
  <2>. HIDE DEF a, z
  <2>3. /\ SubSeq(memory, a, z) \in Seq(0 .. 255)
        /\ Len(SubSeq(memory, a, z)) = IF a <= z THEN z - a + 1 ELSE 0
        /\ \A k \in 1 .. z - a + 1 : SubSeq(memory, a, z)[k] = memory[a + k - 1]
    BY <2>1, <2>2, SubSeqProperties
  <2>4. /\ SubSeq(p.memory, a, z) \in Seq(0 .. 255)
        /\ Len(SubSeq(p.memory, a, z)) = IF a <= z THEN z - a + 1 ELSE 0
        /\ \A k \in 1 .. z - a + 1 : SubSeq(p.memory, a, z)[k] = p.memory[a + k - 1]
    <3>. DEFINE m == p.memory
    <3>1. \A k \in a .. z : m[k] \in 0 .. 255 BY <2>2
    <3>. HIDE DEF m
    <3>2. /\ SubSeq(m, a, z) \in Seq(0 .. 255)
          /\ Len(SubSeq(m, a, z)) = IF a <= z THEN z - a + 1 ELSE 0
          /\ \A k \in 1 .. z - a + 1 : SubSeq(m, a, z)[k] = m[a + k - 1]
      BY <2>1, <3>1, SubSeqProperties
    <3>. QED BY <3>2 DEF m
  <2>5. s = SubSeq(memory, a, z) /\ t = SubSeq(p.memory, a, z) BY DEF a, z
  <2>. HIDE DEF s, t
  <2>6. Len(s) = n /\ Len(t) = n BY <2>1, <2>3, <2>4, <2>5
  <2>7. \A k \in 1 .. n : s[k] = memory[i + k] /\ t[k] = p.memory[i + k]
    BY <2>1, <2>3, <2>4, <2>5
  <2>. QED BY <2>3, <2>4, <2>5, <2>6, <2>7
<1>4. \A k \in 1 .. n : memory[i + k] = p.memory[i + k] BY <1>2
<1>. HIDE DEF s, t
<1>5. s = t
  <2>1. \A k \in 1 .. Len(s) : s[k] = t[k] BY <1>3, <1>4
  <2>. QED BY <1>3, <2>1, SeqEqual
<1>. QED BY <1>4, <1>5 DEF s, t

\* dump lists a program that begins like p, and has kept in step with p's blocks.
Follows(p) ==
  /\ Agrees(p) /\ Listable(p.mem_type) /\ memory \in Seq(0 .. 255)
  /\ walk = "listing" /\ StepAt(p, State)

\* It lists the next line of p, or the memory ends in it.
Proceeds(p) ==
  Going(p, State) /\ State' = NextState(base, relative, p, State) /\ walk' = "listing"
Stops(p) == Cut(p) /\ walk' = "undefined" /\ UNCHANGED lines

LEMMA SameStep ==
  ASSUME NEW p \in Programs, Follows(p)
  PROVE  /\ Listing!Memory = memory /\ Listing!Blocks = p.mem_type
         /\ Listing!NextBlock = BlockAt(State)
         /\ Listing!Left = LeftAt(p, State)
         /\ first \in Nat /\ Len(p.memory) \in Nat /\ Len(memory) \in Nat
<1>1. Listing!Memory = memory /\ Listing!Blocks = p.mem_type
  BY DEF Listing!Memory, Listing!Blocks, Program, Follows, Agrees
<1>2. State.block = block /\ State.count = count /\ State.first = first BY DEF State
<1>3. Listing!NextBlock = BlockAt(State) BY <1>2 DEF Listing!NextBlock, BlockAt
<1>4. Listing!Left = LeftAt(p, State) BY <1>1, <1>2, <1>3 DEF Listing!Left, LeftAt
<1>5. first \in Nat BY <1>2 DEF Follows, StepAt
<1>6. Len(p.memory) \in Nat /\ Len(memory) \in Nat BY ProgramAssumption DEF IsProgram, Follows
<1>. QED BY <1>1, <1>3, <1>4, <1>5, <1>6

LEMMA LineOf ==
  ASSUME FromAssembler, NEW p \in Programs, Follows(p), NEW type, Listing!InBlock(type)
  PROVE  /\ Going(p, State) /\ TypeAt(p, State) = type /\ block' = BlockAt(State)
         /\ first + SizeAt(p, State) <= Len(p.memory) /\ SizeAt(p, State) \in Nat
         /\ Cut(p) \/ first + SizeAt(p, State) <= Len(memory)
<1>1. Going(p, State) /\ TypeAt(p, State) = type /\ block' = BlockAt(State)
  BY SameStep DEF Listing!InBlock, Going, TypeAt
<1>2. State.first = first BY DEF State
<1>3. first + SizeAt(p, State) <= Len(p.memory) BY <1>1, <1>2, NextInStep DEF Follows
<1>4. SizeAt(p, State) \in Nat
  <2>1. SizeAt(p, State) \in 0 .. LeftAt(p, State) BY <1>1, SizeFits DEF Follows
  <2>2. LeftAt(p, State) \in Nat BY <1>1, LineStarts DEF Follows
  <2>. QED BY <2>1, <2>2
<1>5. Cut(p) \/ first + SizeAt(p, State) <= Len(memory) BY <1>3, <1>4, SameStep DEF Cut
<1>. QED BY <1>1, <1>3, <1>4, <1>5

\* What PrintLine makes of the state.
LEMMA Printed ==
  ASSUME NEW p \in Programs, Follows(p), block' = BlockAt(State),
         NEW size, NEW line, NEW left, Listing!PrintLine(size, line, left),
         size = SizeAt(p, State), line = LineAt(base, relative, p, State),
         left = LeftAt(p, State) - SizeAt(p, State)
  PROVE  State' = NextState(base, relative, p, State) /\ walk' = "listing"
<1>1. State.first = first /\ State.lines = lines BY DEF State
<1>2. /\ first' = first + size /\ count' = left /\ lines' = Append(lines, line)
      /\ walk' = walk
  BY DEF Listing!PrintLine
<1>3. State' = [first |-> first', block |-> block', count |-> count', lines |-> lines'] BY DEF State
<1>4. NextState(base, relative, p, State)
        = [first |-> first + size, block |-> BlockAt(State), count |-> left, lines |-> Append(lines, line)]
  BY <1>1 DEF NextState
<1>. QED BY <1>2, <1>3, <1>4 DEF Follows

LEMMA CodeListed ==
  ASSUME FromAssembler, Listing!OneCase, NEW p \in Programs, Follows(p), Listing!ListCode
  PROVE  Proceeds(p) \/ Stops(p)
<1>. DEFINE size == SizeAt(p, State)
            row == RowAt(p, State)
            Whole == Listing!CaseAt(memory, first) # {} /\ first + size <= Len(memory)
<1>1. /\ Going(p, State) /\ TypeAt(p, State) = "code" /\ block' = BlockAt(State)
      /\ first + size <= Len(p.memory) /\ size \in Nat /\ (Cut(p) \/ first + size <= Len(memory))
  BY LineOf DEF Listing!ListCode
<1>2. State.first = first BY DEF State
<1>3. row \in Listing!CaseAt(p.memory, first) /\ size = Len(row.bytes)
  BY <1>1, <1>2, SizeFits DEF Follows
<1>4. \/ Listing!CaseAt(memory, first) = Listing!CaseAt(p.memory, first)
      \/ Cut(p) /\ Listing!CaseAt(memory, first) = {}
  <2>1. \A k \in 1 .. Len(p.memory) : k <= Len(memory) => memory[k] = p.memory[k]
    BY DEF Follows, Agrees
  <2>2. CASE ~Cut(p)
    <3>1. Len(p.memory) <= Len(memory) BY <2>2 DEF Cut
    <3>2. \A k \in 1 .. Len(p.memory) : memory[k] = p.memory[k] BY <2>1, <3>1, SameStep
    <3>3. Listing!CaseAt(p.memory, first) # {} BY <1>3
    <3>. QED BY <3>1, <3>2, <3>3, SameStep, CaseExtends
  <2>3. CASE Cut(p) /\ Listing!CaseAt(memory, first) # {}
    <3>1. Len(memory) <= Len(p.memory) BY <2>3, SameStep DEF Cut
    <3>2. \A k \in 1 .. Len(memory) : p.memory[k] = memory[k] BY <2>1, <3>1, SameStep
    <3>. QED BY <2>3, <3>1, <3>2, SameStep, CaseExtends
  <2>. QED BY <2>2, <2>3
<1>5. \A r \in Listing!CaseAt(memory, first) : r = row
  <2>1. memory \in Seq(0 .. 255) /\ first \in Nat BY SameStep DEF Follows
  <2>2. \A r \in Listing!CaseAt(memory, first) : row \in Listing!CaseAt(memory, first) BY <1>3, <1>4
  <2>. QED BY <2>1, <2>2, OneRow
<1>6. ASSUME Whole PROVE Proceeds(p)
  <2>. DEFINE line == Listing!Mnemonic(row, SubSeq(memory, first + 1, first + size), first)
  <2>1. SubSeq(memory, first + 1, first + size) = SubSeq(p.memory, first + 1, first + size)
    <3>1. /\ Agrees(p) /\ memory \in Seq(0 .. 255) /\ first \in Nat /\ size \in Nat
          /\ first + size <= Len(p.memory) /\ first + size <= Len(memory)
      BY <1>1, <1>6, SameStep DEF Follows
    <3>. HIDE DEF size, row, line
    <3>. QED BY <3>1, SameBytes
  <2>2. line = LineAt(base, relative, p, State)
    <3>1. line = InstructionIn(base, relative, p, row, SubSeq(memory, first + 1, first + size), first)
      BY PrintsAs DEF Follows, Agrees
    <3>2. LineAt(base, relative, p, State)
            = InstructionIn(base, relative, p, row, SubSeq(p.memory, first + 1, first + size), first)
      BY <1>1, <1>2 DEF LineAt
    <3>. QED BY <2>1, <3>1, <3>2
  <2>3. row \in Listing!CaseAt(memory, first) BY <1>3, <1>4, <1>6
  <2>4. ~\A r \in Listing!CaseAt(memory, first) : first + Len(r.bytes) > Len(memory)
    <3>1. ~(first + Len(row.bytes) > Len(memory)) BY <1>1, <1>3, <1>6, SameStep
    <3>. QED BY <2>3, <3>1
  <2>5. PICK r \in Listing!CaseAt(memory, first) :
          Listing!PrintLine(Len(r.bytes),
            Listing!Mnemonic(r, SubSeq(memory, first + 1, first + Len(r.bytes)), first),
            Listing!Left - Len(r.bytes))
    BY <2>4, SameStep DEF Listing!ListCode
  <2>6. r = row BY <1>5
  <2>7. Listing!PrintLine(size, line, LeftAt(p, State) - size)
    <3>. HIDE DEF row
    <3>. QED BY <1>3, <2>5, <2>6, SameStep
  <2>. HIDE DEF line, size, row
  <2>. QED BY <1>1, <2>2, <2>7, Printed DEF size, Proceeds
<1>7. ASSUME ~Whole PROVE Stops(p)
  <2>1. Cut(p) BY <1>1, <1>3, <1>4, <1>7
  <2>2. \A r \in Listing!CaseAt(memory, first) : ~(first + Len(r.bytes) <= Len(memory))
    BY <1>3, <1>5, <1>7
  <2>3. Listing!ReadPast BY <2>2, SameStep DEF Listing!ListCode
  <2>. QED BY <2>1, <2>3 DEF Listing!ReadPast, Stops
<1>. QED BY <1>6, <1>7

LEMMA ZerosListed ==
  ASSUME FromAssembler, NEW p \in Programs, Follows(p), Listing!ListDs
  PROVE  Proceeds(p) \/ Stops(p)
<1>. DEFINE size == SizeAt(p, State)
            left == LeftAt(p, State)
            line == [text |-> <<"DS">>, numbers |-> <<Listing!Plus(left)>>]
<1>1. /\ Going(p, State) /\ TypeAt(p, State) = "ds" /\ block' = BlockAt(State)
      /\ size \in Nat /\ (Cut(p) \/ first + size <= Len(memory))
  BY LineOf DEF Listing!ListDs
<1>2. size = left BY <1>1 DEF SizeAt
<1>3. line = LineAt(base, relative, p, State) BY <1>1 DEF LineAt
<1>4. IF first + left > Len(memory) THEN Listing!ReadPast ELSE Listing!PrintLine(left, line, 0)
  BY SameStep DEF Listing!ListDs
<1>. HIDE DEF line, size, left
<1>5. 0 = left - size BY <1>1, <1>2
<1>6. CASE first + size > Len(memory)
  <2>1. Cut(p) BY <1>1, <1>6, SameStep
  <2>. QED BY <1>2, <1>4, <1>6, <2>1 DEF Listing!ReadPast, Stops
<1>7. CASE ~(first + size > Len(memory))
  <2>1. Listing!PrintLine(size, line, left - size) BY <1>2, <1>4, <1>5, <1>7
  <2>. QED BY <1>1, <1>3, <2>1, Printed DEF size, left, Proceeds
<1>. QED BY <1>6, <1>7

LEMMA BytesListed ==
  ASSUME FromAssembler, NEW p \in Programs, Follows(p), Listing!ListDb
  PROVE  Proceeds(p) \/ Stops(p)
<1>. DEFINE size == SizeAt(p, State)
            left == LeftAt(p, State)
            line == [text |-> <<"DB">>,
                     numbers |-> [i \in 1 .. size |-> Listing!ByteNumber(memory[first + i])]]
<1>1. /\ Going(p, State) /\ TypeAt(p, State) = "db" /\ block' = BlockAt(State)
      /\ first + size <= Len(p.memory) /\ size \in Nat /\ (Cut(p) \/ first + size <= Len(memory))
  BY LineOf DEF Listing!ListDb
<1>2. size = IF left \in 1 .. 4 THEN left ELSE 4 BY <1>1 DEF SizeAt
<1>3. IF first + size > Len(memory) THEN Listing!ReadPast
      ELSE Listing!PrintLine(size, line, left - size)
  <2>1. Listing!Left = left /\ Listing!Memory = memory BY SameStep
  <2>. HIDE DEF left
  <2>. QED BY <1>2, <2>1 DEF Listing!ListDb
<1>4. ASSUME ~(first + size > Len(memory)) PROVE line = LineAt(base, relative, p, State)
  <2>1. \A k \in 1 .. size : memory[first + k] = p.memory[first + k]
    <3>1. /\ Agrees(p) /\ memory \in Seq(0 .. 255) /\ first \in Nat /\ size \in Nat
          /\ first + size <= Len(p.memory) /\ first + size <= Len(memory)
      BY <1>1, <1>4, SameStep DEF Follows
    <3>. HIDE DEF size, left, line
    <3>. QED BY <3>1, SameBytes
  <2>2. \A v : Listing!ByteNumber(v) = ByteIn(base, v) BY PrintsAs DEF Follows, Agrees
  <2>3. State.first = first BY DEF State
  <2>4. BytesIn(base, p, State) = line BY <2>1, <2>2, <2>3 DEF BytesIn
  <2>. QED BY <1>1, <2>4 DEF LineAt
<1>. HIDE DEF line, size, left
<1>5. CASE first + size > Len(memory)
  <2>1. Cut(p) BY <1>1, <1>5, SameStep
  <2>. QED BY <1>3, <1>5, <2>1 DEF Listing!ReadPast, Stops
<1>6. CASE ~(first + size > Len(memory))
  BY <1>1, <1>3, <1>4, <1>6, Printed DEF size, left, Proceeds
<1>. QED BY <1>5, <1>6

LEMMA WordsListed ==
  ASSUME FromAssembler, NEW p \in Programs, Follows(p), Listing!ListDw
  PROVE  Proceeds(p) \/ Stops(p)
<1>. DEFINE size == SizeAt(p, State)
            left == LeftAt(p, State)
            line == [text |-> <<"DW">>,
                     numbers |-> [i \in 1 .. size \div 2 |->
                       Listing!WordNumber(memory[first + 2 * i - 1], memory[first + 2 * i])]]
<1>1. /\ Going(p, State) /\ TypeAt(p, State) = "dw" /\ block' = BlockAt(State)
      /\ first + size <= Len(p.memory) /\ size \in Nat /\ (Cut(p) \/ first + size <= Len(memory))
  BY LineOf DEF Listing!ListDw
<1>2. size = IF left = 2 THEN 2 ELSE 4 BY <1>1 DEF SizeAt
<1>3. IF first + size > Len(memory) THEN Listing!ReadPast
      ELSE Listing!PrintLine(size, line, left - size)
  <2>1. Listing!Left = left /\ Listing!Memory = memory BY SameStep
  <2>. HIDE DEF left
  <2>. QED BY <1>2, <2>1 DEF Listing!ListDw
<1>4. ASSUME ~(first + size > Len(memory)) PROVE line = LineAt(base, relative, p, State)
  <2>1. \A k \in 1 .. size : memory[first + k] = p.memory[first + k]
    <3>1. /\ Agrees(p) /\ memory \in Seq(0 .. 255) /\ first \in Nat /\ size \in Nat
          /\ first + size <= Len(p.memory) /\ first + size <= Len(memory)
      BY <1>1, <1>4, SameStep DEF Follows
    <3>. HIDE DEF size, left, line
    <3>. QED BY <3>1, SameBytes
  <2>2. State.first = first BY DEF State
  <2>3. ASSUME NEW i \in 1 .. size \div 2
        PROVE  /\ memory[first + 2 * i - 1] = p.memory[first + 2 * i - 1]
               /\ memory[first + 2 * i] = p.memory[first + 2 * i]
    <3>1. 2 * i - 1 \in 1 .. size /\ 2 * i \in 1 .. size BY <1>2
    <3>2. first + (2 * i - 1) = first + 2 * i - 1 BY SameStep
    <3>. HIDE DEF size
    <3>. QED BY <2>1, <3>1, <3>2
  <2>4. WordsIn(p, State) = line BY <2>2, <2>3 DEF WordsIn
  <2>. QED BY <1>1, <2>4 DEF LineAt
<1>. HIDE DEF line, size, left
<1>5. CASE first + size > Len(memory)
  <2>1. Cut(p) BY <1>1, <1>5, SameStep
  <2>. QED BY <1>3, <1>5, <2>1 DEF Listing!ReadPast, Stops
<1>6. CASE ~(first + size > Len(memory))
  BY <1>1, <1>3, <1>4, <1>6, Printed DEF size, left, Proceeds
<1>. QED BY <1>5, <1>6

\* The listing ends with the blocks, and before only where the memory is cut off.
LEMMA AllListed ==
  ASSUME FromAssembler, NEW p \in Programs, Follows(p), Listing!Finish
  PROVE  State' = State /\ walk' = "done" /\ (Cut(p) \/ ~Going(p, State))
<1>1. UNCHANGED <<first, block, count, lines>> /\ walk' = "done" BY DEF Listing!Finish
<1>2. Cut(p) \/ ~Going(p, State)
  <2>. SUFFICES ASSUME Going(p, State), ~Cut(p) PROVE FALSE OBVIOUS
  <2>1. State.first = first BY DEF State
  <2>2. first < Len(p.memory) BY <2>1, LineStarts DEF Follows
  <2>3. Len(p.memory) <= Len(memory) BY DEF Cut
  <2>4. ~(first >= Len(memory)) BY <2>2, <2>3, SameStep
  <2>5. ~(Listing!NextBlock > Len(p.mem_type)) 
    <3>1. BlockAt(State) \in 1 .. Len(p.mem_type) BY LineStarts DEF Follows
    <3>. QED BY <3>1, SameStep, ProgramFields
  <2>. QED BY <2>4, <2>5, SameStep DEF Listing!Finish
<1>. QED BY <1>1, <1>2 DEF State

LEMMA ListingBegins ==
  ASSUME FromAssembler, NEW p \in Programs, Agrees(p), Listable(p.mem_type),
         memory \in Seq(0 .. 255), Unlisted, Listing!Start
  PROVE  (State' = FirstState(p) /\ walk' = "listing") \/ Stops(p)
<1>1. Listing!Memory = memory /\ Listing!Blocks = p.mem_type
  BY DEF Listing!Memory, Listing!Blocks, Program, Agrees
<1>2. p.memory # <<>> /\ p.mem_type # <<>> BY FirstInStep
<1>3. CASE memory = <<>>
  <2>1. p.memory \in Seq(0 .. 255) BY ProgramAssumption DEF IsProgram
  <2>2. Len(p.memory) \in Nat \ {0} BY <1>2, <2>1, EmptySeq
  <2>3. Len(memory) = 0 BY <1>3, EmptySeq
  <2>4. Cut(p) BY <2>2, <2>3 DEF Cut
  <2>5. walk' = "undefined" /\ UNCHANGED lines BY <1>1, <1>3 DEF Listing!Start
  <2>. QED BY <2>4, <2>5 DEF Stops
<1>4. CASE memory # <<>>
  <2>1. walk' = "listing" /\ block' = 1 /\ count' = p.mem_type[1].count /\ UNCHANGED <<first, lines>>
    BY <1>1, <1>2, <1>4 DEF Listing!Start
  <2>. QED BY <2>1 DEF State, FirstState, Unlisted
<1>. QED BY <1>3, <1>4

-----------------------------------------------------------------------------
(* The listing of a run. *)

\* What is listed of p is a walk of its blocks: to the end if its memory is whole.
Lists(p) ==
  /\ walk \in {"start", "listing", "done", "undefined"}
  /\ walk \in {"listing", "done"} => Walked(base, relative, p, State)
  /\ walk = "listing" => StepAt(p, State)
  /\ walk = "done" => Cut(p) \/ ~Going(p, State)
  /\ walk = "undefined" => Cut(p) /\ \E s : Walked(base, relative, p, s) /\ s.lines = lines

Walking ==
  /\ phase # "list" \/ walk = "start" => Unlisted
  /\ \A p \in Programs : phase = "list" /\ Agrees(p) /\ Listable(p.mem_type) => Lists(p)

LEMMA DumpWalks ==
  ASSUME FromAssembler, Listing!OneCase, memory \in Seq(0 .. 255), Walking, RunDump
  PROVE  Walking'
<1>1. UNCHANGED driverVars /\ phase = "list" BY DEF RunDump
<1>2. UNCHANGED <<phase, org, memory, mem_type, base, relative>>
  BY <1>1 DEF driverVars, readVars, program, arguments
<1>3. walk = "start" \/ walk = "listing"
  BY DEF RunDump, Listing!Start, Listing!ListCode, Listing!ListDs, Listing!ListDb, Listing!ListDw,
         Listing!Finish, Listing!InBlock
<1>4. walk' # "start"
  BY DEF RunDump, Listing!Start, Listing!ListCode, Listing!ListDs, Listing!ListDb, Listing!ListDw,
         Listing!Finish, Listing!InBlock, Listing!PrintLine, Listing!ReadPast
<1>5. ASSUME NEW p \in Programs, Agrees(p), Listable(p.mem_type)
      PROVE  Lists(p)'
  <2>0. Cut(p)' <=> Cut(p) BY <1>2 DEF Cut
  <2>1. ASSUME Stops(p), NEW s, Walked(base, relative, p, s), s.lines = lines
        PROVE  Lists(p)'
    BY <1>2, <2>0, <2>1 DEF Stops, Lists
  <2>2. CASE walk = "start"
    <3>1. Listing!Start
      BY <2>2 DEF RunDump, Listing!ListCode, Listing!ListDs, Listing!ListDb, Listing!ListDw,
                  Listing!Finish, Listing!InBlock
    <3>2. (State' = FirstState(p) /\ walk' = "listing") \/ Stops(p)
      BY <1>5, <2>2, <3>1, ListingBegins DEF Walking
    <3>3. Walked(base, relative, p, FirstState(p)) BY WalkBegins
    <3>4. StepAt(p, FirstState(p)) BY <1>5, FirstInStep
    <3>5. CASE State' = FirstState(p) /\ walk' = "listing" BY <1>2, <3>3, <3>4, <3>5 DEF Lists
    <3>6. CASE Stops(p)
      <4>1. FirstState(p).lines = lines BY <2>2 DEF Walking, Unlisted, FirstState
      <4>. QED BY <2>1, <3>3, <3>6, <4>1
    <3>. QED BY <3>2, <3>5, <3>6
  <2>3. CASE walk = "listing"
    <3>1. Follows(p) /\ Walked(base, relative, p, State)
      BY <1>1, <1>5, <2>3 DEF Walking, Lists, Follows
    <3>2. CASE Proceeds(p)
      <4>1. Walked(base, relative, p, NextState(base, relative, p, State))
        BY <3>1, <3>2, WalkGoesOn DEF Proceeds
      <4>2. StepAt(p, NextState(base, relative, p, State))
        BY <3>1, <3>2, NextInStep DEF Follows, Proceeds
      <4>. QED BY <1>2, <3>2, <4>1, <4>2 DEF Lists, Proceeds
    <3>3. CASE Stops(p)
      <4>1. State.lines = lines BY DEF State
      <4>. QED BY <2>1, <3>1, <3>3, <4>1
    <3>4. CASE State' = State /\ walk' = "done" /\ (Cut(p) \/ ~Going(p, State))
      BY <1>2, <2>0, <3>1, <3>4 DEF Lists
    <3>5. \/ Proceeds(p) \/ Stops(p)
          \/ State' = State /\ walk' = "done" /\ (Cut(p) \/ ~Going(p, State))
      BY <2>3, <3>1, CodeListed, ZerosListed, BytesListed, WordsListed, AllListed
         DEF RunDump, Listing!Start
    <3>. QED BY <3>2, <3>3, <3>4, <3>5
  <2>. QED BY <1>3, <2>2, <2>3
<1>. QED BY <1>1, <1>2, <1>4, <1>5 DEF Walking, Agrees

-----------------------------------------------------------------------------
(* What a run has loaded, and how it ends. *)

Loaded == {"loaded", "print", "save", "write", "list", "done"}

\* What is to be done with the program, once it is known.
Outputs ==
  /\ phase \in {"save", "write"} => Output = "save"
  /\ phase = "print" => Output = "print"
  /\ phase = "list" => Output = "list"
  /\ phase = "done" => Output # "list"

FilesRead ==
  /\ snapshot.tokens = disk.tokens
  /\ argv # <<>> => snapshot.bytes = Bytes(disk.files, argv[1])
  /\ phase \in {"text"} \cup Reading \cup Loaded => argv # <<>>

FromText ==
  /\ phase = "text" => Kind[argv[1]] # "sna"
  /\ phase \in Loaded /\ Kind[argv[1]] # "sna" =>
       \E p \in Programs : org = p.org /\ memory = p.memory /\ mem_type = p.mem_type

FromSnapshot ==
  /\ phase = "arguments" => mem_type = <<>>
  /\ phase \in {"origin", "blocks"} \/ (phase \in Loaded /\ Kind[argv[1]] = "sna") =>
       memory = SubSeq(snapshot.bytes, Header + 1, Len(snapshot.bytes))
  /\ \A p \in Programs : Tokens = BlockTokens(p.org, p.mem_type) =>
       /\ phase \in Reading => InStep(p)
       /\ phase \in Loaded /\ Kind[argv[1]] = "sna" => org = p.org /\ mem_type = p.mem_type

Stages == Outputs /\ FilesRead /\ FromText /\ FromSnapshot

LEMMA StagesCarried ==
  ASSUME Stages, UNCHANGED <<snapshot, pos, program, argv, disk>>,
         \/ phase' = phase
         \/ /\ phase' \notin {"arguments", "text"} \cup Reading
            /\ phase' \in Loaded => phase \in Loaded
  PROVE  FilesRead' /\ FromText' /\ FromSnapshot'
<1>1. UNCHANGED <<org, memory, mem_type, Tokens>> BY DEF program, Tokens
<1>2. FilesRead' BY DEF Stages, FilesRead, Bytes, Reading
<1>3. FromText' BY <1>1 DEF Stages, FromText
<1>4. FromSnapshot'
  <2>1. CASE phase' = phase
    <3>1. \A p : InStep(p)' <=> InStep(p) BY <1>1, <2>1 DEF InStep, ReadSoFar
    <3>. QED BY <1>1, <2>1, <3>1 DEF Stages, FromSnapshot
  <2>2. CASE phase' \notin {"arguments", "text"} \cup Reading /\ (phase' \in Loaded => phase \in Loaded)
    BY <1>1, <2>2 DEF Stages, FromSnapshot, Reading
  <2>. QED BY <2>1, <2>2
<1>. QED BY <1>2, <1>3, <1>4

\* read_sna, in the run of main.
LEMMA StagesRead ==
  ASSUME Staged, Stages, LoadSnapshot
  PROVE  Stages'
<1>1. /\ UNCHANGED <<snapshot, argv, disk, Tokens>>
      /\ phase \in Reading /\ Kind[argv[1]] = "sna"
      /\ phase' \in {"origin", "blocks", "loaded", "error", "undefined"}
  BY DEF LoadSnapshot, Read, AssignMemory, ReadOrigin, SkipNewLine, ReadBlock, EndBlocks, Reading,
         Tokens, Staged
<1>2. Outputs' BY <1>1 DEF Outputs
<1>3. FilesRead' BY <1>1 DEF FilesRead, Stages, Bytes, Reading
<1>4. FromText' BY <1>1 DEF FromText
<1>5. phase' # "error" => memory' = SubSeq(snapshot.bytes, Header + 1, Len(snapshot.bytes))
  <2>1. CASE AssignMemory BY <2>1 DEF AssignMemory
  <2>2. CASE ReadOrigin \/ SkipNewLine \/ ReadBlock \/ EndBlocks
    BY <2>2 DEF ReadOrigin, SkipNewLine, ReadBlock, EndBlocks, program, Stages, FromSnapshot
  <2>. QED BY <2>1, <2>2 DEF LoadSnapshot, Read
<1>6. ASSUME NEW p \in Programs, Tokens' = BlockTokens(p.org, p.mem_type)
      PROVE  InStep(p)'
  <2>1. Tokens = BlockTokens(p.org, p.mem_type) /\ InStep(p)
    BY <1>1, <1>6 DEF Stages, FromSnapshot
  <2>2. CASE AssignMemory BY <2>1, <2>2 DEF AssignMemory, InStep
  <2>. QED BY <2>1, <2>2, OriginInStep, SkipInStep, BlockInStep, EndInStep DEF LoadSnapshot, Read
<1>7. FromSnapshot'
  <2>1. ASSUME NEW p \in Programs, Tokens' = BlockTokens(p.org, p.mem_type), phase' \in Loaded
        PROVE  org' = p.org /\ mem_type' = p.mem_type
    <3>1. phase' = "loaded" BY <1>1, <2>1 DEF Loaded
    <3>. QED BY <1>6, <2>1, <3>1 DEF InStep
  <2>2. phase' # "arguments" /\ (phase' \in {"origin", "blocks"} \cup Loaded => phase' # "error")
    BY <1>1 DEF Loaded
  <2>. QED BY <1>1, <1>5, <1>6, <2>1, <2>2 DEF FromSnapshot
<1>. QED BY <1>2, <1>3, <1>4, <1>7 DEF Stages

LEMMA StagesNext == Staged /\ Stages /\ [DriverNext]_driverVars => Stages'
<1>. SUFFICES ASSUME Staged, Stages, [DriverNext]_driverVars PROVE Stages' OBVIOUS
<1>1. CASE Usage
  <2>1. Outputs' BY <1>1 DEF Usage, Outputs
  <2>2. FilesRead' /\ FromText' /\ FromSnapshot'
    BY <1>1, StagesCarried DEF Usage, Reading, Loaded
  <2>. QED BY <2>1, <2>2 DEF Stages
<1>2. CASE ReadArgument
  <2>1. Outputs' BY <1>2 DEF ReadArgument, Outputs, readVars
  <2>2. FilesRead' /\ FromText' /\ FromSnapshot'
    BY <1>2, StagesCarried DEF ReadArgument, readVars
  <2>. QED BY <2>1, <2>2 DEF Stages
<1>3. CASE CheckArguments
  <2>1. UNCHANGED <<snapshot, org, memory, mem_type, argv, disk, Tokens>> /\ phase = "arguments"
        /\ phase' \in {"error", "load", "text"} /\ (phase' = "text" => Kind[argv[1]] # "sna")
    BY <1>3 DEF CheckArguments, program, Tokens
  <2>0. argv # <<>> BY <1>3 DEF CheckArguments
  <2>2. Outputs' BY <2>1 DEF Outputs
  <2>3. FilesRead' BY <2>0, <2>1 DEF FilesRead, Stages, Bytes
  <2>4. FromText' BY <2>1 DEF FromText, Loaded
  <2>5. \A p : phase' \in Reading => InStep(p)'
    BY <2>1 DEF InStep, Stages, FromSnapshot, Reading
  <2>6. FromSnapshot' BY <2>1, <2>5 DEF FromSnapshot, Loaded
  <2>. QED BY <2>2, <2>3, <2>4, <2>6 DEF Stages
<1>4. CASE LoadText
  <2>1. /\ UNCHANGED <<snapshot, argv, disk, Tokens>> /\ Kind[argv[1]] # "sna"
        /\ \/ phase' = "error"
           \/ /\ phase' = "loaded"
              /\ \E p \in Programs : org' = p.org /\ memory' = p.memory /\ mem_type' = p.mem_type
    BY <1>4 DEF LoadText, Tokens, Stages, FromText
  <2>0. argv # <<>> BY <1>4 DEF LoadText, Stages, FilesRead
  <2>2. Outputs' BY <2>1 DEF Outputs
  <2>3. FilesRead' BY <2>0, <2>1 DEF FilesRead, Stages, Bytes
  <2>4. FromText' BY <2>1 DEF FromText, Loaded
  <2>5. FromSnapshot' BY <2>1 DEF FromSnapshot, Loaded, Reading
  <2>. QED BY <2>2, <2>3, <2>4, <2>5 DEF Stages
<1>5. CASE LoadSnapshot BY <1>5, StagesRead
<1>6. CASE CheckLimit
  <2>1. phase' \in {Output, "error"} /\ Output' = Output BY <1>6 DEF CheckLimit, Output, arguments
  <2>2. Outputs' BY <2>1 DEF Outputs, Output
  <2>3. FilesRead' /\ FromText' /\ FromSnapshot'
    BY <1>6, <2>1, StagesCarried DEF CheckLimit, Reading, Loaded, Output
  <2>. QED BY <2>2, <2>3 DEF Stages
<1>7. CASE PrintBlocks
  <2>1. Outputs' BY <1>7 DEF PrintBlocks, Stages, Outputs, Output, arguments
  <2>2. FilesRead' /\ FromText' /\ FromSnapshot'
    BY <1>7, StagesCarried DEF PrintBlocks, Reading, Loaded
  <2>. QED BY <2>1, <2>2 DEF Stages
<1>8. CASE PatchSnapshot
  <2>1. phase = "save" /\ phase' \in {"error", "undefined", "write"}
        /\ UNCHANGED <<snapshot, pos, program, argv, disk, arguments>>
    BY <1>8 DEF PatchSnapshot
  <2>2. Outputs' BY <2>1 DEF Stages, Outputs, Output, arguments
  <2>3. FilesRead' /\ FromText' /\ FromSnapshot'
    BY <2>1, StagesCarried DEF Reading, Loaded
  <2>. QED BY <2>2, <2>3 DEF Stages
<1>9. CASE WriteSnapshot
  <2>1. phase = "write" /\ phase' \in {"error", "done"}
        /\ UNCHANGED <<snapshot, pos, program, argv, disk, arguments>>
    BY <1>9 DEF WriteSnapshot
  <2>2. Outputs' BY <2>1 DEF Stages, Outputs, Output, arguments
  <2>3. FilesRead' /\ FromText' /\ FromSnapshot'
    BY <2>1, StagesCarried DEF Reading, Loaded
  <2>. QED BY <2>2, <2>3 DEF Stages
<1>10. CASE UNCHANGED driverVars
  <2>1. Outputs' BY <1>10 DEF driverVars, readVars, arguments, Stages, Outputs, Output
  <2>2. FilesRead' /\ FromText' /\ FromSnapshot'
    BY <1>10, StagesCarried DEF driverVars, readVars
  <2>. QED BY <2>1, <2>2 DEF Stages
<1>. QED BY <1>1, <1>2, <1>3, <1>4, <1>5, <1>6, <1>7, <1>8, <1>9, <1>10 DEF DriverNext, Ended

-----------------------------------------------------------------------------
(* From one run to the next. *)

DiskOK ==
  /\ DOMAIN disk = {"files", "locked", "full", "found", "tokens"}
  /\ FilesOK(disk.files) /\ disk.found \in BOOLEAN /\ disk.tokens \in Seq(Token)

LEMMA PrintedAreTokens ==
  ASSUME NEW origin \in Nat, NEW bl \in Seq(Block)
  PROVE  BlockTokens(origin, bl) \in Seq(Token)
<1>. DEFINE n == Len(bl)
            TokenAt(i) == CASE i = 1 -> Integer(origin)
                             [] i % 3 = 2 -> NewLine
                             [] i % 3 = 0 -> [t |-> "name", s |-> bl[i \div 3].type]
                             [] OTHER -> Integer(bl[i \div 3].count)
<1>1. n \in Nat /\ 3 * n + 2 \in Nat OBVIOUS
<1>2. ASSUME NEW i \in 1 .. n PROVE bl[i].type \in Types /\ bl[i].count \in Nat
  <2>1. bl[i] \in Block BY <1>2, ElementOfSeq
  <2>. QED BY <2>1 DEF Block
<1>3. ASSUME NEW v \in Nat PROVE Integer(v) \in Token BY <1>3 DEF Integer, Token
<1>4. NewLine \in Token BY DEF NewLine, Token
<1>5. ASSUME NEW i \in 1 .. 3 * n + 2 PROVE TokenAt(i) \in Token
  <2>1. CASE i = 1 BY <1>3, <2>1
  <2>2. CASE i # 1 /\ i % 3 = 2 BY <1>4, <2>2
  <2>3. CASE i # 1 /\ i % 3 = 0
    <3>1. i \div 3 \in 1 .. n BY <1>1, <1>5, <2>3
    <3>2. [t |-> "name", s |-> bl[i \div 3].type] \in Token BY <1>2, <3>1 DEF Token
    <3>. QED BY <2>3, <3>2
  <2>4. CASE i # 1 /\ i % 3 = 1
    <3>1. i \div 3 \in 1 .. n BY <1>1, <1>5, <2>4
    <3>2. Integer(bl[i \div 3].count) \in Token BY <1>2, <1>3, <3>1
    <3>. QED BY <2>4, <3>2
  <2>5. i % 3 \in 0 .. 2 BY <1>5
  <2>. QED BY <2>1, <2>2, <2>3, <2>4, <2>5
<1>. HIDE DEF TokenAt
<1>6. [i \in 1 .. 3 * n + 2 |-> TokenAt(i)] \in Seq(Token) BY <1>1, <1>5, IsASeq
<1>. QED BY <1>6 DEF BlockTokens, TokenAt

LEMMA BeginsWell ==
  DiskOK /\ argv \in CommandLines /\ Begin => Staged /\ Saving /\ Stages /\ SavesInside
<1>. SUFFICES ASSUME DiskOK, argv \in CommandLines, Begin PROVE Staged /\ Saving /\ Stages /\ SavesInside
  OBVIOUS
<1>1. /\ phase = "arguments" /\ pathnames = <<>> /\ arg = 2 /\ files = disk.files
      /\ mem_type = <<>> /\ buffer = <<>> /\ org = 0 /\ memory = <<>> /\ pos = 1
      /\ snapshot = [bytes |-> IF argv = <<>> THEN <<>> ELSE Bytes(files, argv[1]),
                     found |-> disk.found, tokens |-> disk.tokens]
  BY DEF Begin
<1>2. snapshot.bytes \in Seq(0 .. 255)
  <2>1. Bytes(files, argv[1]) \in Seq(0 .. 255) BY <1>1, BytesAreBytes DEF DiskOK
  <2>. QED BY <1>1, <2>1
<1>3. IsSnapshot(snapshot) BY <1>1, <1>2 DEF IsSnapshot, DiskOK
<1>4. ReadDataOK BY <1>1, <1>3, SizeAssumption DEF ReadDataOK
<1>5. Staged BY <1>1, <1>4 DEF Staged, Reading, DiskOK
<1>6. InOrder BY <1>1 DEF InOrder
<1>7. Saving BY <1>1, <1>6 DEF Saving, UnchangedSoFar, Saved
<1>8. Stages BY <1>1 DEF Stages, Outputs, FilesRead, FromText, FromSnapshot, Loaded, Reading
<1>9. SavesInside BY <1>1 DEF SavesInside
<1>. QED BY <1>5, <1>7, <1>8, <1>9

\* The disk has what the runs have left on it: all of it, unless it is full.
Holds(path, m) ==
  /\ ~disk.full => Header + Len(m) <= Len(Bytes(disk.files, path))
  /\ \A k \in 1 .. Len(m) :
       Header + k <= Len(Bytes(disk.files, path)) => Bytes(disk.files, path)[Header + k] = m[k]

PrintedLast ==
  \A i \in Latest("print") :
    disk.tokens = BlockTokens(runs[i].program.org, runs[i].program.mem_type)
SavedLast ==
  \A i \in Latest("save") : runs[i].program.org = RamStart =>
    Holds(runs[i].argv[3], runs[i].program.memory)

\* A text has been listed by a walk to the end of its blocks.
IsListed(run) ==
  \E p \in Programs :
    /\ run.program = [org |-> p.org, memory |-> p.memory, mem_type |-> p.mem_type]
    /\ Listable(p.mem_type) =>
         \E s : run.lines = s.lines /\ Walked(run.base, run.relative, p, s) /\ ~Going(p, s)
TextsListed ==
  \A i \in DOMAIN runs : runs[i].output = "list" /\ Kind[runs[i].argv[1]] # "sna" => IsListed(runs[i])

Recorded == (\E S : runs \in Seq(S)) /\ PrintedLast /\ SavedLast /\ TextsListed

\* The run that has ended is the latest of its output.
LEMMA RunAppended ==
  ASSUME NEW S, runs \in Seq(S), NEW run, runs' = Append(runs, run)
  PROVE  /\ \E T : runs' \in Seq(T)
         /\ DOMAIN runs = 1 .. Len(runs) /\ Len(runs) \in Nat
         /\ DOMAIN runs' = 1 .. Len(runs) + 1
         /\ \A i \in DOMAIN runs : runs'[i] = runs[i]
         /\ runs'[Len(runs) + 1] = run
         /\ \A o : IF run.output = o THEN Latest(o)' = {Len(runs) + 1} ELSE Latest(o)' = Latest(o)
<1>. DEFINE T == S \cup {run}
            n == Len(runs)
<1>1. n \in Nat /\ DOMAIN runs = 1 .. n BY LenProperties
<1>2. runs \in Seq(T) /\ run \in T BY SeqMonotonic
<1>. HIDE DEF T
<1>3. /\ runs' \in Seq(T) /\ Len(runs') = n + 1
      /\ \A i \in 1 .. n : runs'[i] = runs[i]
      /\ runs'[n + 1] = run
  BY <1>2, AppendProperties
<1>4. DOMAIN runs' = 1 .. n + 1 BY <1>3, LenProperties
<1>. HIDE DEF n
<1>5. ASSUME NEW o, run.output = o PROVE Latest(o)' = {n + 1}
  <2>1. ASSUME NEW i \in Latest(o)' PROVE i = n + 1
    <3>1. i \in 1 .. n + 1 /\ \A j \in i + 1 .. n + 1 : runs'[j].output # o
      BY <1>3, <1>4, <2>1 DEF Latest
    <3>2. ~(i <= n)
      <4>. SUFFICES ASSUME i <= n PROVE FALSE OBVIOUS
      <4>1. n + 1 \in i + 1 .. n + 1 BY <1>1, <3>1
      <4>. QED BY <1>3, <1>5, <3>1, <4>1
    <3>. QED BY <1>1, <3>1, <3>2
  <2>2. n + 1 \in Latest(o)'
    <3>1. n + 1 \in 1 .. n + 1 /\ (n + 1) + 1 .. n + 1 = {} BY <1>1
    <3>. QED BY <1>3, <1>4, <1>5, <3>1 DEF Latest
  <2>. QED BY <2>1, <2>2
<1>6. ASSUME NEW o, run.output # o PROVE Latest(o)' = Latest(o)
  <2>1. ASSUME NEW i \in Latest(o)' PROVE i \in Latest(o)
    <3>1. i \in 1 .. n + 1 /\ runs'[i].output = o /\ \A j \in i + 1 .. n + 1 : runs'[j].output # o
      BY <1>3, <1>4, <2>1 DEF Latest
    <3>2. i \in 1 .. n
      <4>1. i # n + 1 BY <1>3, <1>6, <3>1
      <4>. QED BY <1>1, <3>1, <4>1
    <3>3. \A j \in i + 1 .. n : j \in i + 1 .. n + 1 /\ j \in 1 .. n BY <1>1, <3>2
    <3>. QED BY <1>1, <1>3, <3>1, <3>2, <3>3 DEF Latest, n
  <2>2. ASSUME NEW i \in Latest(o) PROVE i \in Latest(o)'
    <3>1. i \in 1 .. n /\ runs[i].output = o /\ \A j \in i + 1 .. n : runs[j].output # o
      BY <1>1, <2>2 DEF Latest, n
    <3>2. ASSUME NEW j \in i + 1 .. n + 1 PROVE runs'[j].output # o
      <4>1. CASE j = n + 1 BY <1>3, <1>6, <4>1
      <4>2. CASE j # n + 1
        <5>1. j \in i + 1 .. n /\ j \in 1 .. n BY <1>1, <3>1, <4>2
        <5>. QED BY <1>3, <3>1, <5>1
      <4>. QED BY <4>1, <4>2
    <3>3. i \in 1 .. n + 1 BY <1>1, <3>1
    <3>. QED BY <1>3, <1>4, <3>1, <3>2, <3>3 DEF Latest
  <2>. QED BY <2>1, <2>2
<1>. QED BY <1>1, <1>3, <1>4, <1>5, <1>6 DEF n

\* A program saved where the memory of a snapshot begins is in the file, as far as
\* the file goes.
LEMMA SavedHolds ==
  ASSUME Staged, Saving, Saved, org = RamStart
  PROVE  /\ ~disk.full => Header + Len(memory) <= Len(Bytes(files, argv[3]))
         /\ \A k \in 1 .. Len(memory) :
              Header + k <= Len(Bytes(files, argv[3])) => Bytes(files, argv[3])[Header + k] = memory[k]
<1>. DEFINE sna == Bytes(disk.files, argv[2])
            n == Len(memory)
            file == Bytes(files, argv[3])
<1>1. buffer = Patched(sna) /\ Start + n <= Len(sna) /\ (\E l \in Nat : Stored(l))
  BY DEF Saving, SaveReady
<1>2. sna \in Seq(0 .. 255) BY BytesAreBytes DEF Staged
<1>3. memory \in Seq(0 .. 255) /\ n \in Nat /\ DOMAIN memory = 1 .. n /\ org \in Nat /\ Header \in Nat
      /\ Start = Header
  BY SizeAssumption, DriverAssumption DEF Staged, ReadDataOK, Start
<1>. HIDE DEF sna, n
<1>4. buffer \in Seq(0 .. 255) /\ DOMAIN sna = 1 .. Len(sna) /\ Len(buffer) = Len(sna) /\ Len(sna) \in Nat
  BY <1>1, <1>2, <1>3, PatchedBytes
<1>5. PICK l \in Nat : Stored(l) BY <1>1
<1>6. l \in 0 .. Len(buffer) /\ (l = Len(buffer) \/ disk.full) BY <1>5 DEF Stored
<1>7. file = SubSeq(buffer, 1, l) BY <1>5 DEF Stored, Bytes
<1>8. Len(file) = l /\ \A k \in 1 .. l : file[k] = buffer[k] BY <1>4, <1>6, <1>7, StoredBytes
<1>9. ASSUME NEW k \in 1 .. n PROVE buffer[Header + k] = memory[k]
  <2>1. Header + k \in DOMAIN sna BY <1>1, <1>3, <1>4
  <2>2. (Header + k) - Start = k /\ k \in DOMAIN memory BY <1>3
  <2>. QED BY <1>1, <2>1, <2>2 DEF Patched
<1>. HIDE DEF file
<1>10. ASSUME NEW k \in 1 .. n, Header + k <= Len(file) PROVE file[Header + k] = memory[k]
  <2>1. Header + k \in 1 .. l BY <1>3, <1>8, <1>10
  <2>. QED BY <1>8, <1>9, <2>1
<1>11. ~disk.full => Header + n <= Len(file) BY <1>1, <1>3, <1>4, <1>6, <1>8
<1>. QED BY <1>10, <1>11 DEF n, file

\* The run, and the command lines and the disk it finds.
RunsOK ==
  /\ rest \in Seq(CommandLines \ {<<>>}) /\ DiskOK
  /\ Staged /\ Saving /\ Stages /\ SavesInside

\* The disk after a run.
LEMMA DiskAfter ==
  ASSUME RunsOK, NextRun
  PROVE  /\ \/ phase = "done" /\ Output \in {"print", "save"}
            \/ phase = "list" /\ Output = "list" /\ walk = "done"
         /\ DOMAIN disk' = DOMAIN disk /\ disk'.full = disk.full
         /\ Output = "print" => /\ disk'.files = disk.files /\ disk'.found = TRUE
                                /\ disk'.tokens = BlockTokens(org, mem_type)
         /\ Output # "print" => /\ disk'.files = files /\ disk'.found = disk.found
                                /\ disk'.tokens = disk.tokens
<1>1. /\ disk' = IF Output = "print"
                 THEN [disk EXCEPT !.found = TRUE, !.tokens = BlockTokens(org, mem_type)]
                 ELSE [disk EXCEPT !.files = files]
      /\ Succeeded
  BY DEF NextRun
<1>2. \/ phase = "done" /\ Output \in {"print", "save"}
      \/ phase = "list" /\ Output = "list" /\ walk = "done"
  BY <1>1 DEF Succeeded, RunsOK, Stages, Outputs, Output
<1>. QED BY <1>1, <1>2 DEF RunsOK, DiskOK

LEMMA NextRunBegins ==
  ASSUME RunsOK, NextRun
  PROVE  RunsOK'
<1>1. argv' \in CommandLines /\ argv' # <<>> /\ rest' \in Seq(CommandLines \ {<<>>})
  BY HeadTailProperties DEF RunsOK, NextRun
<1>2. org \in Nat /\ mem_type \in Seq(Block) /\ FilesOK(files)
  BY SizeAssumption DEF RunsOK, Staged, ReadDataOK
<1>3. DiskOK'
  <2>1. BlockTokens(org, mem_type) \in Seq(Token) BY <1>2, PrintedAreTokens
  <2>2. FilesOK(disk'.files) BY <1>2, DiskAfter DEF RunsOK, DiskOK
  <2>3. disk'.found \in BOOLEAN /\ disk'.tokens \in Seq(Token)
    BY <2>1, DiskAfter DEF RunsOK, DiskOK
  <2>. QED BY <2>2, <2>3, DiskAfter DEF RunsOK, DiskOK, FilesOK
<1>4. Begin' BY <1>1 DEF NextRun, Begin
<1>5. (DiskOK /\ argv \in CommandLines /\ Begin => Staged /\ Saving /\ Stages /\ SavesInside)'
  BY BeginsWell, PTL
<1>. QED BY <1>1, <1>3, <1>4, <1>5 DEF RunsOK

LEMMA NextRunRecorded ==
  ASSUME RunsOK, Walking, Recorded, NextRun
  PROVE  Recorded'
<1>. DEFINE run == [argv |-> argv, base |-> base, relative |-> relative, output |-> Output,
                    lines |-> lines, program |-> Program]
<1>a. runs' = Append(runs, run) BY DEF NextRun
<1>0. PICK S : runs \in Seq(S) BY DEF Recorded
<1>. DEFINE n == Len(runs)
<1>1. /\ \E T : runs' \in Seq(T)
      /\ DOMAIN runs = 1 .. n /\ n \in Nat
      /\ DOMAIN runs' = 1 .. n + 1
      /\ \A i \in DOMAIN runs : runs'[i] = runs[i]
      /\ runs'[n + 1] = run
      /\ \A o : IF run.output = o THEN Latest(o)' = {n + 1} ELSE Latest(o)' = Latest(o)
  BY <1>a, <1>0, RunAppended
<1>2. \A o : Latest(o) \subseteq DOMAIN runs BY DEF Latest
<1>3. /\ run.output = Output /\ run.argv = argv /\ run.lines = lines /\ run.base = base
      /\ run.relative = relative /\ run.program = Program
      /\ Program.org = org /\ Program.memory = memory /\ Program.mem_type = mem_type
  BY DEF Program
<1>. HIDE DEF run, n
<1>4. PrintedLast'
  <2>1. CASE Output = "print"
    <3>1. Latest("print")' = {n + 1} BY <1>1, <1>3, <2>1
    <3>. QED BY DiskAfter, <1>1, <1>3, <2>1, <3>1 DEF PrintedLast
  <2>2. CASE Output # "print"
    <3>1. Latest("print")' = Latest("print") BY <1>1, <1>3, <2>2
    <3>. QED BY DiskAfter, <1>1, <1>2, <2>2, <3>1 DEF PrintedLast, Recorded
  <2>. QED BY <2>1, <2>2
<1>5. SavedLast'
  <2>1. CASE Output = "save"
    <3>1. Latest("save")' = {n + 1} BY <1>1, <1>3, <2>1
    <3>2. Saved BY DiskAfter, <2>1 DEF Saved, Output
    <3>3. disk'.files = files BY DiskAfter, <2>1
    <3>4. org = RamStart =>
            /\ ~disk.full => Header + Len(memory) <= Len(Bytes(files, argv[3]))
            /\ \A k \in 1 .. Len(memory) :
                 Header + k <= Len(Bytes(files, argv[3])) =>
                   Bytes(files, argv[3])[Header + k] = memory[k]
      BY <3>2, SavedHolds DEF RunsOK
    <3>. QED BY DiskAfter, <1>1, <1>3, <3>1, <3>3, <3>4 DEF SavedLast, Holds
  <2>2. CASE Output # "save"
    <3>1. Latest("save")' = Latest("save") BY <1>1, <1>3, <2>2
    <3>2. disk'.files = disk.files
      <4>1. phase = "list" => files = disk.files BY DEF RunsOK, Saving, UnchangedSoFar
      <4>. QED BY DiskAfter, <2>2, <4>1
    <3>3. \A path, m : Holds(path, m)' <=> Holds(path, m) BY DiskAfter, <3>2 DEF Holds
    <3>. QED BY DiskAfter, <1>1, <1>2, <3>1, <3>3 DEF SavedLast, Recorded
  <2>. QED BY <2>1, <2>2
<1>6. TextsListed'
  <2>1. ASSUME Output = "list", Kind[argv[1]] # "sna" PROVE IsListed(run)
    <3>1. phase = "list" /\ walk = "done" BY DiskAfter, <2>1
    <3>2. PICK p \in Programs : org = p.org /\ memory = p.memory /\ mem_type = p.mem_type
      BY <2>1, <3>1 DEF RunsOK, Stages, FromText, Loaded
    <3>3. Agrees(p) /\ ~Cut(p)
      <4>1. Len(p.memory) \in Nat BY ProgramAssumption DEF IsProgram
      <4>. QED BY <3>2, <4>1 DEF Agrees, Cut
    <3>4. ASSUME Listable(p.mem_type)
          PROVE  lines = State.lines /\ Walked(base, relative, p, State) /\ ~Going(p, State)
      <4>1. State.lines = lines BY DEF State
      <4>2. Walked(base, relative, p, State) /\ ~Going(p, State)
        BY <3>1, <3>2, <3>3, <3>4 DEF Walking, Lists
      <4>. QED BY <4>1, <4>2
    <3>5. run.program = [org |-> p.org, memory |-> p.memory, mem_type |-> p.mem_type]
      BY <1>3, <3>2 DEF Program
    <3>. QED BY <1>3, <3>4, <3>5 DEF IsListed
  <2>2. ASSUME NEW i \in DOMAIN runs', runs'[i].output = "list", Kind[runs'[i].argv[1]] # "sna"
        PROVE  IsListed(runs'[i])
    <3>1. CASE i = n + 1 BY <1>1, <1>3, <2>1, <2>2, <3>1
    <3>2. CASE i # n + 1
      <4>1. i \in DOMAIN runs BY <1>1, <2>2, <3>2
      <4>2. runs'[i] = runs[i] BY <1>1, <4>1
      <4>. QED BY <2>2, <4>1, <4>2 DEF Recorded, TextsListed
    <3>. QED BY <3>1, <3>2
  <2>. QED BY <2>2 DEF TextsListed
<1>. QED BY <1>1, <1>4, <1>5, <1>6 DEF Recorded

\* Every other step is one of the run, or of dump.
LEMMA RunStep ==
  ASSUME [SessionNext]_sessionVars, ~NextRun
  PROVE  [DriverNext]_driverVars /\ UNCHANGED <<disk, rest, runs>>
<1>1. CASE RunMain \/ RunLoader
  BY <1>1 DEF RunMain, RunLoader, DriverNext, Usage, ReadArgument, CheckArguments, LoadText,
              LoadSnapshot, CheckLimit, PrintBlocks, PatchSnapshot, WriteSnapshot
<1>2. CASE RunDump BY <1>2 DEF RunDump, driverVars
<1>3. CASE UNCHANGED sessionVars BY <1>3 DEF sessionVars, driverVars
<1>. QED BY <1>1, <1>2, <1>3 DEF SessionNext, SessionOver

LEMMA RunsNext == RunsOK /\ [SessionNext]_sessionVars => RunsOK'
<1>. SUFFICES ASSUME RunsOK, [SessionNext]_sessionVars PROVE RunsOK' OBVIOUS
<1>1. CASE NextRun BY <1>1, NextRunBegins
<1>2. CASE ~NextRun
  <2>1. [DriverNext]_driverVars /\ UNCHANGED <<disk, rest>> BY <1>2, RunStep
  <2>2. DiskOK' BY <2>1 DEF RunsOK, DiskOK, FilesOK
  <2>. QED BY <2>1, <2>2, StagedNext, SavingNext, StagesNext, InsideNext DEF RunsOK
<1>. QED BY <1>1, <1>2

LEMMA RecordedNext == RunsOK /\ Walking /\ Recorded /\ [SessionNext]_sessionVars => Recorded'
<1>. SUFFICES ASSUME RunsOK, Walking, Recorded, [SessionNext]_sessionVars PROVE Recorded' OBVIOUS
<1>1. CASE NextRun BY <1>1, NextRunRecorded
<1>2. CASE ~NextRun
  <2>1. UNCHANGED <<disk, runs>> BY <1>2, RunStep
  <2>2. \A path, m : Holds(path, m)' <=> Holds(path, m) BY <2>1 DEF Holds, Bytes
  <2>3. Latest("print")' = Latest("print") /\ Latest("save")' = Latest("save") BY <2>1 DEF Latest
  <2>. QED BY <2>1, <2>2, <2>3 DEF Recorded, PrintedLast, SavedLast, TextsListed
<1>. QED BY <1>1, <1>2

LEMMA WalkingNext ==
  ASSUME FromAssembler, Listing!OneCase, RunsOK, Walking, [SessionNext]_sessionVars
  PROVE  Walking'
<1>1. CASE RunMain \/ RunLoader
  <2>1. phase # "list"
    BY <1>1 DEF RunMain, RunLoader, Usage, ReadArgument, CheckArguments, LoadText, LoadSnapshot, Read,
                AssignMemory, ReadOrigin, SkipNewLine, ReadBlock, EndBlocks, CheckLimit, PrintBlocks,
                PatchSnapshot, WriteSnapshot
  <2>2. UNCHANGED walkVars BY <1>1 DEF RunMain, RunLoader
  <2>3. Unlisted /\ Unlisted' BY <2>1, <2>2 DEF Walking, Unlisted, walkVars
  <2>4. walk' = "start" BY <2>3 DEF Unlisted
  <2>5. \A p : Lists(p)' BY <2>4 DEF Lists
  <2>. QED BY <2>3, <2>5 DEF Walking
<1>2. CASE RunDump
  <2>1. memory \in Seq(0 .. 255) BY DEF RunsOK, Staged, ReadDataOK
  <2>. QED BY <1>2, <2>1, DumpWalks
<1>3. CASE NextRun BY <1>3 DEF NextRun, Walking, Unlisted
<1>4. CASE UNCHANGED sessionVars
  <2>1. UNCHANGED <<phase, org, memory, mem_type, base, relative, walk, first, block, count, lines>>
    BY <1>4 DEF sessionVars, driverVars, readVars, program, arguments, walkVars
  <2>2. State' = State /\ (Unlisted' <=> Unlisted)
        /\ \A p : (Agrees(p)' <=> Agrees(p)) /\ (Cut(p)' <=> Cut(p))
    BY <2>1 DEF State, Unlisted, Agrees, Cut
  <2>3. \A p : Lists(p)' <=> Lists(p) BY <2>1, <2>2 DEF Lists
  <2>. QED BY <2>1, <2>2, <2>3 DEF Walking
<1>. QED BY <1>1, <1>2, <1>3, <1>4 DEF SessionNext, SessionOver

LEMMA SessionBegins == SessionInit => RunsOK /\ Walking /\ Recorded
<1>. SUFFICES ASSUME SessionInit PROVE RunsOK /\ Walking /\ Recorded OBVIOUS
<1>1. PICK s \in Sessions : disk = s.disk /\ argv = Head(s.commands) /\ rest = Tail(s.commands)
  BY DEF SessionInit
<1>2. /\ s.disk \in Disks
      /\ s.commands \in Seq(CommandLines) /\ s.commands # <<>>
      /\ \A i \in 2 .. Len(s.commands) : s.commands[i] # <<>>
  BY SessionAssumption
<1>3. argv \in CommandLines BY <1>1, <1>2, HeadTailProperties
<1>4. rest \in Seq(CommandLines \ {<<>>})
  <2>. DEFINE c == s.commands
  <2>1. /\ rest \in Seq(CommandLines) /\ Len(rest) = Len(c) - 1 /\ Len(c) \in Nat
        /\ \A i \in 1 .. Len(rest) : rest[i] = c[i + 1]
    BY <1>1, <1>2, HeadTailProperties
  <2>. HIDE DEF c
  <2>2. ASSUME NEW i \in 1 .. Len(rest) PROVE rest[i] \in CommandLines \ {<<>>}
    <3>1. i + 1 \in 2 .. Len(c) BY <2>1
    <3>2. rest[i] # <<>> BY <1>2, <2>1, <3>1 DEF c
    <3>3. rest[i] \in CommandLines BY <2>1, ElementOfSeq
    <3>. QED BY <3>2, <3>3
  <2>3. rest \in [1 .. Len(rest) -> CommandLines \ {<<>>}] /\ Len(rest) \in Nat
    <3>1. rest \in [1 .. Len(rest) -> CommandLines] /\ Len(rest) \in Nat BY <2>1, LenProperties
    <3>. QED BY <2>2, <3>1
  <2>. QED BY <2>3, SeqDef
<1>5. DiskOK
  <2>1. IsDisk(disk) BY <1>1, <1>2, DriverAssumption
  <2>. QED BY <2>1 DEF IsDisk, DiskOK, FilesOK
<1>6. Staged /\ Saving /\ Stages /\ SavesInside BY <1>3, <1>5, BeginsWell DEF SessionInit
<1>7. Walking BY DEF SessionInit, Begin, Walking
<1>8. Recorded
  <2>1. runs = <<>> /\ DOMAIN runs = {} BY DEF SessionInit
  <2>2. runs \in Seq({}) BY <2>1, EmptySeq
  <2>3. \A o : Latest(o) = {} BY <2>1 DEF Latest
  <2>. QED BY <2>1, <2>2, <2>3 DEF Recorded, PrintedLast, SavedLast, TextsListed
<1>. QED BY <1>4, <1>5, <1>6, <1>7, <1>8 DEF RunsOK

\* The memory read from the snapshot begins with the program saved, or with what
\* there is of it.
LEMMA Reloaded ==
  ASSUME RunsOK, NEW p \in Programs, phase = "list", Kind[argv[1]] = "sna",
         Tokens = BlockTokens(p.org, p.mem_type), Holds(argv[1], p.memory), argv # <<>>
  PROVE  Agrees(p) /\ (~disk.full => ~Cut(p))
<1>. DEFINE bytes == snapshot.bytes
            m == p.memory
<1>1. memory = SubSeq(bytes, Header + 1, Len(bytes)) /\ org = p.org /\ mem_type = p.mem_type
  BY DEF RunsOK, Stages, FromSnapshot, Loaded
<1>2. bytes \in Seq(0 .. 255) /\ bytes = Bytes(disk.files, argv[1]) /\ Len(bytes) \in Nat
  BY DEF RunsOK, Staged, ReadDataOK, IsSnapshot, Stages, FilesRead
<1>3. /\ ~disk.full => Header + Len(m) <= Len(bytes)
      /\ \A k \in 1 .. Len(m) : Header + k <= Len(bytes) => bytes[Header + k] = m[k]
  BY <1>2 DEF Holds
<1>4. Len(m) \in Nat /\ Header \in Nat BY SizeAssumption, ProgramAssumption DEF IsProgram
<1>. HIDE DEF bytes, m
<1>5. \A i \in Header + 1 .. Len(bytes) : bytes[i] \in 0 .. 255
  <2>1. \A i \in Header + 1 .. Len(bytes) : i \in 1 .. Len(bytes) BY <1>2, <1>4
  <2>. QED BY <1>2, <2>1, ElementOfSeq
<1>6. /\ Len(memory) = IF Header + 1 <= Len(bytes) THEN Len(bytes) - (Header + 1) + 1 ELSE 0
      /\ \A k \in 1 .. Len(bytes) - (Header + 1) + 1 : memory[k] = bytes[Header + 1 + k - 1]
  BY <1>1, <1>2, <1>4, <1>5, SubSeqProperties
<1>7. ~disk.full => Len(m) <= Len(memory) BY <1>2, <1>3, <1>4, <1>6
<1>8. ASSUME NEW k \in 1 .. Len(m), k <= Len(memory) PROVE memory[k] = m[k]
  <2>1. /\ k \in 1 .. Len(bytes) - (Header + 1) + 1 /\ Header + 1 + k - 1 = Header + k
        /\ Header + k <= Len(bytes)
    BY <1>2, <1>4, <1>6, <1>8
  <2>. QED BY <1>3, <1>6, <2>1
<1>. QED BY <1>1, <1>7, <1>8 DEF Agrees, Cut, m

\* What is listed again is a program of which an earlier run listed every line.
LEMMA Relisted ==
  ASSUME RunsOK, Recorded, NEW i \in DOMAIN runs, Relists(runs[i])
  PROVE  \E p \in Programs :
           /\ phase = "list" /\ Agrees(p) /\ Listable(p.mem_type) /\ (~disk.full => ~Cut(p))
           /\ \E s : runs[i].lines = s.lines /\ Walked(base, relative, p, s) /\ ~Going(p, s)
<1>. DEFINE run == runs[i]
<1>0. /\ run.output = "list" /\ Kind[run.argv[1]] # "sna" /\ Reloads(run.program)
      /\ run.base = base /\ run.relative = relative
      /\ run.program.org = RamStart /\ Listable(run.program.mem_type)
  BY DEF Relists
<1>1. PICK p \in Programs :
        /\ run.program = [org |-> p.org, memory |-> p.memory, mem_type |-> p.mem_type]
        /\ Listable(p.mem_type) =>
             \E s : run.lines = s.lines /\ Walked(run.base, run.relative, p, s) /\ ~Going(p, s)
  BY <1>0 DEF Recorded, TextsListed, IsListed
<1>2. Listable(p.mem_type) /\ p.org = RamStart BY <1>0, <1>1
<1>3. phase = "list" /\ Kind[argv[1]] = "sna" BY <1>0 DEF Reloads
<1>4. Tokens = BlockTokens(p.org, p.mem_type)
  <2>1. PICK j \in Latest("print") : runs[j].program = run.program BY <1>0 DEF Reloads
  <2>2. disk.tokens = BlockTokens(p.org, p.mem_type)
    BY <1>1, <2>1 DEF Recorded, PrintedLast
  <2>. QED BY <2>2 DEF RunsOK, Stages, FilesRead, Tokens
<1>5. Holds(argv[1], p.memory)
  <2>1. PICK j \in Latest("save") : runs[j].argv[3] = argv[1] /\ runs[j].program = run.program
    BY <1>0 DEF Reloads
  <2>. QED BY <1>1, <1>2, <2>1 DEF Recorded, SavedLast
<1>6. argv # <<>> BY <1>3 DEF RunsOK, Stages, FilesRead, Loaded
<1>7. Agrees(p) /\ (~disk.full => ~Cut(p)) BY <1>3, <1>4, <1>5, <1>6, Reloaded
<1>8. PICK s : run.lines = s.lines /\ Walked(base, relative, p, s) /\ ~Going(p, s)
  BY <1>0, <1>1, <1>2
<1>. QED BY <1>2, <1>3, <1>7, <1>8

LEMMA ListsAgain == RunsOK /\ Walking /\ Recorded => ListedAgain
<1>. SUFFICES ASSUME RunsOK, Walking, Recorded, NEW i \in DOMAIN runs, Relists(runs[i])
              PROVE  /\ Listing!IsPrefix(lines, runs[i].lines)
                     /\ ~disk.full => walk # "undefined" /\ (walk = "done" => lines = runs[i].lines)
  BY DEF ListedAgain
<1>1. PICK p \in Programs :
        /\ phase = "list" /\ Agrees(p) /\ Listable(p.mem_type) /\ (~disk.full => ~Cut(p))
        /\ \E s : runs[i].lines = s.lines /\ Walked(base, relative, p, s) /\ ~Going(p, s)
  BY Relisted
<1>2. PICK s : runs[i].lines = s.lines /\ Walked(base, relative, p, s) /\ ~Going(p, s) BY <1>1
<1>3. Lists(p) BY <1>1 DEF Walking
<1>4. \E t : Walked(base, relative, p, t) /\ t.lines = lines
  <2>1. CASE walk = "start"
    <3>1. FirstState(p).lines = lines BY <2>1 DEF Walking, Unlisted, FirstState
    <3>. QED BY <3>1, WalkBegins
  <2>2. CASE walk \in {"listing", "done"}
    <3>1. State.lines = lines BY DEF State
    <3>. QED BY <1>3, <2>2, <3>1 DEF Lists
  <2>. QED BY <1>3, <2>1, <2>2 DEF Lists
<1>5. PICK t : Walked(base, relative, p, t) /\ t.lines = lines BY <1>4
<1>6. Listing!IsPrefix(lines, runs[i].lines) BY <1>2, <1>5, WalkedBefore
<1>7. ASSUME ~disk.full PROVE walk # "undefined" BY <1>1, <1>3, <1>7 DEF Lists
<1>8. ASSUME ~disk.full, walk = "done" PROVE lines = runs[i].lines
  <2>1. Walked(base, relative, p, State) /\ ~Going(p, State) BY <1>1, <1>3, <1>8 DEF Lists
  <2>2. State = s BY <1>2, <2>1, WalkedOnce
  <2>. QED BY <1>2, <2>2 DEF State
<1>. QED BY <1>6, <1>7, <1>8

\* What the runs of main do, each on the disk and with the arguments the runs
\* before it left, is as a single run does it: a save stays inside the snapshot and
\* is the patch asked for, and a refused run changes nothing.
THEOREM SessionsSaveAsRuns == SessionSpec => [](SavesInside /\ PatchedAsNamed /\ RefusedUnchanged)
<1>1. RunsOK => SavesInside /\ PatchedAsNamed BY SavedAsNamed DEF RunsOK
<1>2. RunsOK => RefusedUnchanged BY DEF RunsOK, Saving, UnchangedSoFar, RefusedUnchanged
<1>. QED BY <1>1, <1>2, SessionBegins, RunsNext, PTL DEF SessionSpec

\* Whatever the program of the assembler, the disk and the command lines: saved
\* into a snapshot and printed, a program is listed from there as from its text, to
\* its end or to where a full disk has cut the snapshot off.
THEOREM ListedAgainAsText ==
  ASSUME FromAssembler, Listing!OneCase
  PROVE  SessionSpec => []ListedAgain
<1>. DEFINE Inv == RunsOK /\ Walking /\ Recorded
<1>1. SessionInit => Inv BY SessionBegins
<1>2. Inv /\ [SessionNext]_sessionVars => Inv' BY RunsNext, WalkingNext, RecordedNext
<1>3. Inv => ListedAgain BY ListsAgain
<1>. HIDE DEF Inv
<1>. QED BY <1>1, <1>2, <1>3, PTL DEF SessionSpec
=============================================================================
