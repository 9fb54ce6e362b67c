--------------------- MODULE AssemblerRefinement_proofs ---------------------
(***************************************************************************)
(* For every source text: the one pass and its patches make the memory     *)
(* image of TwoPass, or refuse the text that TwoPass refuses.              *)
(*                                                                         *)
(* The proof follows the program.  While the text is read, Read says that  *)
(* what is in the memory, the blocks, the symbol tables and the fixup maps *)
(* is what the first pass of TwoPass says of the lines read so far.  While *)
(* an expression is reduced, Stacked says that _acc is the one stack the   *)
(* second pass has after as many reductions.  While fixup_addresses works, *)
(* Patched says that the operands it has done are stored as the second     *)
(* pass stores them.  When main checks the limit, the three together are   *)
(* the image.                                                              *)
(***************************************************************************)
EXTENDS AssemblerRefinement, Assembler_proofs

-----------------------------------------------------------------------------
(* mem_type: the bytes of blocks. *)

Kinds == {"code", "db", "ds", "dw"}

Run(b) == [j \in 1 .. b.count |-> b.type]

LEMMA RunType ==
  ASSUME NEW b \in Blocks
  PROVE  Run(b) \in Seq(Kinds) /\ Len(Run(b)) = b.count
  <1>1. b.count \in Nat /\ b.type \in Kinds
    BY DEF Blocks, Kinds
  <1>. QED
    BY <1>1 DEF Run

LEMMA ExpandIs ==
  ASSUME NEW m \in Seq(Blocks)
  PROVE  \E runs \in Seq(Seq(Kinds)) :
           /\ Expand(m) = FlattenSeq(runs)
           /\ Len(runs) = Len(m)
           /\ \A i \in 1 .. Len(m) : runs[i] = Run(m[i])
  <1> DEFINE runs == [i \in 1 .. Len(m) |-> Run(m[i])]
             K == Seq(Kinds)
  <1>1. Len(m) \in Nat /\ DOMAIN m = 1 .. Len(m) /\ \A i \in 1 .. Len(m) : m[i] \in Blocks
    OBVIOUS
  <1>2. \A i \in 1 .. Len(m) : Run(m[i]) \in K
    BY <1>1, RunType
  <1>3. Expand(m) = FlattenSeq(runs)
    BY <1>1 DEF Expand, Run
  <1>4. runs \in Seq(K) /\ Len(runs) = Len(m) /\ \A i \in 1 .. Len(m) : runs[i] = Run(m[i])
    <2> HIDE DEF K
    <2>. QED
      BY <1>1, <1>2
  <1> HIDE DEF runs
  <1>. QED
    BY <1>3, <1>4

LEMMA ExpandEmpty == Expand(<<>>) = <<>>
  <1>1. [i \in DOMAIN <<>> |-> [j \in 1 .. <<>>[i].count |-> <<>>[i].type]] = <<>>
    OBVIOUS
  <1>. QED
    BY <1>1, FlattenEmpty DEF Expand

LEMMA ExpandAppend ==
  ASSUME NEW m \in Seq(Blocks), NEW b \in Blocks
  PROVE  /\ Expand(m) \in Seq(Kinds) /\ Len(Expand(m)) \in Nat
         /\ Expand(Append(m, b)) = Expand(m) \o Run(b)
         /\ Len(Expand(Append(m, b))) = Len(Expand(m)) + b.count
  <1>1. PICK r \in Seq(Seq(Kinds)) :
          /\ Expand(m) = FlattenSeq(r) /\ Len(r) = Len(m)
          /\ \A i \in 1 .. Len(m) : r[i] = Run(m[i])
    BY ExpandIs
  <1> DEFINE n == Append(m, b)
             x == Run(b)
             t == Append(r, x)
  <1>2. n \in Seq(Blocks) /\ Len(n) = Len(m) + 1 /\ n[Len(m) + 1] = b /\ Len(m) \in Nat
        /\ \A i \in 1 .. Len(m) : n[i] = m[i]
    OBVIOUS
  <1>3. PICK s \in Seq(Seq(Kinds)) :
          /\ Expand(n) = FlattenSeq(s) /\ Len(s) = Len(n)
          /\ \A i \in 1 .. Len(n) : s[i] = Run(n[i])
    BY <1>2, ExpandIs
  <1>4. x \in Seq(Kinds) /\ Len(x) = b.count
    BY RunType
  <1>5. s = t
    <2> DEFINE K == Seq(Kinds)
    <2>1. r \in Seq(K) /\ s \in Seq(K) /\ x \in K
      BY <1>4
    <2> HIDE DEF K, n, x
    <2>2. t \in Seq(K) /\ Len(t) = Len(r) + 1 /\ t[Len(r) + 1] = x
          /\ \A i \in 1 .. Len(r) : t[i] = r[i]
      BY <2>1
    <2>3. s[Len(m) + 1] = x
      BY <1>2, <1>3 DEF x
    <2>4. \A i \in 1 .. Len(m) : s[i] = r[i]
      BY <1>1, <1>2, <1>3
    <2>5. Len(s) = Len(t) /\ \A i \in 1 .. Len(s) : s[i] = t[i]
      BY <1>1, <1>2, <1>3, <2>2, <2>3, <2>4
    <2> HIDE DEF t
    <2>. QED
      BY <2>1, <2>2, <2>5, SameSequence
  <1>6. FlattenSeq(t) = FlattenSeq(r) \o x
    <2> HIDE DEF x
    <2>. QED
      BY <1>4, FlattenAppend
  <1>7. FlattenSeq(r) \in Seq(Kinds)
    BY FlattenType
  <1> DEFINE y == FlattenSeq(r)
  <1>8. Len(y \o x) = Len(y) + Len(x) /\ Len(y) \in Nat
    <2>1. y \in Seq(Kinds) /\ x \in Seq(Kinds)
      BY <1>4, <1>7
    <2> HIDE DEF x, y
    <2>. QED
      BY <2>1
  <1>9. Expand(n) = y \o x /\ Expand(m) = y
    BY <1>1, <1>3, <1>5, <1>6
  <1> HIDE DEF n, x, y, t
  <1>10. Len(Expand(n)) = Len(Expand(m)) + b.count /\ Len(Expand(m)) \in Nat
    BY <1>4, <1>8, <1>9
  <1>. QED
    BY <1>7, <1>9, <1>10 DEF n, x, y

\* A longer last block.
LEMMA ExpandLonger ==
  ASSUME NEW m \in Seq(Blocks), NEW old \in Blocks, NEW new \in Blocks,
         new.type = old.type, new.count >= old.count,
         NEW x, x = Expand(Append(m, old)), NEW y, y = Expand(Append(m, new))
  PROVE  /\ x \in Seq(Kinds) /\ y \in Seq(Kinds)
         /\ Len(y) = Len(x) + (new.count - old.count)
         /\ \A p \in 1 .. Len(y) : y[p] = IF p <= Len(x) THEN x[p] ELSE new.type
  <1> DEFINE z == Expand(m)
             u == Run(old)
             v == Run(new)
  <1>1. z \in Seq(Kinds) /\ x = z \o u /\ y = z \o v
    BY ExpandAppend
  <1>2. u \in Seq(Kinds) /\ v \in Seq(Kinds) /\ Len(u) = old.count /\ Len(v) = new.count
    BY RunType
  <1>3. new.count \in Nat /\ old.count \in Nat
    BY DEF Blocks
  <1>4. /\ \A j \in 1 .. old.count : u[j] = new.type
        /\ \A j \in 1 .. new.count : v[j] = new.type
    BY DEF Run
  <1> HIDE DEF z, u, v
  <1>5. /\ x \in Seq(Kinds) /\ y \in Seq(Kinds) /\ Len(z) \in Nat
        /\ Len(x) = Len(z) + old.count /\ Len(y) = Len(z) + new.count
    <2>0. z \in Seq(Kinds) /\ u \in Seq(Kinds) /\ v \in Seq(Kinds)
      BY <1>1, <1>2
    <2>1. z \o u \in Seq(Kinds) /\ Len(z \o u) = Len(z) + Len(u)
      BY <2>0
    <2>2. z \o v \in Seq(Kinds) /\ Len(z \o v) = Len(z) + Len(v)
      BY <2>0
    <2>3. Len(z) \in Nat
      BY <1>1
    <2>. QED
      BY <1>1, <1>2, <2>1, <2>2, <2>3
  <1>6. ASSUME NEW p \in 1 .. Len(y)
        PROVE  y[p] = IF p <= Len(x) THEN x[p] ELSE new.type
    <2>1. CASE p <= Len(z)
      BY <1>1, <1>2, <1>3, <1>5, <2>1
    <2>2. CASE ~(p <= Len(z))
      <3> DEFINE j == p - Len(z)
      <3>1. j \in 1 .. new.count /\ p = Len(z) + j
        BY <1>3, <1>5, <2>2
      <3>2. y[p] = v[j] /\ (p <= Len(x) => j \in 1 .. old.count /\ x[p] = u[j])
        BY <1>1, <1>2, <1>3, <1>5, <3>1
      <3> HIDE DEF j
      <3>. QED
        BY <1>4, <3>1, <3>2
    <2>. QED
      BY <2>1, <2>2
  <1>7. Len(y) = Len(x) + (new.count - old.count)
    BY <1>3, <1>5
  <1>. QED
    BY <1>5, <1>6, <1>7

\* Closing a statement's bytes into the blocks adds exactly these bytes.
LEMMA AccountTiles ==
  ASSUME IInv, NEW type \in Kinds, NEW size \in Nat, size >= last_size, Account(type, size),
         Len(Expand(mem_type)) = last_size
  PROVE  /\ Len(Expand(mem_type')) = size /\ Expand(mem_type') \in Seq(Kinds)
         /\ \A p \in 1 .. size :
              Expand(mem_type')[p] = IF p <= last_size THEN Expand(mem_type)[p] ELSE type
  <1>1. mem_type \in Seq(Blocks) /\ last_size \in Nat
    BY DEF IInv, TypeOK
  <1>2. CASE mem_type = <<>> \/ mem_type[Len(mem_type)].type # type
    <2> DEFINE b == [type |-> type, count |-> size - last_size]
               x == Expand(mem_type)
               y == Expand(mem_type')
               u == Run(b)
    <2>1. mem_type' = Append(mem_type, b) /\ b \in Blocks /\ b.count = size - last_size /\ b.type = type
      BY <1>1, <1>2 DEF Account, Blocks, Kinds
    <2>2. \A j \in 1 .. size - last_size : u[j] = type
      BY DEF Run
    <2> HIDE DEF b
    <2>3. x \in Seq(Kinds) /\ y = x \o u
      BY <1>1, <2>1, ExpandAppend
    <2>4. u \in Seq(Kinds) /\ Len(u) = size - last_size
      BY <2>1, RunType
    <2> HIDE DEF x, y, u
    <2>5. y \in Seq(Kinds) /\ Len(y) = size /\ Len(x) = last_size
      <3>0. x \in Seq(Kinds) /\ u \in Seq(Kinds)
        BY <2>3, <2>4
      <3>1. x \o u \in Seq(Kinds) /\ Len(x \o u) = Len(x) + Len(u)
        BY <3>0
      <3>2. Len(x) = last_size
        BY DEF x
      <3>. QED
        BY <1>1, <2>3, <2>4, <3>1, <3>2
    <2>6. ASSUME NEW p \in 1 .. size
          PROVE  y[p] = IF p <= last_size THEN x[p] ELSE type
      <3>1. CASE p <= last_size
        BY <1>1, <2>3, <2>4, <2>5, <3>1
      <3>2. CASE ~(p <= last_size)
        <4> DEFINE j == p - last_size
        <4>1. j \in 1 .. size - last_size /\ p = last_size + j
          BY <1>1, <3>2
        <4>2. y[p] = u[j]
          BY <1>1, <2>3, <2>4, <2>5, <4>1
        <4>. QED
          BY <2>2, <3>2, <4>1, <4>2 DEF u, b
      <3>. QED
        BY <3>1, <3>2
    <2>. QED
      BY <2>5, <2>6 DEF x, y
  <1>3. CASE ~(mem_type = <<>> \/ mem_type[Len(mem_type)].type # type)
    <2> DEFINE n == Len(mem_type)
               old == mem_type[n]
               sum == old.count + size - last_size
               new == [old EXCEPT !.count = sum]
    <2>1. mem_type # <<>> /\ old \in Blocks /\ old.type = type
      BY <1>1, <1>3
    <2>2. mem_type' = [mem_type EXCEPT ![n] = new]
      BY <1>3 DEF Account
    <2> HIDE DEF old
    <2>3. sum \in Nat /\ old.count \in Nat /\ sum - old.count = size - last_size /\ sum >= old.count
      BY <2>1, <1>1, SMT DEF Blocks
    <2> HIDE DEF sum
    <2>4. new \in Blocks /\ new.count = sum /\ new.type = type
      BY <2>1, <2>3, SMT DEF Blocks
    <2> HIDE DEF new
    <2> DEFINE front == SubSeq(mem_type, 1, n - 1)
    <2>5. /\ front \in Seq(Blocks) /\ mem_type = Append(front, mem_type[n])
          /\ [mem_type EXCEPT ![n] = new] = Append(front, new)
      BY <1>1, <2>1, <2>4, LastChanged
    <2> HIDE DEF front
    <2>6. mem_type = Append(front, old) /\ mem_type' = Append(front, new)
      BY <2>2, <2>5 DEF old
    <2> DEFINE x == Expand(mem_type)
               y == Expand(mem_type')
    <2>7. /\ y \in Seq(Kinds) /\ Len(y) = Len(x) + (sum - old.count)
          /\ \A p \in 1 .. Len(y) : y[p] = IF p <= Len(x) THEN x[p] ELSE type
      <3>1. x = Expand(Append(front, old)) /\ y = Expand(Append(front, new))
        BY <2>6
      <3> HIDE DEF x, y
      <3>2. front \in Seq(Blocks) /\ new.type = old.type /\ new.count >= old.count
        BY <2>1, <2>3, <2>4, <2>5
      <3>3. /\ y \in Seq(Kinds) /\ Len(y) = Len(x) + (new.count - old.count)
            /\ \A p \in 1 .. Len(y) : y[p] = IF p <= Len(x) THEN x[p] ELSE new.type
        BY <2>1, <2>4, <3>1, <3>2, ExpandLonger
      <3>. QED
        BY <2>4, <3>3
    <2>8. Len(x) = last_size
      OBVIOUS
    <2> HIDE DEF x, y
    <2>9. Len(y) = size
      BY <1>1, <2>3, <2>7, <2>8
    <2>. QED
      BY <2>7, <2>8, <2>9 DEF x, y
  <1>. QED
    BY <1>2, <1>3

-----------------------------------------------------------------------------
(* The invariant: between statements nothing is left out, and a list under *)
(* way is a DB's or a DW's.                                                *)

Tiled ==
  /\ Len(Expand(mem_type)) = last_size
  /\ phase \in {"line", "body"} =>
       IF item = 0 THEN last_size = Size
       ELSE line <= Len(source) /\ Body.k \in {"db", "dw"}
  /\ phase \in {"equ", "check", "done"} \cup Patching => last_size = Size

LEMMA StatementTiles ==
  ASSUME IInv, Tiled, NEW type \in Kinds, NEW size \in Nat, size >= Size,
         Account(type, size), NextLine, Size' = size
  PROVE  Tiled'
  <1>1. size >= last_size
    BY SizeIsNat DEF IInv, TypeOK, Accounted
  <1>2. Len(Expand(mem_type')) = size
    BY <1>1, AccountTiles DEF Tiled
  <1>3. last_size' = size
    BY DEF Account
  <1>. QED
    BY <1>2, <1>3 DEF NextLine, Tiled, Patching

LEMMA PatchKeepsSize ==
  ASSUME IInv, PatchRel \/ PatchByte \/ PatchWord
  PROVE  Len(memory') = Len(memory)
  <1>1. memory \in Seq(Byte)
    BY DEF IInv, TypeOK
  <1>2. ASSUME NEW a, NEW v PROVE Len([memory EXCEPT ![a] = v]) = Len(memory)
    BY <1>1
  <1>3. ASSUME NEW a, NEW v, NEW b, NEW w
        PROVE  Len([memory EXCEPT ![a] = v, ![b] = w]) = Len(memory)
    BY <1>1
  <1>4. CASE PatchRel
    <2>1. PICK a : memory' = [memory EXCEPT ![a + 1] = RelOffset(a) % ByteSize]
                   \/ memory' = memory
      BY <1>4 DEF PatchRel
    <2> DEFINE v == RelOffset(a) % ByteSize
    <2> HIDE DEF v
    <2>. QED
      BY <1>2, <2>1 DEF v
  <1>5. CASE PatchByte
    <2>1. PICK a : memory' = [memory EXCEPT ![a + 1] =
                     (IF byte_expr[a].op = "-" THEN -Result ELSE Result) % ByteSize]
      BY <1>5 DEF PatchByte
    <2>. QED
      BY <1>2, <2>1
  <1>6. CASE PatchWord
    <2>1. PICK a : memory' = [memory EXCEPT ![a + 1] = Result % ByteSize,
                                            ![a + 2] = Result \div ByteSize]
      BY <1>6 DEF PatchWord
    <2>. QED
      BY <1>3, <2>1
  <1>. QED
    BY <1>4, <1>5, <1>6

LEMMA TiledStep == IInv /\ Tiled /\ [Next]_vars => Tiled'
  <1> SUFFICES ASSUME IInv, Tiled, [Next]_vars PROVE Tiled'
    OBVIOUS
  <1>1. CASE AccountCode \/ AccountDb \/ AccountDw
    <2>1. NextLine /\ Size' = Size /\ \E type \in Kinds : Account(type, Size)
      BY <1>1 DEF AccountCode, AccountDb, AccountDw, Kinds, Size
    <2>. QED
      BY <2>1, SizeIsNat, StatementTiles
  <1>2. CASE ReserveDs
    <2> DEFINE n == Body.literal % WordSize
    <2>1. n \in Nat
      <3>1. Body.literal \in Nat
        BY <1>2, CurrentBody DEF ReserveDs, AtBody, IsBody
      <3>2. n \in Word
        BY <3>1, ResidueType
      <3>. QED
        BY <3>2, Widths DEF Word
    <2>2. memory' = memory \o Zeros(n) /\ Account("ds", Size + n) /\ NextLine
      BY <1>2 DEF ReserveDs
    <2> HIDE DEF n
    <2>3. Size' = Size + n
      BY <2>1, <2>2, ZerosType DEF IInv, TypeOK, Size
    <2>4. Size + n \in Nat /\ Size + n >= Size /\ "ds" \in Kinds
      BY <2>1, SizeIsNat DEF Kinds
    <2>. QED
      BY <2>2, <2>3, <2>4, StatementTiles
  <1>3. CASE PushOpcode
    <2>1. phase' \in {"opcode", "error"} /\ mem_type' = mem_type /\ last_size' = last_size
      BY <1>3 DEF PushOpcode, Fail
    <2>. QED
      BY <2>1 DEF Tiled, Patching
  <1>4. CASE PushDbItem \/ PushDwItem
    <2>1. /\ phase' = "error" \/ (phase' = phase /\ item' = item + 1 /\ line' = line)
          /\ phase \in {"line", "body"} /\ line <= Len(source) /\ Body.k \in {"db", "dw"}
          /\ mem_type' = mem_type /\ last_size' = last_size /\ source' = source
      BY <1>4 DEF PushDbItem, PushDwItem, Fail, AtBody, input
    <2>2. item + 1 # 0
      BY DEF IInv, TypeOK
    <2>. QED
      BY <2>1, <2>2 DEF Tiled, Patching, Body
  <1>5. CASE \/ DefineLabel \/ EmptyLine \/ RejectLine \/ CallEqu \/ SetOrg \/ StartFixups
             \/ ReturnEqu
    <2>1. /\ mem_type' = mem_type /\ last_size' = last_size /\ Size' = Size
          /\ source' = source
      BY <1>5 DEF DefineLabel, EmptyLine, RejectLine, CallEqu, SetOrg, StartFixups, ReturnEqu,
         program, Size, input
    <2>2. \/ phase' = "error"
          \/ DefineLabel /\ phase = "line" /\ phase' = "body" /\ line' = line /\ item' = item
          \/ /\ phase' \in {"line", "equ", "rel"}
             /\ phase' = "line" => item' = 0
             /\ \/ phase = "equ"
                \/ phase \in {"line", "body"} /\ (item # 0 => line > Len(source)
                                                            \/ Body.k \notin {"db", "dw"})
      BY <1>5 DEF DefineLabel, EmptyLine, RejectLine, CallEqu, SetOrg, StartFixups, ReturnEqu,
         NextLine, Fail, AtBody
    <2>3. line > Len(source) => ~(line <= Len(source))
      BY SourceAssumption DEF IInv, TypeOK, IsSource
    <2>. QED
      BY <2>1, <2>2, <2>3 DEF Tiled, Patching, Body
  <1>6. CASE Evaluating
    <2>1. /\ mem_type' = mem_type /\ last_size' = last_size /\ Size' = Size
          /\ source' = source
          /\ phase' \in {"error", "undefined"} \/ UNCHANGED <<phase, line, item>>
      BY <1>6 DEF Evaluating, PushNumber, PushName, Negate, BinaryOp, SyntaxError,
         ReturnNothing, Fail, Step, program, input, Size
    <2>. QED
      BY <2>1 DEF Tiled, Patching, Body
  <1>7. CASE PatchRel \/ PatchByte \/ PatchWord
    <2>1. Len(memory') = Len(memory)
      BY <1>7, PatchKeepsSize
    <2>2. /\ mem_type' = mem_type /\ last_size' = last_size
          /\ phase \in Patching /\ phase' \in {phase, "error"}
      BY <1>7 DEF PatchRel, PatchByte, PatchWord, Patching
    <2>. QED
      BY <2>1, <2>2 DEF Tiled, Patching, Size
  <1>8. CASE NextLoop \/ CheckLimit
    <2>1. /\ mem_type' = mem_type /\ last_size' = last_size /\ Size' = Size
          /\ phase \in Patching \cup {"check"}
          /\ phase' \in {"byte", "word", "check", "error", "done"}
      BY <1>8 DEF NextLoop, CheckLimit, Patching, program, Size
    <2>. QED
      BY <2>1 DEF Tiled, Patching
  <1>9. CASE UNCHANGED vars
    BY <1>9 DEF vars, Tiled, Size, Body
  <1>. QED
    BY <1>1, <1>2, <1>3, <1>4, <1>5, <1>6, <1>7, <1>8, <1>9
    DEF Next, Parsing, FixingUp, Ended

\* The blocks add up to the memory: what dump walks is what there is.
THEOREM Tiles == Spec => []BlocksTile
  <1>1. Init => Tiled
    BY ExpandEmpty DEF Init, Fresh, Tiled, Size, Patching
  <1>2. IInv /\ Tiled => BlocksTile
    BY DEF IInv, Accounted, Tiled, BlocksTile, Patching
  <1>. QED
    BY <1>1, <1>2, TiledStep, Invariance, PTL DEF Spec

-----------------------------------------------------------------------------
(* Where everything stands. *)

LEMMA SourceIs ==
  ASSUME source \in Sources
  PROVE  /\ Len(source) \in Nat /\ Abstract!Lines = 1 .. Len(source)
         /\ \A i \in Abstract!Lines :
              /\ Abstract!Body(i) = source[i].body /\ IsBody(source[i].body)
              /\ source[i].label \in Names \cup {NoName}
              /\ source[i].body.k \in {"equ", "org"} => source[i].label = NoName
  <1>1. IsSource(source)
    BY SourceAssumption
  <1>. QED
    BY <1>1 DEF IsSource, Abstract!Lines, Abstract!Body

LEMMA LineLengthIs ==
  ASSUME NEW i
  PROVE  LET b == source[i].body IN
         /\ b.k = "opcode" => Abstract!Length(i) = Len(b.form.bytes)
         /\ b.k = "db" =>
              Abstract!Length(i) = Abstract!SumOver(Abstract!ItemLengths(b.items), DOMAIN b.items)
         /\ b.k = "ds" => Abstract!Length(i) = b.literal % WordSize
         /\ b.k = "dw" => Abstract!Length(i) = 2 * Len(b.items)
         /\ b.k \notin {"opcode", "db", "ds", "dw"} => Abstract!Length(i) = 0
  BY DEF Abstract!Length, Abstract!Body

LEMMA SumIs ==
  ASSUME NEW f, NEW S
  PROVE  Abstract!SumOver(f, S) = SumOf(f, S)
  BY DEF Abstract!SumOver, SumOf, Abstract!MapThenSumSet, Abstract!MapThenFoldSet, MapThenSumSet,
     MapThenFoldSet

LEMMA FlattenSeqIs ==
  ASSUME NEW s
  PROVE  Abstract!FlattenSeq(s) = FlattenSeq(s)
  BY DEF Abstract!FlattenSeq, FlattenSeq

\* The elements of a DB: their bytes, and where they begin in the line.
ItemBytes(items) ==
  [j \in DOMAIN items |-> IF items[j].k = "string" THEN items[j].str ELSE <<0>>]
ItemAt(items, j) == Abstract!SumOver(Abstract!ItemLengths(items), 1 .. j - 1)
ItemOffsets(items) == [j \in 1 .. Len(items) + 1 |-> ItemAt(items, j)]

LEMMA DbItemIs ==
  ASSUME NEW items \in Seq(DbItem)
  PROVE  /\ Len(items) \in Nat /\ DOMAIN items = 1 .. Len(items)
         /\ \A j \in 1 .. Len(items) :
              /\ items[j] \in DbItem
              /\ items[j].k \in {"string", "expr"}
              /\ items[j].k = "string" => items[j].str \in Seq(Byte)
              /\ items[j].k = "expr" => items[j].expr \in Expr
  <1> DEFINE D == DbItem
  <1>1. Len(items) \in Nat /\ DOMAIN items = 1 .. Len(items) /\ \A j \in 1 .. Len(items) : items[j] \in D
    <2>1. items \in Seq(D)
      OBVIOUS
    <2> HIDE DEF D
    <2>. QED
      BY <2>1
  <1>2. ASSUME NEW x \in D
        PROVE  /\ x.k \in {"string", "expr"}
               /\ x.k = "string" => x.str \in Seq(Byte)
               /\ x.k = "expr" => x.expr \in Expr
    BY DEF DbItem
  <1>. QED
    BY <1>1, <1>2

LEMMA ItemBytesAre ==
  ASSUME NEW items \in Seq(DbItem)
  PROVE  /\ ItemBytes(items) \in Seq(Seq(Byte)) /\ Len(ItemBytes(items)) = Len(items)
         /\ \A j \in 1 .. Len(items) :
              /\ ItemBytes(items)[j] = IF items[j].k = "string" THEN items[j].str ELSE <<0>>
              /\ Abstract!ItemLengths(items)[j] = Len(ItemBytes(items)[j])
  <1> DEFINE U == Seq(Byte)
             B(j) == IF items[j].k = "string" THEN items[j].str ELSE <<0>>
  <1>1. Len(items) \in Nat /\ DOMAIN items = 1 .. Len(items)
    BY DbItemIs
  <1>2. \A j \in 1 .. Len(items) : B(j) \in U
    <2>1. <<0>> \in U
      BY Widths DEF Byte
    <2>. QED
      BY <2>1, DbItemIs
  <1>3. ItemBytes(items) = [j \in 1 .. Len(items) |-> B(j)]
    BY <1>1 DEF ItemBytes
  <1>4. \A j \in 1 .. Len(items) : Abstract!ItemLengths(items)[j] = Len(B(j))
    <2> SUFFICES ASSUME NEW j \in 1 .. Len(items) PROVE Abstract!ItemLengths(items)[j] = Len(B(j))
      OBVIOUS
    <2>1. Abstract!ItemLengths(items)[j] = IF items[j].k = "string" THEN Len(items[j].str) ELSE 1
      BY <1>1 DEF Abstract!ItemLengths, Abstract!ItemLength
    <2>2. Len(<<0>>) = 1
      OBVIOUS
    <2>. QED
      BY <2>1, <2>2, Zenon
  <1> HIDE DEF U, B
  <1>5. ItemBytes(items) \in Seq(U) /\ Len(ItemBytes(items)) = Len(items)
        /\ \A j \in 1 .. Len(items) : ItemBytes(items)[j] = B(j)
    BY <1>1, <1>2, <1>3
  <1>. QED
    BY <1>4, <1>5 DEF U, B

LEMMA ItemOffsetsAre ==
  ASSUME NEW items \in Seq(DbItem)
  PROVE  Offsets(ItemOffsets(items), ItemBytes(items))
  <1> DEFINE f == Abstract!ItemLengths(items)
             L == Len(items)
             off == ItemOffsets(items)
             s == ItemBytes(items)
  <1>1. L \in Nat /\ Len(s) = L /\ s \in Seq(Seq(Byte)) /\ \A j \in 1 .. L : f[j] = Len(s[j])
    BY DbItemIs, ItemBytesAre
  <1>2. \A j \in 1 .. L : f[j] \in Nat
    <2> DEFINE U == Seq(Byte)
    <2>1. s \in Seq(U)
      BY <1>1
    <2> HIDE DEF s, f
    <2>2. \A j \in 1 .. L : s[j] \in U
      <3> HIDE DEF U
      <3>. QED
        BY <1>1, <2>1
    <2>. QED
      BY <1>1, <2>2
  <1>3. \A j \in 1 .. L + 1 : off[j] = SumOf(f, 1 .. j - 1)
    BY SumIs DEF ItemOffsets, ItemAt
  <1> HIDE DEF f, s, off, L
  <1>4. off[1] = 0
    <2>1. 1 .. 1 - 1 = {}
      OBVIOUS
    <2>. QED
      BY <1>1, <1>3, <2>1, SumOfEmpty
  <1>5. ASSUME NEW j \in 1 .. L
        PROVE  off[j] \in Nat /\ off[j + 1] = off[j] + f[j]
    <2> DEFINE n == j - 1
    <2>1. n \in Nat /\ n + 1 = j /\ (j + 1) - 1 = j /\ j \in 1 .. L + 1 /\ j + 1 \in 1 .. L + 1
      BY <1>1
    <2>2. \A i \in 1 .. n + 1 : f[i] \in Nat /\ f[i] \in Int
      BY <1>1, <1>2, <2>1
    <2>3. off[j] = SumOf(f, 1 .. n) /\ off[j + 1] = SumOf(f, 1 .. n + 1)
      BY <1>3, <2>1
    <2>4. SumOf(f, 1 .. n) \in Nat
      BY <2>1, <2>2, SumToType
    <2>5. SumOf(f, 1 .. n + 1) = SumOf(f, 1 .. n) + f[n + 1]
      BY <2>1, <2>2, SumToNext
    <2> HIDE DEF n
    <2>. QED
      BY <2>1, <2>3, <2>4, <2>5
  <1>. QED
    BY <1>1, <1>4, <1>5 DEF Offsets, f, s, off, L

\* A line's bytes before its operands are known.
LEMMA SkeletonType ==
  ASSUME source \in Sources, NEW i \in Abstract!Lines
  PROVE  /\ Abstract!Skeleton(i) \in Seq(Byte) /\ Abstract!Length(i) \in Nat
         /\ Len(Abstract!Skeleton(i)) = Abstract!Length(i)
  <1> DEFINE b == source[i].body
             n == Abstract!Length(i)
  <1>1. IsBody(b) /\ Abstract!Body(i) = b
    BY SourceIs
  <1>2. CASE b.k = "opcode"
    <2>1. b.form.bytes \in Seq(Byte)
      BY <1>1, <1>2 DEF IsBody, IsTemplate
    <2>2. Abstract!Skeleton(i) = b.form.bytes /\ n = Len(b.form.bytes)
      BY <1>1, <1>2, LineLengthIs DEF Abstract!Skeleton
    <2>. QED
      BY <2>1, <2>2
  <1>3. CASE b.k = "db"
    <2> DEFINE items == b.items
    <2>1. items \in Seq(DbItem)
      BY <1>1, <1>3 DEF IsBody
    <2>2. Abstract!Skeleton(i) = FlattenSeq(ItemBytes(items))
      BY <1>1, <1>3, FlattenSeqIs DEF Abstract!Skeleton, ItemBytes
    <2>3. n = Abstract!SumOver(Abstract!ItemLengths(items), DOMAIN items)
      BY <1>3, LineLengthIs
    <2> HIDE DEF items, n, b
    <2>4. Len(items) \in Nat /\ DOMAIN items = 1 .. Len(items) /\ Len(items) + 1 \in 1 .. Len(items) + 1
          /\ (Len(items) + 1) - 1 = Len(items)
      BY <2>1, DbItemIs
    <2>5. ItemOffsets(items)[Len(items) + 1] = n
      BY <2>3, <2>4 DEF ItemOffsets, ItemAt
    <2>6. /\ FlattenSeq(ItemBytes(items)) \in Seq(Byte)
          /\ MadeBy(FlattenSeq(ItemBytes(items)), Len(ItemBytes(items)), ItemBytes(items), ItemOffsets(items))
      BY <2>1, ItemBytesAre, ItemOffsetsAre, FlattenAt
    <2>7. Len(FlattenSeq(ItemBytes(items))) = n
      BY <2>1, <2>5, <2>6, ItemBytesAre DEF MadeBy
    <2>. QED
      BY <2>2, <2>6, <2>7 DEF n
  <1>4. CASE b.k \notin {"opcode", "db"}
    <2>1. n \in Nat
      <3>1. CASE b.k = "ds"
        <4>1. b.literal \in Nat
          BY <1>1, <3>1 DEF IsBody
        <4>. QED
          BY <3>1, <4>1, LineLengthIs, ResidueType DEF Word
      <3>2. CASE b.k = "dw"
        <4>1. b.items \in Seq(Expr)
          BY <1>1, <3>2 DEF IsBody
        <4> DEFINE E == Expr
        <4> HIDE DEF E
        <4>2. b.items \in Seq(E)
          BY <4>1 DEF E
        <4>3. Len(b.items) \in Nat
          BY <4>2
        <4>. QED
          BY <3>2, <4>3, LineLengthIs
      <3>3. CASE b.k \notin {"ds", "dw"}
        BY <1>4, <3>3, LineLengthIs
      <3>. QED
        BY <3>1, <3>2, <3>3
    <2>2. Abstract!Skeleton(i) = [j \in 1 .. n |-> 0]
      BY <1>1, <1>4 DEF Abstract!Skeleton
    <2>3. 0 \in Byte
      BY Widths DEF Byte
    <2> HIDE DEF n
    <2>. QED
      BY <2>1, <2>2, <2>3 DEF n
  <1>. QED
    BY <1>2, <1>3, <1>4

Skeletons == [i \in Abstract!Lines |-> Abstract!Skeleton(i)]
LineOffsets == [i \in 1 .. Len(source) + 1 |-> Abstract!Start(i)]

LEMMA LineOffsetsAre ==
  ASSUME source \in Sources
  PROVE  /\ Skeletons \in Seq(Seq(Byte)) /\ Len(Skeletons) = Len(source)
         /\ Offsets(LineOffsets, Skeletons)
  <1> DEFINE N == Len(source)
             U == Seq(Byte)
             f == [j \in Abstract!Lines |-> Abstract!Length(j)]
  <1>1. N \in Nat /\ Abstract!Lines = 1 .. N
    BY SourceIs
  <1>2. Skeletons \in Seq(U) /\ Len(Skeletons) = N /\ \A i \in 1 .. N : Skeletons[i] = Abstract!Skeleton(i)
    <2>1. \A i \in 1 .. N : Abstract!Skeleton(i) \in U
      BY <1>1, SkeletonType
    <2>2. Skeletons = [i \in 1 .. N |-> Abstract!Skeleton(i)]
      BY <1>1 DEF Skeletons
    <2> HIDE DEF U, N
    <2>. QED
      BY <1>1, <2>1, <2>2
  <1>3. \A i \in 1 .. N : f[i] \in Nat /\ f[i] \in Int /\ f[i] = Len(Skeletons[i])
    BY <1>1, <1>2, SkeletonType
  <1>4. \A i \in 1 .. N + 1 : LineOffsets[i] = SumOf(f, 1 .. i - 1)
    BY SumIs DEF LineOffsets, Abstract!Start
  <1> HIDE DEF f, N
  <1>5. LineOffsets[1] = 0
    <2>1. 1 .. 1 - 1 = {}
      OBVIOUS
    <2>. QED
      BY <1>1, <1>4, <2>1, SumOfEmpty
  <1>6. ASSUME NEW j \in 1 .. N
        PROVE  LineOffsets[j] \in Nat /\ LineOffsets[j + 1] = LineOffsets[j] + f[j]
    <2> DEFINE n == j - 1
    <2>1. n \in Nat /\ n + 1 = j /\ (j + 1) - 1 = j /\ j \in 1 .. N + 1 /\ j + 1 \in 1 .. N + 1
      BY <1>1
    <2>2. \A i \in 1 .. n + 1 : f[i] \in Nat /\ f[i] \in Int
      BY <1>1, <1>3, <2>1
    <2>3. LineOffsets[j] = SumOf(f, 1 .. n) /\ LineOffsets[j + 1] = SumOf(f, 1 .. n + 1)
      BY <1>4, <2>1
    <2>4. SumOf(f, 1 .. n) \in Nat
      BY <2>1, <2>2, SumToType
    <2>5. SumOf(f, 1 .. n + 1) = SumOf(f, 1 .. n) + f[n + 1]
      BY <2>1, <2>2, SumToNext
    <2> HIDE DEF n
    <2>. QED
      BY <2>1, <2>3, <2>4, <2>5
  <1>. QED
    BY <1>2, <1>3, <1>5, <1>6 DEF Offsets, N

LEMMA StartIs ==
  ASSUME source \in Sources
  PROVE  /\ Abstract!Start(1) = 0
         /\ \A i \in 1 .. Len(source) + 1 : Abstract!Start(i) \in Nat
         /\ \A i \in Abstract!Lines :
              /\ Abstract!Length(i) \in Nat
              /\ Abstract!Start(i + 1) = Abstract!Start(i) + Abstract!Length(i)
  <1> DEFINE N == Len(source)
  <1>1. N \in Nat /\ Abstract!Lines = 1 .. N
    BY SourceIs
  <1>2. \A i \in 1 .. N + 1 : LineOffsets[i] = Abstract!Start(i) /\ LineOffsets[i] \in Nat
    BY LineOffsetsAre, OffsetsGrow DEF LineOffsets
  <1>3. \A i \in 1 .. N : LineOffsets[i + 1] = LineOffsets[i] + Abstract!Length(i) /\ Abstract!Length(i) \in Nat
    BY <1>1, LineOffsetsAre, SkeletonType DEF Offsets, Skeletons
  <1> HIDE DEF N
  <1>4. 1 \in 1 .. N + 1 /\ \A i \in 1 .. N : i \in 1 .. N + 1 /\ i + 1 \in 1 .. N + 1
    BY <1>1
  <1>. QED
    BY <1>1, <1>2, <1>3, <1>4, LineOffsetsAre DEF Offsets, N

-----------------------------------------------------------------------------
(* What depends on the source alone stays what it is. *)

LEMMA SameText ==
  ASSUME source' = source
  PROVE  /\ Abstract!Lines' = Abstract!Lines
         /\ \A i : Abstract!Body(i)' = Abstract!Body(i)
         /\ \A i : Abstract!Length(i)' = Abstract!Length(i)
         /\ \A i : Abstract!OrgAt(i)' = Abstract!OrgAt(i)
         /\ \A k : Abstract!Is(k)' = Abstract!Is(k)
         /\ \A n : Abstract!LabelLines(n)' = Abstract!LabelLines(n)
         /\ \A n : Abstract!EquLines(n)' = Abstract!EquLines(n)
         /\ \A i : Abstract!KnownAt(i)' = Abstract!KnownAt(i)
  BY DEF Abstract!Lines, Abstract!Body, Abstract!Length, Abstract!OrgAt, Abstract!Is,
     Abstract!The, Abstract!LabelLines, Abstract!EquLines, Abstract!KnownAt

LEMMA SameStart ==
  ASSUME source' = source
  PROVE  \A i : Abstract!Start(i)' = Abstract!Start(i)
  <1>1. Abstract!Lines' = Abstract!Lines /\ \A i : Abstract!Length(i)' = Abstract!Length(i)
    BY SameText
  <1> DEFINE f == [j \in Abstract!Lines |-> Abstract!Length(j)]
  <1>2. f' = f
    BY <1>1
  <1>3. \A i : Abstract!Start(i) = Abstract!SumOver(f, 1 .. i - 1)
    BY DEF Abstract!Start
  <1>4. \A i : Abstract!Start(i)' = Abstract!SumOver(f', 1 .. i - 1)
    BY DEF Abstract!Start
  <1>. QED
    BY <1>2, <1>3, <1>4

-----------------------------------------------------------------------------
(* Where the parser is. *)

Lost == {"error", "undefined"}
Loading == {"line", "body", "opcode", "equ"}
After == Patching \cup {"check", "done"}

InText ==
  /\ line \in 1 .. Len(source) + 1
  /\ phase \in {"body", "opcode", "equ"} => line <= Len(source)
  /\ phase \in After => line = Len(source) + 1
  /\ phase = "opcode" => Body.k = "opcode"
  /\ phase = "equ" => Body.k = "equ"
  /\ phase \in {"line", "body"} /\ line <= Len(source) /\ Body.k \in {"db", "dw"} =>
       item <= Len(Body.items)
  /\ phase = "line" /\ line <= Len(source) /\ source[line].label # NoName => item = 0

\* The actions that end a line.
EndLine ==
  \/ EmptyLine \/ SetOrg \/ AccountCode \/ AccountDb \/ ReserveDs \/ AccountDw
  \/ ReturnEqu

LEMMA LineFrame ==
  ASSUME Next, phase' \notin Lost
  PROVE  /\ UNCHANGED input
         /\ \/ EndLine /\ NextLine
            \/ line' = line /\ ~EndLine
  <1>1. UNCHANGED input
    BY DEF Next, Parsing, DefineLabel, EmptyLine, RejectLine, CallEqu, SetOrg, PushOpcode,
         AccountCode, PushDbItem, AccountDb, ReserveDs, PushDwItem, AccountDw, StartFixups,
         Evaluating, PushNumber, PushName, Negate, BinaryOp, SyntaxError, ReturnNothing,
         ReturnEqu, FixingUp, PatchRel, PatchByte, PatchWord, NextLoop, CheckLimit, Ended,
         vars, input
  <1>2. CASE EndLine
    BY <1>2 DEF EndLine, EmptyLine, SetOrg, AccountCode, AccountDb, ReserveDs, AccountDw,
         ReturnEqu, Fail, Lost
  <1>3. CASE ~EndLine
    <2>1. \/ DefineLabel \/ RejectLine \/ CallEqu \/ PushOpcode \/ PushDbItem \/ PushDwItem
          \/ StartFixups \/ Evaluating \/ FixingUp \/ CheckLimit \/ Ended
      BY <1>3 DEF EndLine, Next, Parsing
    <2>2. line' = line
      BY <2>1 DEF DefineLabel, RejectLine, CallEqu, PushOpcode,
         PushDbItem, PushDwItem, StartFixups,
         Evaluating, PushNumber, PushName, Negate, BinaryOp, SyntaxError, ReturnNothing,
         FixingUp, PatchRel, PatchByte, PatchWord, NextLoop, CheckLimit, Ended,
         vars, Fail, Step
    <2>. QED
      BY <1>1, <1>3, <2>2
  <1>. QED
    BY <1>1, <1>2, <1>3

LEMMA LineEnding ==
  ASSUME IInv, InText, EndLine, NextLine
  PROVE  line \in Abstract!Lines /\ line' = line + 1 /\ line + 1 \in 1 .. Len(source) + 1
         /\ phase' = "line" /\ item' = 0
  <1>1. Len(source) \in Nat /\ Abstract!Lines = 1 .. Len(source)
    BY SourceIs DEF IInv, TypeOK
  <1>2. line <= Len(source)
    <2>1. CASE phase \in {"body", "opcode", "equ"}
      BY <2>1 DEF InText
    <2>2. CASE AtBody
      BY <2>2 DEF AtBody
    <2>. QED
      BY <2>1, <2>2 DEF EndLine, EmptyLine, SetOrg, AccountCode, AccountDb, ReserveDs,
         AccountDw, ReturnEqu
  <1>. QED
    BY <1>1, <1>2 DEF InText, NextLine

LEMMA InTextStep == IInv /\ InText /\ [Next]_vars => InText'
  <1> SUFFICES ASSUME IInv, InText, [Next]_vars PROVE InText'
    OBVIOUS
  <1>0. Len(source) \in Nat /\ item \in Nat /\ line \in Nat
    BY SourceIs DEF IInv, TypeOK
  <1>1. CASE UNCHANGED vars
    BY <1>1 DEF vars, InText, Body
  <1>2. CASE Next /\ phase' \in Lost
    <2>1. UNCHANGED <<source, line>>
      BY <1>2 DEF Next, Parsing, DefineLabel, EmptyLine, RejectLine, CallEqu, SetOrg, PushOpcode,
         AccountCode, PushDbItem, AccountDb, ReserveDs, PushDwItem, AccountDw, StartFixups,
         Evaluating, PushNumber, PushName, Negate, BinaryOp, SyntaxError, ReturnNothing,
         ReturnEqu, FixingUp, PatchRel, PatchByte, PatchWord, NextLoop, CheckLimit, Ended,
         vars, input, Fail, Step, NextLine, Lost
    <2>. QED
      BY <1>2, <2>1 DEF InText, Lost, After, Patching
  <1>3. CASE Next /\ EndLine /\ NextLine
    <2>1. line' \in 1 .. Len(source) + 1 /\ phase' = "line" /\ item' = 0 /\ source' = source
      BY <1>3, LineEnding DEF EndLine, EmptyLine, SetOrg, AccountCode, AccountDb, ReserveDs,
         AccountDw, ReturnEqu, input
    <2>2. line' <= Len(source) /\ Body'.k \in {"db", "dw"} => 0 <= Len(Body'.items)
      <3> SUFFICES ASSUME line' <= Len(source), Body'.k \in {"db", "dw"} PROVE 0 <= Len(Body'.items)
        OBVIOUS
      <3>1. Body' = source[line'].body /\ line' \in Abstract!Lines
        BY <1>0, <2>1, SourceIs DEF Body, IInv, TypeOK
      <3> DEFINE b == source[line'].body
      <3>2. IsBody(b)
        BY <3>1, SourceIs DEF IInv, TypeOK
      <3>3. b.items \in Seq(DbItem) \/ b.items \in Seq(Expr)
        <4> HIDE DEF b
        <4>1. b.k \in {"db", "dw"}
          BY <3>1 DEF b
        <4>. QED
          BY <3>2, <4>1 DEF IsBody
      <3> DEFINE items == b.items
      <3>4. Len(items) \in Nat
        <4> HIDE DEF items
        <4>1. ASSUME NEW T, items \in Seq(T) PROVE Len(items) \in Nat
          BY <4>1
        <4>. QED
          BY <3>3, <4>1 DEF items
      <3>. QED
        BY <3>1, <3>4
    <2>. QED
      BY <2>1, <2>2 DEF InText, After, Patching
  <1>4. CASE Next /\ line' = line /\ ~EndLine /\ phase' \notin Lost
    <2>1. source' = source /\ Body' = Body
      BY <1>4, LineFrame DEF input, Body
    <2>2. CASE PushDbItem \/ PushDwItem
      <3>1. /\ phase' = phase /\ item' = item + 1 /\ item < Len(Body.items)
            /\ phase = "body" \/ source[line].label = NoName
        BY <1>4, <2>2 DEF PushDbItem, PushDwItem, Fail, Lost, AtBody
      <3>2. Len(Body.items) \in Nat
        <4>1. IsBody(Body) /\ Body.k \in {"db", "dw"}
          BY <2>2, CurrentBody DEF PushDbItem, PushDwItem, AtBody
        <4>2. Body.items \in Seq(DbItem) \/ Body.items \in Seq(Expr)
          BY <4>1 DEF IsBody
        <4> DEFINE items == Body.items
        <4> HIDE DEF items
        <4>3. ASSUME NEW T, items \in Seq(T) PROVE Len(items) \in Nat
          BY <4>3
        <4>. QED
          BY <4>2, <4>3 DEF items
      <3>. QED
        BY <1>0, <1>4, <2>1, <3>1, <3>2 DEF InText
    <2>3. CASE StartFixups
      <3>1. phase' = "rel" /\ line > Len(source)
        BY <2>3 DEF StartFixups
      <3>. QED
        BY <1>0, <1>4, <2>1, <3>1 DEF InText
    <2>4. CASE DefineLabel \/ CallEqu \/ PushOpcode
      <3>1. /\ line <= Len(source) /\ item' = item /\ phase \in {"line", "body"}
            /\ \/ phase' = "body"
               \/ phase' = "equ" /\ Body.k = "equ"
               \/ phase' = "opcode" /\ Body.k = "opcode"
        BY <1>4, <2>4 DEF DefineLabel, CallEqu, PushOpcode, Fail, Lost, AtBody
      <3>. QED
        BY <1>4, <2>1, <3>1 DEF InText, After, Patching
    <2>5. CASE RejectLine
      BY <1>4, <2>5 DEF RejectLine, Fail, Lost
    <2>6. CASE Evaluating
      <3>1. phase' = phase /\ item' = item
        BY <1>4, <2>6 DEF Evaluating, PushNumber, PushName, Negate, BinaryOp, SyntaxError,
           ReturnNothing, Fail, Step, Lost
      <3>. QED
        BY <1>4, <2>1, <3>1 DEF InText
    <2>7. CASE FixingUp \/ CheckLimit
      <3>1. phase \in After /\ phase' \in After
        BY <1>4, <2>7 DEF FixingUp, PatchRel, PatchByte, PatchWord, NextLoop, CheckLimit, After,
           Patching, Lost
      <3>. QED
        BY <1>4, <2>1, <3>1 DEF InText, After, Patching
    <2>8. CASE Ended
      BY <1>1, <2>8 DEF Ended
    <2>. QED
      BY <1>4, <2>2, <2>3, <2>4, <2>5, <2>6, <2>7, <2>8 DEF Next, Parsing, EndLine
  <1>. QED
    BY <1>1, <1>2, <1>3, <1>4, LineFrame

-----------------------------------------------------------------------------
(* ORG. *)

Orgs(i) == {j \in Abstract!Is("org") : j < i}

Origin ==
  /\ org = Abstract!OrgAt(line)
  /\ org_set <=> Orgs(line) # {}
  /\ \A j, k \in Orgs(line) : j = k

LEMMA OrgNext ==
  ASSUME source \in Sources, NEW i \in Abstract!Lines
  PROVE  /\ source[i].body.k # "org" => Orgs(i + 1) = Orgs(i) /\ Abstract!OrgAt(i + 1) = Abstract!OrgAt(i)
         /\ source[i].body.k = "org" /\ Orgs(i) = {} =>
              /\ Orgs(i + 1) = {i}
              /\ Abstract!OrgAt(i + 1) = source[i].body.literal % WordSize
  <1>1. i \in Nat /\ Abstract!Body(i) = source[i].body /\ \A j \in Abstract!Lines : j \in Nat
    BY SourceIs
  <1>2. Orgs(i + 1) = Orgs(i) \cup {j \in {i} : source[j].body.k = "org"}
    <2>1. i \in Abstract!Lines
      OBVIOUS
    <2>2. ASSUME NEW j
          PROVE  j \in Orgs(i + 1) <=> j \in Orgs(i) \/ (j = i /\ source[i].body.k = "org")
      <3>1. CASE j \in Abstract!Lines
        <4>1. j < i + 1 <=> j < i \/ j = i
          BY <1>1, <3>1
        <4>. QED
          BY <1>1, <4>1 DEF Orgs, Abstract!Is
      <3>2. CASE j \notin Abstract!Lines
        BY <3>2 DEF Orgs, Abstract!Is
      <3>. QED
        BY <3>1, <3>2
    <2>. QED
      BY <2>2
  <1>3. \A j : Abstract!OrgAt(j) = IF Orgs(j) = {} THEN DefaultOrg
                           ELSE Abstract!Body(Abstract!The(Orgs(j))).literal % WordSize
    BY DEF Orgs, Abstract!OrgAt
  <1>4. CASE source[i].body.k # "org"
    BY <1>2, <1>3, <1>4
  <1>5. CASE source[i].body.k = "org" /\ Orgs(i) = {}
    <2>1. Orgs(i + 1) = {i}
      BY <1>2, <1>5
    <2>2. Abstract!The({i}) = i
      BY DEF Abstract!The
    <2>3. {i} # {}
      OBVIOUS
    <2>. QED
      BY <1>1, <1>3, <1>5, <2>1, <2>2, <2>3
  <1>. QED
    BY <1>4, <1>5

LEMMA OriginStep == IInv /\ InText /\ Origin /\ [Next]_vars => Origin'
  <1> SUFFICES ASSUME IInv, InText, Origin, [Next]_vars PROVE Origin'
    OBVIOUS
  <1>1. source' = source
    BY FixupsFrame
  <1>2. \A i : Orgs(i)' = Orgs(i) /\ Abstract!OrgAt(i)' = Abstract!OrgAt(i)
    BY <1>1, SameText DEF Orgs
  <1>3. CASE SetOrg /\ phase' \notin Lost
    <2>1. NextLine /\ Body.k = "org" /\ ~org_set /\ org' = Body.literal % WordSize /\ org_set'
      BY <1>3 DEF SetOrg, Fail, Lost
    <2>2. line \in Abstract!Lines /\ line' = line + 1
      BY <1>3, <2>1, LineEnding DEF EndLine
    <2>3. Orgs(line) = {}
      BY <2>1 DEF Origin
    <2>4. Orgs(line + 1) = {line} /\ Abstract!OrgAt(line + 1) = org'
      BY <2>1, <2>2, <2>3, OrgNext DEF Body, IInv, TypeOK
    <2>. QED
      BY <1>2, <2>1, <2>2, <2>4 DEF Origin
  <1>4. CASE ~(SetOrg /\ phase' \notin Lost)
    <2>1. UNCHANGED <<org, org_set>>
      BY <1>4 DEF vars, Next, Parsing, DefineLabel, EmptyLine, RejectLine, CallEqu, SetOrg, PushOpcode,
         AccountCode, PushDbItem, AccountDb, ReserveDs, PushDwItem, AccountDw, StartFixups,
         Evaluating, PushNumber, PushName, Negate, BinaryOp, SyntaxError, ReturnNothing,
         ReturnEqu, FixingUp, PatchRel, PatchByte, PatchWord, NextLoop, CheckLimit, Ended,
         program, NextLine, Lost
    <2>2. CASE line' = line
      BY <1>2, <2>1, <2>2 DEF Origin
    <2>3. CASE line' # line
      <3>1. EndLine /\ NextLine /\ phase' \notin Lost
        <4>1. Next
          BY <2>3 DEF vars
        <4>2. NextLine
          BY <2>3, <4>1 DEF Next, Parsing, DefineLabel, EmptyLine, RejectLine, CallEqu, SetOrg, PushOpcode,
         AccountCode, PushDbItem, AccountDb, ReserveDs, PushDwItem, AccountDw, StartFixups,
         Evaluating, PushNumber, PushName, Negate, BinaryOp, SyntaxError, ReturnNothing,
         ReturnEqu, FixingUp, PatchRel, PatchByte, PatchWord, NextLoop, CheckLimit, Ended,
         vars, Fail, Step
        <4>. QED
          BY <2>3, <4>1, <4>2, LineFrame DEF NextLine, Lost
      <3>2. line \in Abstract!Lines /\ line' = line + 1
        BY <3>1, LineEnding
      <3>3. Body.k # "org"
        <4>1. ~SetOrg
          BY <1>4, <3>1
        <4>. QED
          BY <3>1, <4>1 DEF EndLine, EmptyLine, AccountCode, AccountDb, ReserveDs, AccountDw,
             ReturnEqu, InText
      <3>4. Orgs(line + 1) = Orgs(line) /\ Abstract!OrgAt(line + 1) = Abstract!OrgAt(line)
        BY <3>2, <3>3, OrgNext DEF Body, IInv, TypeOK
      <3>. QED
        BY <1>2, <2>1, <3>2, <3>4 DEF Origin
    <2>. QED
      BY <2>2, <2>3
  <1>. QED
    BY <1>3, <1>4

LEMMA ItemAtIs ==
  ASSUME NEW items \in Seq(DbItem)
  PROVE  /\ ItemAt(items, 1) = 0
         /\ \A j \in 1 .. Len(items) + 1 : ItemAt(items, j) \in Nat
         /\ \A j \in 1 .. Len(items) :
              ItemAt(items, j + 1) = ItemAt(items, j) + Len(ItemBytes(items)[j])
  <1> DEFINE off == ItemOffsets(items)
             L == Len(items)
  <1>1. L \in Nat /\ ItemBytes(items) \in Seq(Seq(Byte)) /\ Len(ItemBytes(items)) = L
        /\ Offsets(off, ItemBytes(items))
    BY DbItemIs, ItemBytesAre, ItemOffsetsAre
  <1>2. \A j \in 1 .. L + 1 : off[j] = ItemAt(items, j)
    BY DEF ItemOffsets
  <1> HIDE DEF off, L
  <1>3. \A j \in 1 .. L + 1 : off[j] \in Nat
    BY <1>1, OffsetsGrow
  <1>4. off[1] = 0 /\ \A j \in 1 .. L : off[j + 1] = off[j] + Len(ItemBytes(items)[j])
    BY <1>1 DEF Offsets
  <1>5. 1 \in 1 .. L + 1 /\ \A j \in 1 .. L : j \in 1 .. L + 1 /\ j + 1 \in 1 .. L + 1
    BY <1>1
  <1>6. ItemAt(items, 1) = 0 /\ \A j \in 1 .. L + 1 : ItemAt(items, j) \in Nat
    BY <1>2, <1>3, <1>4, <1>5
  <1>7. \A j \in 1 .. L : ItemAt(items, j + 1) = ItemAt(items, j) + Len(ItemBytes(items)[j])
    BY <1>2, <1>4, <1>5
  <1>. QED
    BY <1>6, <1>7 DEF L

\* The bytes line has pushed so far.
Progress ==
  IF line > Len(source) THEN 0
  ELSE IF phase = "opcode" THEN Abstract!Length(line)
  ELSE IF Body.k = "db" THEN ItemAt(Body.items, item + 1)
  ELSE IF Body.k = "dw" THEN 2 * item ELSE 0

\* The memory ends where the lines read so far end, and the blocks at the line.
Extent ==
  phase \notin Lost =>
    Size = Abstract!Start(line) + Progress /\ last_size = Abstract!Start(line)

LEMMA BodyOf ==
  ASSUME IInv, InText, line <= Len(source)
  PROVE  /\ line \in Abstract!Lines /\ IsBody(Body) /\ Body = source[line].body
         /\ Abstract!Body(line) = Body
         /\ Abstract!Start(line) \in Nat /\ Abstract!Length(line) \in Nat
         /\ Abstract!Start(line + 1) = Abstract!Start(line) + Abstract!Length(line)
         /\ Body.k = "db" => Body.items \in Seq(DbItem)
         /\ Body.k = "dw" => Body.items \in Seq(Expr) /\ Len(Body.items) \in Nat
         /\ Body.k = "opcode" => IsTemplate(Body.form)
         /\ Body.k = "ds" => Body.literal \in Nat
  <1>1. source \in Sources
    BY DEF IInv, TypeOK
  <1>2. line \in Abstract!Lines
    BY <1>1, SourceIs DEF InText
  <1>3. IsBody(Body) /\ Body = source[line].body /\ Abstract!Body(line) = Body
    BY <1>1, <1>2, SourceIs DEF Body
  <1>4. /\ Abstract!Start(line) \in Nat /\ Abstract!Length(line) \in Nat
        /\ Abstract!Start(line + 1) = Abstract!Start(line) + Abstract!Length(line)
    BY <1>1, <1>2, StartIs DEF InText
  <1>5. /\ Body.k = "db" => Body.items \in Seq(DbItem)
        /\ Body.k = "dw" => Body.items \in Seq(Expr)
        /\ Body.k = "opcode" => IsTemplate(Body.form)
        /\ Body.k = "ds" => Body.literal \in Nat
    BY <1>3 DEF IsBody
  <1>6. Body.k = "dw" => Len(Body.items) \in Nat
    <2> DEFINE E == Expr
    <2>1. Body.k = "dw" => Body.items \in Seq(E)
      BY <1>5
    <2> HIDE DEF E
    <2>. QED
      BY <2>1
  <1>. QED
    BY <1>2, <1>3, <1>4, <1>5, <1>6

\* A line begins with nothing pushed.
LEMMA ProgressStarts ==
  ASSUME IInv, InText, phase # "opcode", item = 0
  PROVE  Progress = 0
  <1>1. CASE line <= Len(source) /\ Body.k = "db"
    <2>1. ItemAt(Body.items, 0 + 1) = 0
      BY <1>1, BodyOf, ItemAtIs
    <2>. QED
      BY <1>1, <2>1 DEF Progress
  <1>. QED
    BY <1>1, SMT DEF Progress, InText

LEMMA ProgressType ==
  ASSUME IInv, InText, phase \in Loading
  PROVE  Progress \in Nat
  <1>1. item \in Nat /\ Len(source) \in Nat /\ line \in Nat
    BY SourceIs DEF IInv, TypeOK
  <1>2. CASE line <= Len(source) /\ Body.k = "db" /\ phase # "opcode"
    <2>1. Body.items \in Seq(DbItem) /\ Len(Body.items) \in Nat
      BY <1>2, BodyOf, DbItemIs
    <2>2. item <= Len(Body.items)
      BY <1>2 DEF InText, Loading
    <2>3. item + 1 \in 1 .. Len(Body.items) + 1
      BY <1>1, <2>1, <2>2
    <2>4. ItemAt(Body.items, item + 1) \in Nat
      BY <2>1, <2>3, ItemAtIs
    <2>. QED
      BY <1>2, <2>4 DEF Progress
  <1>3. CASE line <= Len(source) /\ phase = "opcode"
    BY <1>3, BodyOf DEF Progress
  <1>. QED
    BY <1>1, <1>2, <1>3 DEF Progress


\* A line all of whose elements have been reduced has pushed its bytes; a DS has
\* pushed none yet.
LEMMA ProgressEnds ==
  ASSUME IInv, InText, line <= Len(source),
         \/ phase = "opcode"
         \/ AtBody /\ Body.k \in {"db", "dw"} /\ item = Len(Body.items)
  PROVE  Progress = Abstract!Length(line)
  <1> DEFINE n == Abstract!Length(line)
             b == source[line].body
  <1>1. /\ Body = b /\ n \in Nat
        /\ b.k = "db" => b.items \in Seq(DbItem)
    BY BodyOf
  <1>2. /\ b.k = "db" => n = Abstract!SumOver(Abstract!ItemLengths(b.items), DOMAIN b.items)
        /\ b.k = "dw" => n = 2 * Len(b.items)
    BY LineLengthIs, Zenon
  <1>3. ~(line > Len(source))
    BY SourceIs DEF IInv, TypeOK, InText
  <1> HIDE DEF b, n
  <1>4. CASE phase = "opcode"
    BY <1>3, <1>4 DEF Progress, n
  <1>5. CASE AtBody /\ Body.k = "db" /\ item = Len(Body.items)
    <2>1. phase # "opcode"
      BY <1>5 DEF AtBody
    <2>2. Len(b.items) \in Nat /\ DOMAIN b.items = 1 .. Len(b.items)
      BY <1>1, <1>5, DbItemIs
    <2>3. (item + 1) - 1 = Len(b.items)
      BY <1>1, <1>5, <2>2
    <2>4. Progress = n
      BY <1>1, <1>2, <1>3, <1>5, <2>1, <2>2, <2>3 DEF Progress, ItemAt
    <2>. QED
      BY <2>4 DEF n
  <1>6. CASE AtBody /\ Body.k = "dw" /\ item = Len(Body.items)
    <2>1. phase # "opcode"
      BY <1>6 DEF AtBody
    <2>2. Progress = n
      BY <1>1, <1>2, <1>3, <1>6, <2>1 DEF Progress
    <2>. QED
      BY <2>2 DEF n
  <1>. QED
    BY <1>4, <1>5, <1>6

LEMMA ProgressOfDs ==
  ASSUME IInv, InText, AtBody, Body.k = "ds"
  PROVE  Progress = 0 /\ Abstract!Length(line) = Body.literal % WordSize
  <1>1. line <= Len(source) /\ ~(line > Len(source)) /\ phase # "opcode"
    BY SourceIs DEF AtBody, IInv, TypeOK, InText
  <1>2. Body = source[line].body
    BY DEF Body
  <1>. QED
    BY <1>1, <1>2, LineLengthIs, Zenon DEF Progress

\* A line that ends has pushed its bytes, a DS in this very step, and the blocks
\* take them in.
Closed(n) ==
  \/ Body.k \in {"db", "ds", "dw"} /\ Account(Body.k, n)
  \/ Body.k = "opcode" /\ Account("code", n)
  \/ Abstract!Length(line) = 0 /\ mem_type' = mem_type /\ last_size' = last_size

LEMMA LineCloses ==
  ASSUME IInv, InText, Extent, EndLine, NextLine
  PROVE  /\ \/ memory' = memory /\ Progress = Abstract!Length(line)
            \/ Body.k = "ds" /\ memory' = memory \o Zeros(Abstract!Length(line)) /\ Progress = 0
         /\ Closed(Abstract!Start(line) + Abstract!Length(line))
  <1> DEFINE s == Abstract!Start(line)
             n == Abstract!Length(line)
             b == source[line].body
  <1>1. line \in Abstract!Lines /\ line <= Len(source) /\ phase' = "line"
    <2>1. line \in Abstract!Lines /\ phase' = "line"
      BY LineEnding
    <2>. QED
      BY <2>1, SourceIs DEF IInv, TypeOK
  <1>2. /\ Body = b /\ s \in Nat /\ n \in Nat
        /\ b.k = "db" => b.items \in Seq(DbItem)
    BY <1>1, BodyOf
  <1>3. phase \in Loading
    BY DEF EndLine, EmptyLine, SetOrg, AccountCode, AccountDb, ReserveDs, AccountDw, ReturnEqu,
       AtBody, Loading
  <1>4. Size = s + Progress /\ last_size = s
    BY <1>3 DEF Extent, Loading, Lost
  <1>5. /\ b.k = "opcode" => n = Len(b.form.bytes)
        /\ b.k = "db" => n = Abstract!SumOver(Abstract!ItemLengths(b.items), DOMAIN b.items)
        /\ b.k = "ds" => n = b.literal % WordSize
        /\ b.k = "dw" => n = 2 * Len(b.items)
        /\ b.k \notin {"opcode", "db", "ds", "dw"} => n = 0
    BY LineLengthIs, Zenon
  <1>6. ~(line > Len(source))
    BY <1>1, SourceIs DEF IInv, TypeOK, InText
  <1> HIDE DEF b, n, s
  <1>7. CASE EmptyLine \/ SetOrg \/ ReturnEqu
    <2>1. /\ memory' = memory /\ mem_type' = mem_type /\ last_size' = last_size
          /\ Body.k \in {"empty", "org", "equ"} /\ phase # "opcode"
      BY <1>1, <1>7 DEF EmptyLine, SetOrg, ReturnEqu, Fail, AtBody, InText, program
    <2>2. n = 0 /\ Progress = 0
      BY <1>2, <1>5, <1>6, <2>1 DEF Progress
    <2>. QED
      BY <2>1, <2>2 DEF Closed, n
  <1>8. CASE AccountCode
    <2>1. phase = "opcode" /\ Body.k = "opcode" /\ memory' = memory /\ Account("code", Size)
      BY <1>8 DEF AccountCode, InText
    <2>2. Progress = n
      BY <1>1, <2>1, ProgressEnds DEF n
    <2>. QED
      BY <1>4, <2>1, <2>2 DEF Closed, n, s
  <1>9. CASE AccountDb
    <2>1. /\ AtBody /\ Body.k = "db" /\ item = Len(Body.items) /\ memory' = memory
          /\ Account("db", Size)
      BY <1>9 DEF AccountDb
    <2>2. Progress = n
      BY <1>1, <2>1, ProgressEnds DEF n
    <2>. QED
      BY <1>4, <2>1, <2>2 DEF Closed, n, s
  <1>10. CASE AccountDw
    <2>1. /\ AtBody /\ Body.k = "dw" /\ item = Len(Body.items) /\ memory' = memory
          /\ Account("dw", Size)
      BY <1>10 DEF AccountDw
    <2>2. Progress = n
      BY <1>1, <2>1, ProgressEnds DEF n
    <2>. QED
      BY <1>4, <2>1, <2>2 DEF Closed, n, s
  <1>11. CASE ReserveDs
    <2>1. /\ AtBody /\ Body.k = "ds" /\ memory' = memory \o Zeros(Body.literal % WordSize)
          /\ Account("ds", Size + (Body.literal % WordSize))
      BY <1>11 DEF ReserveDs
    <2>2. Progress = 0 /\ Body.literal % WordSize = n
      BY <2>1, ProgressOfDs DEF n
    <2>3. Size + n = s + n
      BY <1>2, <1>4, <2>2
    <2>. QED
      BY <2>1, <2>2, <2>3 DEF Closed, n, s
  <1>. QED
    BY <1>7, <1>8, <1>9, <1>10, <1>11 DEF EndLine

LEMMA ClosedEnds ==
  ASSUME NEW n, Closed(n), last_size = n \/ Abstract!Length(line) # 0
  PROVE  last_size' = n
  BY DEF Closed, Account

-----------------------------------------------------------------------------
(* What a step within a line pushes is the next of the line's bytes. *)

LEMMA SkeletonIs ==
  ASSUME IInv, InText, line <= Len(source)
  PROVE  /\ Body.k = "opcode" => Abstract!Skeleton(line) = Body.form.bytes
         /\ Body.k \in {"ds", "dw"} => \A x \in 1 .. Abstract!Length(line) : Abstract!Skeleton(line)[x] = 0
         /\ Body.k = "db" => \A j \in 1 .. Len(Body.items) : \A x \in 1 .. Len(ItemBytes(Body.items)[j]) :
              Abstract!Skeleton(line)[ItemAt(Body.items, j) + x] = ItemBytes(Body.items)[j][x]
  <1>1. Abstract!Body(line) = Body
    BY BodyOf
  <1>2. Body.k = "opcode" => Abstract!Skeleton(line) = Body.form.bytes
    BY <1>1 DEF Abstract!Skeleton
  <1>3. Body.k \in {"ds", "dw"} => \A x \in 1 .. Abstract!Length(line) : Abstract!Skeleton(line)[x] = 0
    BY <1>1 DEF Abstract!Skeleton
  <1>4. ASSUME Body.k = "db", NEW j \in 1 .. Len(Body.items), NEW x \in 1 .. Len(ItemBytes(Body.items)[j])
        PROVE  Abstract!Skeleton(line)[ItemAt(Body.items, j) + x] = ItemBytes(Body.items)[j][x]
    <2> DEFINE items == Body.items
               s == ItemBytes(items)
    <2>1. Abstract!Skeleton(line) = FlattenSeq(s)
      BY <1>1, <1>4, FlattenSeqIs DEF Abstract!Skeleton, ItemBytes
    <2>2. items \in Seq(DbItem)
      BY <1>4, BodyOf
    <2> HIDE DEF items
    <2>3. s \in Seq(Seq(Byte)) /\ Len(s) = Len(items) /\ Offsets(ItemOffsets(items), s)
      BY <2>2, ItemBytesAre, ItemOffsetsAre
    <2> HIDE DEF s
    <2>4. MadeBy(FlattenSeq(s), Len(s), s, ItemOffsets(items))
      BY <2>3, FlattenAt
    <2>5. j \in 1 .. Len(s) /\ x \in 1 .. Len(s[j])
      BY <2>3 DEF items, s
    <2>6. ItemOffsets(items)[j] = ItemAt(items, j)
      <3>1. Len(items) \in Nat
        BY <2>2, DbItemIs
      <3>2. j \in 1 .. Len(items) + 1
        BY <3>1, <2>3, <2>5
      <3>. QED
        BY <3>2 DEF ItemOffsets
    <2>. QED
      BY <2>1, <2>4, <2>5, <2>6 DEF MadeBy, items, s
  <1>. QED
    BY <1>2, <1>3, <1>4

Pushes(t) ==
  /\ t \in Seq(Byte) /\ memory' = memory \o t
  /\ Progress' = Progress + Len(t) /\ Progress + Len(t) <= Abstract!Length(line)
  /\ \A x \in 1 .. Len(t) : Abstract!Skeleton(line)[Progress + x] = t[x]

LEMMA OpcodePushes ==
  ASSUME IInv, InText, PushOpcode, phase' \notin Lost
  PROVE  Pushes(Body.form.bytes) /\ Progress = 0
  <1> DEFINE n == Abstract!Length(line)
             t == Body.form.bytes
  <1>1. /\ Body.k = "opcode" /\ phase' = "opcode" /\ phase # "opcode" /\ line' = line
        /\ line <= Len(source) /\ memory' = memory \o t /\ source' = source
    BY DEF PushOpcode, AtBody, Fail, Lost, input
  <1>2. ~(line > Len(source)) /\ ~(line > Len(source))'
    BY <1>1, SourceIs DEF InText, IInv, TypeOK
  <1>3. Progress = 0
    BY <1>1, <1>2 DEF Progress
  <1>4. Progress' = n
    <2>1. Abstract!Length(line)' = n
      BY <1>1, SameText
    <2>. QED
      BY <1>1, <1>2, <2>1 DEF Progress
  <1>5. t \in Seq(Byte) /\ Abstract!Skeleton(line) = t
    BY <1>1, BodyOf, SkeletonIs DEF IsTemplate
  <1>6. n = Len(t)
    <2>1. Body = source[line].body
      BY <1>1, BodyOf
    <2>. QED
      BY <1>1, <2>1, LineLengthIs
  <1>7. Len(t) \in Nat
    BY <1>5
  <1> HIDE DEF t, n
  <1>. QED
    BY <1>1, <1>3, <1>4, <1>5, <1>6, <1>7 DEF Pushes, n, t

LEMMA DbItemPushes ==
  ASSUME IInv, InText, PushDbItem, phase' \notin Lost
  PROVE  Pushes(ItemBytes(Body.items)[item + 1])
  <1> DEFINE n == Abstract!Length(line)
             items == Body.items
             t == ItemBytes(items)[item + 1]
             L == Len(items)
  <1>1. /\ Body.k = "db" /\ phase' = phase /\ phase \in {"line", "body"} /\ line' = line
        /\ line <= Len(source) /\ source' = source /\ item < L /\ item' = item + 1 /\ Body' = Body
    BY DEF PushDbItem, AtBody, Fail, Lost, input, Body
  <1>2. ~(line > Len(source)) /\ ~(line > Len(source))'
    BY <1>1, SourceIs DEF InText, IInv, TypeOK
  <1>3. items \in Seq(DbItem) /\ L \in Nat /\ item \in Nat
    BY <1>1, BodyOf, DbItemIs DEF IInv, TypeOK
  <1>4. Progress = ItemAt(items, item + 1) /\ Progress' = ItemAt(items, (item + 1) + 1)
    BY <1>1, <1>2 DEF Progress
  <1>5. item + 1 \in 1 .. L /\ (L + 1) - 1 = L
    BY <1>1, <1>3
  <1>6. n = ItemAt(items, L + 1)
    <2>1. Body = source[line].body /\ DOMAIN items = 1 .. L
      BY <1>1, <1>3, BodyOf, DbItemIs
    <2>2. n = Abstract!SumOver(Abstract!ItemLengths(items), DOMAIN items)
      BY <1>1, <2>1, LineLengthIs
    <2>. QED
      BY <1>5, <2>1, <2>2 DEF ItemAt
  <1>7. t \in Seq(Byte) /\ Len(t) \in Nat
    <2> DEFINE U == Seq(Byte)
               s == ItemBytes(items)
    <2>1. s \in Seq(U) /\ Len(s) = L
      BY <1>3, ItemBytesAre
    <2>2. t \in U
      <3> HIDE DEF U, s, L, items
      <3>. QED
        BY <1>5, <2>1 DEF s
    <2>. QED
      BY <2>2
  <1>8. t = IF items[item + 1].k = "string" THEN items[item + 1].str ELSE <<0>>
    BY <1>3, <1>5, ItemBytesAre
  <1>9. memory' = memory \o t
    <2>1. CASE items[item + 1].k = "string"
      BY <1>8, <2>1 DEF PushDbItem
    <2>2. CASE items[item + 1].k # "string"
      <3>1. memory' = Append(memory, 0) /\ memory \in Seq(Byte) /\ t = <<0>>
        BY <1>1, <1>8, <2>2 DEF PushDbItem, Fail, Lost, IInv, TypeOK
      <3>2. Append(memory, 0) = memory \o <<0>>
        BY <3>1
      <3>. QED
        BY <3>1, <3>2
    <2>. QED
      BY <2>1, <2>2
  <1>10. Progress' = Progress + Len(t) /\ Progress \in Nat
    <2>1. Progress \in Nat
      BY <1>1, ProgressType DEF Loading
    <2>2. ItemAt(items, (item + 1) + 1) = ItemAt(items, item + 1) + Len(t)
      BY <1>3, <1>5, ItemAtIs
    <2>. QED
      BY <1>4, <2>1, <2>2
  <1>11. Progress + Len(t) <= n
    <2> DEFINE off == ItemOffsets(items)
               s == ItemBytes(items)
    <2>1. Offsets(off, s) /\ s \in Seq(Seq(Byte)) /\ Len(s) = L
      BY <1>3, ItemOffsetsAre, ItemBytesAre
    <2>2. off[item + 1] = Progress /\ off[L + 1] = n
      BY <1>3, <1>4, <1>5, <1>6 DEF ItemOffsets
    <2>3. off[item + 1] + Len(s[item + 1]) <= off[L + 1]
      <3>1. L + 1 \in 1 .. L + 1 /\ item + 1 < L + 1
        BY <1>3, <1>5
      <3> HIDE DEF off, s, L
      <3>. QED
        BY <1>5, <2>1, <3>1, OffsetsOrdered
    <2>. QED
      BY <2>2, <2>3
  <1>12. \A x \in 1 .. Len(t) : Abstract!Skeleton(line)[Progress + x] = t[x]
    BY <1>1, <1>4, <1>5, SkeletonIs
  <1> HIDE DEF t, n, items, L
  <1>. QED
    BY <1>7, <1>9, <1>10, <1>11, <1>12 DEF Pushes, n, t, items

LEMMA DwItemPushes ==
  ASSUME IInv, InText, PushDwItem
  PROVE  Pushes(Zeros(2))
  <1> DEFINE n == Abstract!Length(line)
             t == Zeros(2)
             L == Len(Body.items)
  <1>1. /\ Body.k = "dw" /\ phase' = phase /\ phase # "opcode" /\ line' = line /\ memory' = memory \o t
        /\ line <= Len(source) /\ source' = source /\ item < L /\ item' = item + 1 /\ Body' = Body
    BY DEF PushDwItem, AtBody, input, Body
  <1>2. ~(line > Len(source)) /\ ~(line > Len(source))'
    BY <1>1, SourceIs DEF InText, IInv, TypeOK
  <1>3. L \in Nat /\ item \in Nat
    BY <1>1, BodyOf DEF IInv, TypeOK
  <1>4. Progress = 2 * item /\ Progress' = 2 * (item + 1)
    BY <1>1, <1>2 DEF Progress
  <1>5. n = 2 * L
    <2>1. Body = source[line].body
      BY <1>1, BodyOf
    <2>. QED
      BY <1>1, <2>1, LineLengthIs
  <1>6. t \in Seq(Byte) /\ Len(t) = 2 /\ \A x \in 1 .. 2 : t[x] = 0
    <2>1. 0 \in Byte
      BY Widths DEF Byte
    <2>. QED
      BY <2>1 DEF Zeros
  <1>7. ASSUME NEW x \in 1 .. 2
        PROVE  Abstract!Skeleton(line)[Progress + x] = 0
    <2>1. Progress + x \in 1 .. n
      BY <1>1, <1>3, <1>4, <1>5
    <2>. QED
      BY <1>1, <2>1, SkeletonIs
  <1> HIDE DEF t, n, L
  <1>8. Progress' = Progress + Len(t) /\ Progress + Len(t) <= n
    BY <1>1, <1>3, <1>4, <1>5, <1>6
  <1>. QED
    BY <1>1, <1>6, <1>7, <1>8 DEF Pushes, n, t

LEMMA ProgressStartsNext ==
  (IInv /\ InText /\ phase # "opcode" /\ item = 0 => Progress = 0)'
  <1>1. IInv /\ InText /\ phase # "opcode" /\ item = 0 => Progress = 0
    BY ProgressStarts
  <1>. QED
    BY <1>1, PTL

\* The steps that neither end a line nor push anything.
LEMMA OtherSteps ==
  ASSUME Next, phase' \notin Lost, ~EndLine, ~(PushOpcode \/ PushDbItem \/ PushDwItem)
  PROVE  /\ UNCHANGED <<source, line, item, last_size, mem_type, fixups>>
         /\ phase # "opcode" <=> phase' # "opcode"
         /\ \/ PatchRel \/ PatchByte \/ PatchWord
            \/ memory' = memory /\ (phase \in Loading => phase' \in Loading \/ StartFixups)
  <1>1. CASE DefineLabel \/ RejectLine \/ CallEqu
    BY <1>1 DEF DefineLabel, RejectLine, CallEqu, Fail, Lost, AtBody, input, program, fixups, Loading
  <1>2. CASE StartFixups
    BY <1>2 DEF StartFixups, input, program, fixups
  <1>3. CASE Evaluating
    <2>1. Current # {} => phase # "opcode"
      BY DEF Current
    <2>2. Current # {} /\ phase' = phase
      BY <1>3 DEF Evaluating, PushNumber, PushName, Negate, BinaryOp, SyntaxError,
         ReturnNothing, Reduces, AtReturn, Fail, Step, Lost
    <2>3. UNCHANGED <<source, line, item, program, fixups>>
      BY <1>3, <2>2 DEF Evaluating, PushNumber, PushName, Negate, BinaryOp, SyntaxError,
         ReturnNothing, Fail, Step, Lost, input
    <2>. QED
      BY <2>1, <2>2, <2>3 DEF program, Loading
  <1>4. CASE PatchRel \/ PatchByte \/ PatchWord
    <2>1. phase \in Patching /\ phase' = phase
      BY <1>4 DEF PatchRel, PatchByte, PatchWord, Patching, Lost
    <2>2. UNCHANGED <<source, line, item, last_size, mem_type, fixups>>
      BY <1>4 DEF PatchRel, PatchByte, PatchWord, Lost, input, program, fixups
    <2>. QED
      BY <1>4, <2>1, <2>2 DEF Patching
  <1>5. CASE NextLoop \/ CheckLimit
    <2>1. phase \in After /\ phase' \in After
      BY <1>5 DEF NextLoop, CheckLimit, After, Patching, Lost
    <2>2. UNCHANGED <<source, line, item, last_size, mem_type, fixups, memory>>
      BY <1>5 DEF NextLoop, CheckLimit, input, program, fixups
    <2>. QED
      BY <2>1, <2>2 DEF After, Patching, Loading
  <1>6. CASE Ended
    BY <1>6 DEF Ended, vars, Loading, fixups
  <1>. QED
    BY <1>1, <1>2, <1>3, <1>4, <1>5, <1>6 DEF Next, Parsing, FixingUp, EndLine

LEMMA LostStays ==
  ASSUME Next, phase' \notin Lost PROVE phase \notin Lost
  BY DEF Next, Parsing, Evaluating, FixingUp, DefineLabel, EmptyLine, RejectLine, CallEqu, SetOrg,
     PushOpcode, AccountCode, PushDbItem, AccountDb, ReserveDs, PushDwItem, AccountDw, ReturnEqu,
     StartFixups, PushNumber, PushName, Negate, BinaryOp, SyntaxError, ReturnNothing, Fail, Step,
     PatchRel, PatchByte, PatchWord, NextLoop, CheckLimit, Ended, vars, AtBody, Reduces, AtReturn,
     Current, Lost, Returns, Least

LEMMA ExtentStep == IInv /\ InText /\ Extent /\ [Next]_vars => Extent'
  <1> SUFFICES ASSUME IInv, InText, Extent, [Next]_vars, phase' \notin Lost
               PROVE  Size' = Abstract!Start(line)' + Progress' /\ last_size' = Abstract!Start(line)'
    BY DEF Extent
  <1>1. source' = source /\ IInv' /\ InText'
    BY FixupsFrame, StepInv, InTextStep
  <1>2. Abstract!Start(line)' = Abstract!Start(line')
    BY <1>1, SameStart
  <1>3. memory \in Seq(Byte)
    BY DEF IInv, TypeOK
  <1>4. CASE UNCHANGED vars
    <2>1. Progress' = Progress
      <3>1. Abstract!Length(line)' = Abstract!Length(line)
        BY <1>1, <1>4, SameText DEF vars
      <3>. QED
        BY <1>4, <3>1 DEF Progress, vars, Body
    <2>. QED
      BY <1>2, <1>4, <2>1 DEF Extent, vars, Size
  <1>5. CASE Next /\ EndLine
    <2>1. NextLine
      BY <1>5, LineFrame
    <2>2. line \in Abstract!Lines /\ line' = line + 1 /\ phase' = "line" /\ item' = 0
      BY <1>5, <2>1, LineEnding
    <2> DEFINE s == Abstract!Start(line)
               n == Abstract!Length(line)
    <2>3. s \in Nat /\ n \in Nat /\ Abstract!Start(line') = s + n
      <3>1. s \in Nat /\ n \in Nat /\ Abstract!Start(line + 1) = s + n
        BY <2>2, SourceIs, BodyOf DEF IInv, TypeOK
      <3>. QED
        BY <2>2, <3>1
    <2>4. /\ \/ memory' = memory /\ Progress = n
             \/ memory' = memory \o Zeros(n) /\ Progress = 0
          /\ Closed(s + n)
      BY <1>5, <2>1, LineCloses
    <2>5. phase \notin Lost
      BY <1>5 DEF EndLine, EmptyLine, SetOrg, AccountCode, AccountDb, ReserveDs, AccountDw,
         ReturnEqu, AtBody, Lost
    <2>6. Size = s + Progress /\ last_size = s
      BY <2>5 DEF Extent
    <2> HIDE DEF s, n
    <2>7. Size' = s + n
      <3>1. CASE memory' = memory /\ Progress = n
        BY <2>6, <3>1 DEF Size
      <3>2. CASE memory' = memory \o Zeros(n) /\ Progress = 0
        <4>1. Len(memory \o Zeros(n)) = Len(memory) + n
          BY <1>3, <2>3, ZerosType
        <4>. QED
          BY <2>3, <2>6, <3>2, <4>1 DEF Size
      <3>. QED
        BY <2>4, <3>1, <3>2
    <2>8. last_size' = s + n
      <3>1. CASE n = 0
        <4>1. last_size = s + n
          BY <2>3, <2>6, <3>1
        <4>. QED
          BY <2>4, <4>1, ClosedEnds
      <3>2. CASE n # 0
        BY <2>4, <3>2, ClosedEnds DEF n
      <3>. QED
        BY <3>1, <3>2
    <2>9. Progress' = 0
      <3>1. (phase # "opcode")' /\ (item = 0)'
        BY <2>2
      <3>. QED
        BY <1>1, <3>1, ProgressStartsNext
    <2>. QED
      BY <1>2, <2>3, <2>7, <2>8, <2>9
  <1>6. CASE Next /\ (PushOpcode \/ PushDbItem \/ PushDwItem)
    <2>1. line' = line /\ last_size' = last_size /\ phase \notin Lost
      BY <1>6 DEF PushOpcode, PushDbItem, PushDwItem, AtBody, Fail, Lost
    <2>2. PICK t : Pushes(t)
      BY <1>6, OpcodePushes, DbItemPushes, DwItemPushes
    <2>3. t \in Seq(Byte) /\ memory' = memory \o t /\ Progress' = Progress + Len(t)
      BY <2>2 DEF Pushes
    <2>4. Size = Abstract!Start(line) + Progress /\ last_size = Abstract!Start(line)
      BY <2>1 DEF Extent
    <2>5. Abstract!Start(line) \in Nat /\ Progress \in Nat
      <3>1. phase \in Loading
        BY <1>6 DEF PushOpcode, PushDbItem, PushDwItem, AtBody, Loading
      <3>. QED
        BY <3>1, ProgressType, StartIs DEF InText, IInv, TypeOK
    <2>6. Size' = Size + Len(t) /\ Len(t) \in Nat
      BY <1>3, <2>3 DEF Size
    <2>. QED
      BY <1>2, <2>1, <2>3, <2>4, <2>5, <2>6
  <1>7. CASE Next /\ ~EndLine /\ ~(PushOpcode \/ PushDbItem \/ PushDwItem)
    <2>1. /\ UNCHANGED <<line, item, last_size>>
          /\ phase # "opcode" <=> phase' # "opcode"
          /\ PatchRel \/ PatchByte \/ PatchWord \/ memory' = memory
      BY <1>7, OtherSteps
    <2>2. Size' = Size
      <3>1. CASE PatchRel \/ PatchByte \/ PatchWord
        BY <3>1, PatchKeepsSize DEF Size
      <3>. QED
        BY <2>1, <3>1 DEF Size
    <2>3. Progress' = Progress
      <3>1. Abstract!Length(line)' = Abstract!Length(line)
        BY <1>1, <2>1, SameText
      <3>. QED
        BY <1>1, <2>1, <3>1 DEF Progress, Body
    <2>4. phase \notin Lost
      BY <1>7, LostStays
    <2>. QED
      BY <1>2, <2>1, <2>2, <2>3, <2>4 DEF Extent
  <1>. QED
    BY <1>4, <1>5, <1>6, <1>7

-----------------------------------------------------------------------------
(* The memory: while the text is read, what the lines are without their *)
(* operands; later on, that where nothing is patched.                   *)

Flat == FlattenSeq(Skeletons)

LEMMA FlatIs ==
  ASSUME source \in Sources
  PROVE  /\ Flat \in Seq(Byte) /\ Len(Flat) = Abstract!Start(Len(source) + 1)
         /\ \A i \in Abstract!Lines : \A x \in 1 .. Abstract!Length(i) :
              /\ Abstract!Start(i) + x \in 1 .. Len(Flat)
              /\ Flat[Abstract!Start(i) + x] = Abstract!Skeleton(i)[x]
  <1> DEFINE s == Skeletons
             off == LineOffsets
             N == Len(source)
  <1>1. s \in Seq(Seq(Byte)) /\ Len(s) = N /\ Offsets(off, s)
    BY LineOffsetsAre
  <1>2. N \in Nat /\ Abstract!Lines = 1 .. N
    BY SourceIs
  <1>3. /\ \A i \in 1 .. N : s[i] = Abstract!Skeleton(i)
        /\ \A i \in 1 .. N + 1 : off[i] = Abstract!Start(i)
    BY <1>2 DEF Skeletons, LineOffsets
  <1>4. \A i \in 1 .. N : Len(s[i]) = Abstract!Length(i)
    BY <1>2, <1>3, SkeletonType
  <1> HIDE DEF s, off, N
  <1>5. FlattenSeq(s) \in Seq(Byte) /\ MadeBy(FlattenSeq(s), N, s, off)
    BY <1>1, FlattenAt
  <1>6. Flat = FlattenSeq(s)
    BY DEF Flat, s
  <1>7. N + 1 \in 1 .. N + 1 /\ \A i \in 1 .. N : i \in 1 .. N + 1
    BY <1>2
  <1>8. Len(Flat) = Abstract!Start(N + 1)
    BY <1>3, <1>5, <1>6, <1>7 DEF MadeBy
  <1>9. ASSUME NEW i \in Abstract!Lines, NEW x \in 1 .. Abstract!Length(i)
        PROVE  /\ Abstract!Start(i) + x \in 1 .. Len(Flat)
               /\ Flat[Abstract!Start(i) + x] = Abstract!Skeleton(i)[x]
    <2>1. i \in 1 .. N /\ x \in 1 .. Len(s[i]) /\ off[i] = Abstract!Start(i) /\ s[i] = Abstract!Skeleton(i)
      BY <1>2, <1>3, <1>4, <1>7
    <2>. QED
      BY <1>5, <1>6, <2>1 DEF MadeBy
  <1>. QED
    BY <1>5, <1>6, <1>8, <1>9 DEF N

LEMMA SameSkeletons ==
  ASSUME source' = source, source \in Sources
  PROVE  /\ \A i \in Abstract!Lines : Abstract!Skeleton(i)' = Abstract!Skeleton(i)
         /\ Flat' = Flat
  <1>1. ASSUME NEW i \in Abstract!Lines
        PROVE  Abstract!Skeleton(i)' = Abstract!Skeleton(i)
    <2> DEFINE b == Abstract!Body(i)
               n == Abstract!Length(i)
    <2>1. b' = b /\ n' = n
      BY SameText
    <2>2. Abstract!Skeleton(i) = IF b.k = "opcode" THEN b.form.bytes
                             ELSE IF b.k = "db" THEN FlattenSeq(ItemBytes(b.items))
                             ELSE [j \in 1 .. n |-> 0]
      BY FlattenSeqIs DEF Abstract!Skeleton, ItemBytes
    <2>3. Abstract!Skeleton(i)' = IF b'.k = "opcode" THEN b'.form.bytes
                             ELSE IF b'.k = "db" THEN FlattenSeq(ItemBytes(b'.items))
                             ELSE [j \in 1 .. n' |-> 0]
      BY FlattenSeqIs DEF Abstract!Skeleton, ItemBytes
    <2> HIDE DEF b, n
    <2>. QED
      BY <2>1, <2>2, <2>3
  <1>2. Skeletons' = Skeletons
    BY <1>1, SameText DEF Skeletons
  <1>. QED
    BY <1>1, <1>2 DEF Flat

Laid ==
  phase \notin Lost =>
    \A p \in 1 .. Size : phase \in Loading \/ p - 1 \notin Holes => memory[p] = Flat[p]

\* What is pushed is what the line is made of.
LEMMA PushLays ==
  ASSUME IInv, InText, Extent, Laid, phase \in Loading, line \in Abstract!Lines,
         NEW t \in Seq(Byte), memory' = memory \o t, source' = source,
         Progress + Len(t) <= Abstract!Length(line),
         \A x \in 1 .. Len(t) : Abstract!Skeleton(line)[Progress + x] = t[x]
  PROVE  \A p \in 1 .. Size' : memory'[p] = Flat'[p]
  <1> DEFINE s == Abstract!Start(line)
             n == Abstract!Length(line)
             y == Progress
  <1>1. memory \in Seq(Byte) /\ source \in Sources /\ Size \in Nat
    BY SizeIsNat DEF IInv, TypeOK
  <1>2. Flat' = Flat
    BY <1>1, SameSkeletons
  <1>3. s \in Nat /\ n \in Nat /\ y \in Nat /\ Size = s + y
    BY <1>1, StartIs, ProgressType, SourceIs DEF Extent, Loading, Lost
  <1>4. Size' = Size + Len(t) /\ Len(t) \in Nat
    BY <1>1 DEF Size
  <1> HIDE DEF s, n, y
  <1>5. ASSUME NEW p \in 1 .. Size'
        PROVE  memory'[p] = Flat[p]
    <2>1. CASE p \in 1 .. Size
      <3>1. memory'[p] = memory[p]
        BY <1>1, <2>1 DEF Size
      <3>2. memory[p] = Flat[p]
        BY <2>1 DEF Laid, Loading, Lost
      <3>. QED
        BY <3>1, <3>2
    <2>2. CASE p \notin 1 .. Size
      <3> DEFINE x == p - Size
      <3>1. x \in 1 .. Len(t) /\ p = Size + x
        BY <1>1, <1>4, <2>2
      <3>2. p = s + (y + x) /\ y + x \in 1 .. n
        BY <1>3, <1>4, <3>1 DEF n, y
      <3>3. memory'[p] = t[x]
        BY <1>1, <3>1 DEF Size
      <3>4. Flat[s + (y + x)] = Abstract!Skeleton(line)[y + x]
        BY <1>1, <3>2, FlatIs DEF s, n
      <3>5. Abstract!Skeleton(line)[y + x] = t[x]
        BY <3>1 DEF y
      <3>. QED
        BY <3>2, <3>3, <3>4, <3>5
    <2>. QED
      BY <2>1, <2>2
  <1>. QED
    BY <1>2, <1>5

LEMMA LaidStep == IInv /\ InText /\ Extent /\ Laid /\ [Next]_vars => Laid'
  <1> SUFFICES ASSUME IInv, InText, Extent, Laid, [Next]_vars, phase' \notin Lost
               PROVE  Laid'
    BY DEF Laid
  <1>1. source' = source /\ source \in Sources /\ memory \in Seq(Byte)
    BY FixupsFrame DEF IInv, TypeOK
  <1>2. Flat' = Flat
    BY <1>1, SameSkeletons
  <1>3. CASE UNCHANGED vars
    BY <1>2, <1>3 DEF Laid, vars, Size, Holes
  <1>4. CASE Next /\ EndLine
    <2>1. NextLine
      BY <1>4, LineFrame
    <2>2. phase \in Loading /\ line \in Abstract!Lines
      BY <1>4, <2>1, LineEnding DEF EndLine, EmptyLine, SetOrg, AccountCode, AccountDb, ReserveDs,
         AccountDw, ReturnEqu, AtBody, Loading
    <2>3. CASE memory' = memory
      BY <1>2, <2>2, <2>3 DEF Laid, Size, Loading, Lost
    <2>4. CASE memory' # memory
      <3> DEFINE n == Abstract!Length(line)
                 t == Zeros(n)
      <3>1. Body.k = "ds" /\ memory' = memory \o t /\ Progress = 0
        BY <1>4, <2>1, <2>4, LineCloses
      <3>2. n \in Nat /\ line <= Len(source)
        BY <1>1, <2>2, SourceIs, StartIs DEF InText
      <3>3. t \in Seq(Byte) /\ Len(t) = n /\ \A x \in 1 .. n : t[x] = 0
        <4> HIDE DEF n
        <4>1. 0 \in Byte
          BY Widths DEF Byte
        <4>. QED
          BY <3>2, <4>1 DEF Zeros
      <3>4. \A x \in 1 .. n : Abstract!Skeleton(line)[x] = 0
        BY <3>1, <3>2, SkeletonIs
      <3> HIDE DEF t
      <3>5. \A x \in 1 .. Len(t) : Abstract!Skeleton(line)[Progress + x] = t[x]
        BY <3>1, <3>2, <3>3, <3>4
      <3>6. Progress + Len(t) <= n
        BY <3>1, <3>2, <3>3
      <3>7. \A p \in 1 .. Size' : memory'[p] = Flat'[p]
        BY <1>1, <2>2, <3>1, <3>3, <3>5, <3>6, PushLays
      <3>. QED
        BY <3>7 DEF Laid
    <2>. QED
      BY <2>3, <2>4
  <1>5. CASE Next /\ (PushOpcode \/ PushDbItem \/ PushDwItem)
    <2>1. phase \in Loading /\ line \in Abstract!Lines
      BY <1>1, <1>5, SourceIs DEF PushOpcode, PushDbItem, PushDwItem, AtBody, Loading, InText
    <2>2. PICK t : Pushes(t)
      BY <1>5, OpcodePushes, DbItemPushes, DwItemPushes
    <2>3. \A p \in 1 .. Size' : memory'[p] = Flat'[p]
      BY <1>1, <2>1, <2>2, PushLays DEF Pushes
    <2>. QED
      BY <2>3 DEF Laid
  <1>6. CASE Next /\ ~EndLine /\ ~(PushOpcode \/ PushDbItem \/ PushDwItem)
    <2>1. /\ UNCHANGED fixups /\ phase \notin Lost
          /\ \/ PatchRel \/ PatchByte \/ PatchWord
             \/ memory' = memory /\ (phase \in Loading => phase' \in Loading \/ StartFixups)
      BY <1>6, OtherSteps, LostStays
    <2>2. Holes' = Holes
      BY <2>1 DEF fixups, Holes
    <2>3. CASE memory' = memory
      <3>1. phase' \in Loading => phase \in Loading
        <4>1. phase \in After => phase' \in After
          BY <1>6 DEF Next, Parsing, Evaluating, FixingUp, DefineLabel, EmptyLine, RejectLine, CallEqu,
             StartFixups, PushNumber, PushName, Negate, BinaryOp, SyntaxError, ReturnNothing, Fail, Step,
             PatchRel, PatchByte, PatchWord, NextLoop, CheckLimit, Ended, vars, AtBody,
             After, Patching, Lost, EndLine
        <4>2. phase \in Loading \cup After
          BY <2>1 DEF IInv, TypeOK, Phases, Terminal, Loading, After, Lost
        <4>. QED
          BY <4>1, <4>2 DEF Loading, After, Patching
      <3>. QED
        BY <1>2, <2>1, <2>2, <2>3, <3>1 DEF Laid, Size
    <2>4. CASE PatchRel \/ PatchByte \/ PatchWord
      <3>1. phase \in Patching /\ phase \notin Loading /\ phase' = phase
        BY <1>6, <2>4 DEF PatchRel, PatchByte, PatchWord, Patching, Loading, Lost
      <3>2. WritesOnce
        BY <1>6, <2>4, PatchRelOnce, PatchByteOnce, PatchWordOnce
      <3>3. Unwritten \subseteq Holes
        BY DEF IInv, TodoPending, Unwritten, Holes, WordCells
      <3>4. Len(memory') = Len(memory) /\ \A p \in 1 .. Len(memory) : memory'[p] # memory[p] => p - 1 \in Holes
        BY <3>1, <3>2, <3>3 DEF WritesOnce
      <3>. QED
        BY <1>2, <2>1, <2>2, <3>1, <3>4 DEF Laid, Size
    <2>. QED
      BY <2>1, <2>3, <2>4
  <1>. QED
    BY <1>3, <1>4, <1>5, <1>6

-----------------------------------------------------------------------------
(* The symbols. *)

\* The label of line j has been reduced.
LabelRead(j) == j < line \/ (j = line /\ phase # "line")

Labels ==
  phase \notin Lost =>
    \A n \in Names :
      /\ n \in DOMAIN label <=> \E j \in Abstract!LabelLines(n) : LabelRead(j)
      /\ \A j \in Abstract!LabelLines(n) : LabelRead(j) => label[n] = Abstract!Start(j) % WordSize
      /\ \A j, k \in Abstract!LabelLines(n) : LabelRead(j) /\ LabelRead(k) => j = k

Equs ==
  phase \notin Lost =>
    \A n \in Names : n \in DOMAIN equ <=> \E j \in Abstract!EquLines(n) : j < line

\* A line with a body has no label that has not been reduced.
NoLabelLeft == \A n \in Names : line \in Abstract!LabelLines(n) => phase # "line"

LEMMA LabelsKept ==
  ASSUME IInv, InText, Labels, Next, phase' \notin Lost, ~DefineLabel
  PROVE  Labels'
  <1>1. source' = source /\ source \in Sources /\ line \in Nat /\ Len(source) \in Nat
    BY FixupsFrame, SourceIs DEF IInv, TypeOK
  <1>2. label' = label
    BY DEF vars, Next, Parsing, DefineLabel, EmptyLine, RejectLine, CallEqu, SetOrg, PushOpcode,
         AccountCode, PushDbItem, AccountDb, ReserveDs, PushDwItem, AccountDw, StartFixups,
         Evaluating, PushNumber, PushName, Negate, BinaryOp, SyntaxError, ReturnNothing,
         ReturnEqu, FixingUp, PatchRel, PatchByte, PatchWord, NextLoop, CheckLimit, Ended, symbols
  <1>3. phase \notin Lost
    BY LostStays
  <1>4. AtBody \/ line > Len(source) => NoLabelLeft
    <2> SUFFICES ASSUME AtBody \/ line > Len(source), NEW n \in Names, line \in Abstract!LabelLines(n)
                 PROVE  phase # "line"
      BY DEF NoLabelLeft
    <2>1. line \in Abstract!Lines /\ source[line].label = n
      BY DEF Abstract!LabelLines
    <2>2. ~(line > Len(source))
      BY <1>1, <2>1, SourceIs
    <2>. QED
      BY <2>1, <2>2, NameAssumption DEF AtBody
  <1>5. \/ line' = line /\ (phase = "line" <=> phase' = "line")
        \/ line' = line /\ phase = "line" /\ NoLabelLeft
        \/ line' = line + 1 /\ phase' = "line" /\ NoLabelLeft
    <2>1. CASE EndLine
      <3>1. NextLine
        BY <2>1, LineFrame
      <3>2. NoLabelLeft
        <4>1. CASE phase \in {"opcode", "equ"}
          BY <4>1 DEF NoLabelLeft
        <4>2. CASE AtBody
          BY <1>4, <4>2
        <4>. QED
          BY <2>1, <4>1, <4>2 DEF EndLine, EmptyLine, SetOrg, AccountCode, AccountDb, ReserveDs,
             AccountDw, ReturnEqu
      <3>. QED
        BY <3>1, <3>2 DEF NextLine
    <2>2. CASE ~EndLine
      <3>1. line' = line
        BY <2>2, LineFrame
      <3>2. CASE CallEqu \/ PushOpcode
        <4>1. AtBody /\ phase' # "line"
          BY <3>2 DEF CallEqu, PushOpcode, Fail
        <4>. QED
          BY <1>4, <3>1, <4>1
      <3>3. CASE StartFixups
        <4>1. line > Len(source) /\ phase = "line"
          BY <3>3 DEF StartFixups
        <4>. QED
          BY <1>4, <3>1, <4>1
      <3>4. CASE ~(CallEqu \/ PushOpcode \/ StartFixups)
        <4>1. phase' = phase \/ (phase \in After /\ phase' \in After)
          BY <2>2, <3>4 DEF Next, Parsing, Evaluating, FixingUp, DefineLabel, RejectLine,
             PushDbItem, PushDwItem, PushNumber, PushName, Negate, BinaryOp, SyntaxError, ReturnNothing,
             Fail, Step, PatchRel, PatchByte, PatchWord, NextLoop, CheckLimit, Ended, vars,
             After, Patching, Lost, EndLine
        <4>. QED
          BY <3>1, <4>1 DEF After, Patching
      <3>. QED
        BY <3>2, <3>3, <3>4
    <2>. QED
      BY <2>1, <2>2
  <1>6. ASSUME NEW n \in Names, NEW j \in Abstract!LabelLines(n)
        PROVE  LabelRead(j)' <=> LabelRead(j)
    <2>1. j \in Nat
      BY <1>1, SourceIs DEF Abstract!LabelLines
    <2>2. j = line /\ NoLabelLeft => phase # "line"
      BY DEF NoLabelLeft
    <2>3. LabelRead(j)' <=> j < line' \/ (j = line' /\ phase' # "line")
      BY DEF LabelRead
    <2>. QED
      BY <1>1, <1>5, <2>1, <2>2, <2>3 DEF LabelRead
  <1>7. \A n : Abstract!LabelLines(n)' = Abstract!LabelLines(n)
    BY <1>1, SameText
  <1>8. \A j : Abstract!Start(j)' = Abstract!Start(j)
    BY <1>1, SameStart
  <1>. QED
    BY <1>2, <1>3, <1>6, <1>7, <1>8 DEF Labels

LEMMA DefineLabelLabels ==
  ASSUME IInv, InText, Extent, Labels, DefineLabel, phase' \notin Lost
  PROVE  Labels'
  <1> DEFINE n == source[line].label
  <1>1. source' = source /\ source \in Sources /\ line \in Nat /\ Len(source) \in Nat
    BY SourceIs DEF IInv, TypeOK, DefineLabel, input
  <1>2. /\ phase = "line" /\ phase' = "body" /\ line' = line /\ line <= Len(source) /\ n # NoName
        /\ n \notin DOMAIN label
        /\ label' = [m \in DOMAIN label \cup {n} |-> IF m = n THEN Size % WordSize ELSE label[m]]
    BY DEF DefineLabel, Fail, Lost
  <1>3. line \in Abstract!Lines /\ n \in Names
    BY <1>1, <1>2, SourceIs DEF InText
  <1>4. Size = Abstract!Start(line)
    <2>1. item = 0
      BY <1>2 DEF InText
    <2>2. Progress = 0
      BY <1>2, <2>1, ProgressStarts
    <2>3. Size = Abstract!Start(line) + Progress /\ Abstract!Start(line) \in Nat
      BY <1>2, StartIs DEF Extent, Lost, IInv, TypeOK, InText
    <2>. QED
      BY <2>2, <2>3
  <1>5. ASSUME NEW m \in Names, NEW j \in Abstract!LabelLines(m)
        PROVE  /\ LabelRead(j)' <=> LabelRead(j) \/ j = line
               /\ j = line => m = n
               /\ LabelRead(j) => j # line
    <2>1. j \in Nat /\ source[j].label = m
      BY <1>1, SourceIs DEF Abstract!LabelLines
    <2>2. LabelRead(j)' <=> j < line' \/ (j = line' /\ phase' # "line")
      BY DEF LabelRead
    <2>. QED
      BY <1>1, <1>2, <2>1, <2>2 DEF LabelRead
  <1>6. line \in Abstract!LabelLines(n)
    BY <1>3 DEF Abstract!LabelLines
  <1>7. \A m : Abstract!LabelLines(m)' = Abstract!LabelLines(m)
    BY <1>1, SameText
  <1>8. \A j : Abstract!Start(j)' = Abstract!Start(j)
    BY <1>1, SameStart
  <1>9. phase \notin Lost
    BY <1>2 DEF Lost
  <1> HIDE DEF n
  <1>10. ASSUME NEW m \in Names
         PROVE  /\ m \in DOMAIN label' <=> \E j \in Abstract!LabelLines(m) : LabelRead(j)'
                /\ \A j \in Abstract!LabelLines(m) : LabelRead(j)' => label'[m] = Abstract!Start(j) % WordSize
                /\ \A j, k \in Abstract!LabelLines(m) : LabelRead(j)' /\ LabelRead(k)' => j = k
    <2>1. CASE m = n
      <3>1. \A j \in Abstract!LabelLines(m) : ~LabelRead(j)
        BY <1>2, <1>9, <2>1 DEF Labels
      <3>2. \A j \in Abstract!LabelLines(m) : LabelRead(j)' <=> j = line
        BY <1>5, <3>1
      <3>3. m \in DOMAIN label' /\ label'[m] = Abstract!Start(line) % WordSize
        BY <1>2, <1>4, <2>1
      <3>. QED
        BY <1>6, <2>1, <3>2, <3>3
    <2>2. CASE m # n
      <3>1. \A j \in Abstract!LabelLines(m) : LabelRead(j)' <=> LabelRead(j)
        BY <1>5, <2>2
      <3>2. (m \in DOMAIN label' <=> m \in DOMAIN label) /\ (m \in DOMAIN label => label'[m] = label[m])
        BY <1>2, <2>2
      <3>. QED
        BY <1>9, <3>1, <3>2 DEF Labels
    <2>. QED
      BY <2>1, <2>2
  <1>. QED
    BY <1>7, <1>8, <1>10 DEF Labels

LEMMA EquNext ==
  ASSUME source \in Sources, NEW i \in Abstract!Lines, NEW n
  PROVE  (\E j \in Abstract!EquLines(n) : j < i + 1) <=>
           \/ \E j \in Abstract!EquLines(n) : j < i
           \/ source[i].body.k = "equ" /\ source[i].body.name = n
  <1>1. i \in Nat /\ Abstract!Body(i) = source[i].body /\ \A j \in Abstract!Lines : j \in Nat
    BY SourceIs
  <1>2. \A j : j \in Abstract!EquLines(n) <=>
          j \in Abstract!Lines /\ Abstract!Body(j).k = "equ" /\ Abstract!Body(j).name = n
    BY DEF Abstract!EquLines, Abstract!Is
  <1>3. \A j \in Abstract!Lines : j < i + 1 <=> j < i \/ j = i
    BY <1>1
  <1>. QED
    BY <1>1, <1>2, <1>3

\* The steps leave the EQUs alone, but for the end of their lines.
LEMMA EquFrame ==
  ASSUME InText, [Next]_vars, phase' \notin Lost
  PROVE  \/ /\ EndLine /\ NextLine /\ ReturnEqu /\ Body.k = "equ"
            /\ equ' = [m \in DOMAIN equ \cup {Body.name} |-> IF m = Body.name THEN Result ELSE equ[m]]
         \/ EndLine /\ NextLine /\ equ' = equ /\ Body.k # "equ"
         \/ line' = line /\ equ' = equ
  <1>1. CASE UNCHANGED vars
    BY <1>1 DEF vars
  <1>2. CASE Next /\ EndLine
    <2>1. NextLine
      BY <1>2, LineFrame
    <2>2. CASE ReturnEqu
      BY <1>2, <2>1, <2>2 DEF ReturnEqu, Lost, InText
    <2>3. CASE ~ReturnEqu
      BY <1>2, <2>1, <2>3 DEF EndLine, EmptyLine, SetOrg, AccountCode, AccountDb, ReserveDs, AccountDw,
         symbols, InText
    <2>. QED
      BY <2>2, <2>3
  <1>3. CASE Next /\ ~EndLine
    <2>1. line' = line
      BY <1>3, LineFrame
    <2>2. equ' = equ
      BY <1>3 DEF Next, Parsing, DefineLabel, EmptyLine, RejectLine, CallEqu, SetOrg, PushOpcode,
         AccountCode, PushDbItem, AccountDb, ReserveDs, PushDwItem, AccountDw, StartFixups,
         Evaluating, PushNumber, PushName, Negate, BinaryOp, SyntaxError, ReturnNothing,
         FixingUp, PatchRel, PatchByte, PatchWord, NextLoop, CheckLimit, Ended, symbols, EndLine, vars
    <2>. QED
      BY <2>1, <2>2
  <1>. QED
    BY <1>1, <1>2, <1>3

LEMMA EqusStep == IInv /\ InText /\ Equs /\ [Next]_vars => Equs'
  <1> SUFFICES ASSUME IInv, InText, Equs, [Next]_vars, phase' \notin Lost
               PROVE  Equs'
    BY DEF Equs
  <1>1. source' = source /\ source \in Sources /\ phase \notin Lost
    BY FixupsFrame, LostStays DEF IInv, TypeOK, vars
  <1>2. \A n : Abstract!EquLines(n)' = Abstract!EquLines(n)
    BY <1>1, SameText
  <1>3. CASE EndLine /\ NextLine
    <2>1. line \in Abstract!Lines /\ line' = line + 1
      BY <1>3, LineEnding
    <2>2. Body = source[line].body
      BY DEF Body
    <2>3. \A n \in Names : n \in DOMAIN equ' <=> n \in DOMAIN equ \/ (Body.k = "equ" /\ Body.name = n)
      <3>1. \/ /\ Body.k = "equ"
               /\ equ' = [m \in DOMAIN equ \cup {Body.name} |-> IF m = Body.name THEN Result ELSE equ[m]]
            \/ equ' = equ /\ Body.k # "equ"
        <4>1. line' # line
          BY <2>1 DEF IInv, TypeOK
        <4>. QED
          BY <4>1, EquFrame
      <3>. QED
        BY <3>1
    <2>. QED
      BY <1>1, <1>2, <2>1, <2>2, <2>3, EquNext DEF Equs
  <1>4. CASE line' = line /\ equ' = equ
    BY <1>1, <1>2, <1>4 DEF Equs
  <1>. QED
    BY <1>3, <1>4, EquFrame

LEMMA LabelsStep == IInv /\ InText /\ Extent /\ Labels /\ [Next]_vars => Labels'
  <1> SUFFICES ASSUME IInv, InText, Extent, Labels, [Next]_vars, phase' \notin Lost
               PROVE  Labels'
    BY DEF Labels
  <1>1. CASE UNCHANGED vars
    <2>1. source' = source
      BY <1>1 DEF vars
    <2>2. /\ \A n : Abstract!LabelLines(n)' = Abstract!LabelLines(n)
          /\ \A j : Abstract!Start(j)' = Abstract!Start(j)
      BY <2>1, SameText, SameStart
    <2>. QED
      BY <1>1, <2>2 DEF vars, Labels, LabelRead
  <1>. QED
    BY <1>1, LabelsKept, DefineLabelLabels

-----------------------------------------------------------------------------
(* The operands of a line. *)

\* The operands of a statement at address base.
OperandsOf(b, base) ==
  LET f == b.form IN
  CASE b.k = "opcode" ->
         {[expr |-> f.rel[o], at |-> o, how |-> "rel"] : o \in DOMAIN f.rel}
         \cup {[expr |-> f.byte[o].expr, at |-> o, how |-> f.byte[o].op] : o \in DOMAIN f.byte}
         \cup {[expr |-> ReplaceDollar(f.word[o].expr, (base + 0) % WordSize), at |-> o,
                how |-> "word"] : o \in DOMAIN f.word}
    [] b.k = "db" ->
         {[expr |-> b.items[j].expr, at |-> ItemAt(b.items, j), how |-> "+"] :
            j \in {j \in DOMAIN b.items : b.items[j].k = "expr"}}
    [] b.k = "dw" ->
         {[expr |-> ReplaceDollar(b.items[j], (base + 2 * (j - 1)) % WordSize), at |-> 2 * (j - 1),
           how |-> "word"] : j \in DOMAIN b.items}
    [] OTHER -> {}

LEMMA OperandsAre ==
  \A i : Abstract!Operands(i) = OperandsOf(Abstract!Body(i), Abstract!OrgAt(i) + Abstract!Start(i))
  BY DEF Abstract!Operands, OperandsOf, ItemAt, Abstract!ReplaceDollar, ReplaceDollar

LEMMA OperandsAreNext ==
  (\A i : Abstract!Operands(i) = OperandsOf(Abstract!Body(i), Abstract!OrgAt(i) + Abstract!Start(i)))'
  BY OperandsAre, PTL

LEMMA SameOperands ==
  ASSUME source' = source
  PROVE  \A i : Abstract!Operands(i)' = Abstract!Operands(i)
  <1> SUFFICES ASSUME NEW i PROVE Abstract!Operands(i)' = Abstract!Operands(i)
    OBVIOUS
  <1>1. Abstract!Operands(i)' = OperandsOf(Abstract!Body(i)', Abstract!OrgAt(i)' + Abstract!Start(i)')
    BY OperandsAreNext
  <1>2. Abstract!Body(i)' = Abstract!Body(i) /\ Abstract!OrgAt(i)' = Abstract!OrgAt(i)
        /\ Abstract!Start(i)' = Abstract!Start(i)
    BY SameText, SameStart
  <1>. QED
    BY <1>1, <1>2, OperandsAre

Width(x) == IF x.how = "word" THEN 2 ELSE 1

LEMMA OpcodeOperands ==
  ASSUME NEW b, b.k = "opcode", NEW base, NEW x
  PROVE  x \in OperandsOf(b, base) <=>
           \/ \E o \in DOMAIN b.form.rel : x = [expr |-> b.form.rel[o], at |-> o, how |-> "rel"]
           \/ \E o \in DOMAIN b.form.byte :
                x = [expr |-> b.form.byte[o].expr, at |-> o, how |-> b.form.byte[o].op]
           \/ \E o \in DOMAIN b.form.word :
                x = [expr |-> ReplaceDollar(b.form.word[o].expr, (base + 0) % WordSize), at |-> o,
                     how |-> "word"]
  BY DEF OperandsOf

LEMMA DbOperands ==
  ASSUME NEW b, b.k = "db", NEW base, NEW x
  PROVE  x \in OperandsOf(b, base) <=>
           \E j \in DOMAIN b.items :
             /\ b.items[j].k = "expr"
             /\ x = [expr |-> b.items[j].expr, at |-> ItemAt(b.items, j), how |-> "+"]
  BY DEF OperandsOf

LEMMA DwOperands ==
  ASSUME NEW b, b.k = "dw", NEW base, NEW x
  PROVE  x \in OperandsOf(b, base) <=>
           \E j \in DOMAIN b.items :
             x = [expr |-> ReplaceDollar(b.items[j], (base + 2 * (j - 1)) % WordSize),
                  at |-> 2 * (j - 1), how |-> "word"]
  BY DEF OperandsOf

LEMMA NoOperands ==
  ASSUME NEW b, b.k \notin {"opcode", "db", "dw"}, NEW base
  PROVE  OperandsOf(b, base) = {}
  BY DEF OperandsOf

\* The origin of any line is a word: a line's ORG is cut to one.
LEMMA OrgAtType ==
  ASSUME source \in Sources, NEW i
  PROVE  Abstract!OrgAt(i) \in Word
  <1> DEFINE orgs == {j \in Abstract!Is("org") : j < i}
  <1>1. Abstract!OrgAt(i) = IF orgs = {} THEN DefaultOrg
                            ELSE Abstract!Body(Abstract!The(orgs)).literal % WordSize
    BY DEF Abstract!OrgAt
  <1>2. CASE orgs = {}
    BY <1>1, <1>2, OrgAssumption
  <1>3. CASE orgs # {}
    <2> DEFINE j == Abstract!The(orgs)
    <2>1. j \in orgs
      BY <1>3 DEF Abstract!The
    <2>2. j \in Abstract!Lines /\ Abstract!Body(j).k = "org"
      BY <2>1 DEF Abstract!Is
    <2>3. Abstract!Body(j).literal \in Nat
      BY <2>2, SourceIs DEF IsBody
    <2>. QED
      BY <1>1, <1>3, <2>3, ResidueType
  <1>. QED
    BY <1>2, <1>3

\* An operand stands within its line.
LEMMA OperandInside ==
  ASSUME source \in Sources, NEW i \in Abstract!Lines, NEW x \in Abstract!Operands(i)
  PROVE  /\ x.expr \in Expr /\ x.at \in Nat /\ x.how \in {"rel", "+", "-", "word"}
         /\ x.at + Width(x) <= Abstract!Length(i)
  <1> DEFINE b == source[i].body
             base == Abstract!OrgAt(i) + Abstract!Start(i)
             n == Abstract!Length(i)
  <1>1. IsBody(b) /\ Abstract!Body(i) = b
    BY SourceIs
  <1>2. x \in OperandsOf(b, base)
    BY <1>1, OperandsAre
  <1>3. base \in Nat
    <2>1. Abstract!OrgAt(i) \in Word /\ Abstract!Start(i) \in Nat
      BY OrgAtType, StartIs, SourceIs
    <2>. QED
      BY <2>1 DEF Word
  <1>4. \A o \in Nat : (base + o) % WordSize \in Word
    BY <1>3, ResidueType
  <1>5. CASE b.k = "opcode"
    <2> DEFINE f == b.form
    <2>1. IsTemplate(f)
      BY <1>1, <1>5 DEF IsBody
    <2>2. n = Len(f.bytes) /\ n \in Nat
      BY <1>5, LineLengthIs, SkeletonType
    <2>3. DOMAIN f.rel \cup DOMAIN f.byte \cup WordCells(DOMAIN f.word) \subseteq 0 .. n - 1
      BY <2>1, <2>2 DEF IsTemplate
    <2> HIDE DEF n
    <2>4. CASE \E o \in DOMAIN f.rel : x = [expr |-> f.rel[o], at |-> o, how |-> "rel"]
      <3>1. PICK o \in DOMAIN f.rel : x = [expr |-> f.rel[o], at |-> o, how |-> "rel"]
        BY <2>4
      <3>2. f.rel[o] \in Expr /\ o \in 0 .. n - 1
        BY <2>1, <2>3 DEF IsTemplate
      <3>. QED
        BY <2>2, <3>1, <3>2 DEF Width, n
    <2>5. CASE \E o \in DOMAIN f.byte :
                 x = [expr |-> f.byte[o].expr, at |-> o, how |-> f.byte[o].op]
      <3>1. PICK o \in DOMAIN f.byte : x = [expr |-> f.byte[o].expr, at |-> o, how |-> f.byte[o].op]
        BY <2>5
      <3>2. f.byte[o].expr \in Expr /\ f.byte[o].op \in {"+", "-"} /\ o \in 0 .. n - 1
        BY <2>1, <2>3 DEF IsTemplate
      <3>. QED
        BY <2>2, <3>1, <3>2 DEF Width, n
    <2>6. CASE \E o \in DOMAIN f.word :
                 x = [expr |-> ReplaceDollar(f.word[o].expr, (base + 0) % WordSize), at |-> o,
                      how |-> "word"]
      <3>1. PICK o \in DOMAIN f.word :
                 x = [expr |-> ReplaceDollar(f.word[o].expr, (base + 0) % WordSize), at |-> o,
                      how |-> "word"]
        BY <2>6
      <3>2. f.word[o].expr \in Expr /\ o \in 0 .. n - 1 /\ o + 1 \in 0 .. n - 1
        BY <2>1, <2>3 DEF IsTemplate, WordCells
      <3>3. ReplaceDollar(f.word[o].expr, (base + 0) % WordSize) \in Expr
        BY <1>4, <3>2, ReplaceDollarType
      <3>. QED
        BY <2>2, <3>1, <3>2, <3>3 DEF Width, n
    <2>. QED
      BY <1>2, <1>5, <2>4, <2>5, <2>6, OpcodeOperands
  <1>6. CASE b.k = "db"
    <2> DEFINE items == b.items
    <2>1. items \in Seq(DbItem)
      BY <1>1, <1>6 DEF IsBody
    <2>2. PICK j \in DOMAIN items :
             /\ items[j].k = "expr"
             /\ x = [expr |-> items[j].expr, at |-> ItemAt(items, j), how |-> "+"]
      BY <1>2, <1>6, DbOperands
    <2>3. Len(items) \in Nat /\ DOMAIN items = 1 .. Len(items) /\ items[j].expr \in Expr
      BY <2>1, <2>2, DbItemIs
    <2>4. n = ItemAt(items, Len(items) + 1)
      <3>1. n = Abstract!SumOver(Abstract!ItemLengths(items), DOMAIN items)
        BY <1>6, LineLengthIs
      <3>2. (Len(items) + 1) - 1 = Len(items)
        BY <2>3
      <3>. QED
        BY <2>3, <3>1, <3>2 DEF ItemAt
    <2> DEFINE off == ItemOffsets(items)
               s == ItemBytes(items)
    <2>5. Offsets(off, s) /\ s \in Seq(Seq(Byte)) /\ Len(s) = Len(items)
      BY <2>1, ItemOffsetsAre, ItemBytesAre
    <2>6. Len(s[j]) = 1
      <3>1. s[j] = <<0>>
        BY <2>1, <2>2, <2>3, ItemBytesAre
      <3>. QED
        BY <3>1
    <2>7. j \in 1 .. Len(items) + 1 /\ Len(items) + 1 \in 1 .. Len(items) + 1 /\ j < Len(items) + 1
      BY <2>3
    <2>8. off[j] = ItemAt(items, j) /\ off[Len(items) + 1] = n /\ ItemAt(items, j) \in Nat
      BY <2>1, <2>4, <2>7, ItemAtIs DEF ItemOffsets
    <2> HIDE DEF off, s, items, n
    <2>9. off[j] + Len(s[j]) <= off[Len(items) + 1]
      BY <2>3, <2>5, <2>7, OffsetsOrdered
    <2>10. x.expr \in Expr /\ x.at = off[j] /\ x.how = "+"
      BY <2>2, <2>3, <2>8
    <2>. QED
      BY <2>6, <2>8, <2>9, <2>10 DEF Width, n
  <1>7. CASE b.k = "dw"
    <2> DEFINE items == b.items
               E == Expr
    <2>1. items \in Seq(E)
      BY <1>1, <1>7 DEF IsBody
    <2>2. PICK j \in DOMAIN items :
             x = [expr |-> ReplaceDollar(items[j], (base + 2 * (j - 1)) % WordSize),
                  at |-> 2 * (j - 1), how |-> "word"]
      BY <1>2, <1>7, DwOperands
    <2>3. Len(items) \in Nat /\ DOMAIN items = 1 .. Len(items) /\ items[j] \in E
      <3> HIDE DEF E, items
      <3>. QED
        BY <2>1, <2>2
    <2>4. n = 2 * Len(items)
      BY <1>7, LineLengthIs
    <2>5. 2 * (j - 1) \in Nat /\ 2 * (j - 1) + 2 <= 2 * Len(items)
      BY <2>3
    <2>6. ReplaceDollar(items[j], (base + 2 * (j - 1)) % WordSize) \in Expr
      BY <1>4, <2>3, <2>5, ReplaceDollarType
    <2> HIDE DEF items, n
    <2>. QED
      BY <2>2, <2>4, <2>5, <2>6 DEF Width, n
  <1>8. CASE b.k \notin {"opcode", "db", "dw"}
    BY <1>2, <1>8, NoOperands
  <1>. QED
    BY <1>5, <1>6, <1>7, <1>8

-----------------------------------------------------------------------------
(* What the fixup maps hold: the operands of what has been pushed.         *)

\* x is what waits at address a.
HeldAt(x, a) ==
  \/ x.how = "rel" /\ a \in DOMAIN rel_addr /\ rel_addr[a] = x.expr
  \/ x.how \in {"+", "-"} /\ a \in DOMAIN byte_expr /\ byte_expr[a] = [expr |-> x.expr, op |-> x.how]
  \/ x.how = "word" /\ a \in DOMAIN word_expr /\ word_expr[a] = x.expr

\* e waits at address a as an operand of the text.
Given(a, how, e) ==
  \E i \in Abstract!Lines : \E x \in Abstract!Operands(i) :
    Abstract!Start(i) + x.at = a /\ x.how = how /\ x.expr = e

Recorded ==
  phase \notin Lost =>
    \A i \in Abstract!Lines : \A x \in Abstract!Operands(i) :
      Abstract!Start(i) + x.at < Size => HeldAt(x, Abstract!Start(i) + x.at)

Sourced ==
  phase \notin Lost =>
    /\ \A a \in DOMAIN rel_addr : Given(a, "rel", rel_addr[a])
    /\ \A a \in DOMAIN byte_expr : Given(a, byte_expr[a].op, byte_expr[a].expr)
    /\ \A a \in DOMAIN word_expr : Given(a, "word", word_expr[a])

\* The step records nothing over what is there.
Kept ==
  \A a \in Nat : a < Size =>
    /\ a \in DOMAIN rel_addr => a \in DOMAIN rel_addr' /\ rel_addr'[a] = rel_addr[a]
    /\ a \in DOMAIN byte_expr => a \in DOMAIN byte_expr' /\ byte_expr'[a] = byte_expr[a]
    /\ a \in DOMAIN word_expr => a \in DOMAIN word_expr' /\ word_expr'[a] = word_expr[a]

\* What the step records is an operand's.
Grown ==
  /\ \A a \in DOMAIN rel_addr' :
       (a \in DOMAIN rel_addr /\ rel_addr'[a] = rel_addr[a]) \/ Given(a, "rel", rel_addr'[a])
  /\ \A a \in DOMAIN byte_expr' :
       \/ a \in DOMAIN byte_expr /\ byte_expr'[a] = byte_expr[a]
       \/ Given(a, byte_expr'[a].op, byte_expr'[a].expr)
  /\ \A a \in DOMAIN word_expr' :
       (a \in DOMAIN word_expr /\ word_expr'[a] = word_expr[a]) \/ Given(a, "word", word_expr'[a])

LEMMA MergeAt ==
  ASSUME NEW m, NEW base \in Nat, NEW new, DOMAIN new \subseteq Nat, NEW o \in DOMAIN new,
         NEW a, a = base + o
  PROVE  a \in DOMAIN Merge(m, base, new) /\ Merge(m, base, new)[a] = new[o]
  <1> DEFINE D == DOMAIN m \cup From(base, DOMAIN new)
             r == [b \in D |-> IF b - base \in DOMAIN new THEN new[b - base] ELSE m[b]]
  <1>1. Merge(m, base, new) = r
    BY DEF Merge
  <1>2. base + o \in D /\ (base + o) - base = o
    BY DEF From
  <1>. QED
    BY <1>1, <1>2

LEMMA MergeKeeps ==
  ASSUME NEW m, NEW base \in Nat, NEW new, DOMAIN new \subseteq Nat, NEW a \in Nat, a < base, a \in DOMAIN m
  PROVE  a \in DOMAIN Merge(m, base, new) /\ Merge(m, base, new)[a] = m[a]
  <1> DEFINE D == DOMAIN m \cup From(base, DOMAIN new)
             r == [b \in D |-> IF b - base \in DOMAIN new THEN new[b - base] ELSE m[b]]
  <1>1. Merge(m, base, new) = r
    BY DEF Merge
  <1>2. a - base \notin DOMAIN new
    OBVIOUS
  <1>. QED
    BY <1>1, <1>2

LEMMA MergeFrom ==
  ASSUME NEW m, NEW base \in Nat, NEW new, DOMAIN m \subseteq Nat, DOMAIN new \subseteq Nat,
         NEW a \in DOMAIN Merge(m, base, new)
  PROVE  \/ a \in DOMAIN m /\ Merge(m, base, new)[a] = m[a]
         \/ \E o \in DOMAIN new : a = base + o /\ Merge(m, base, new)[a] = new[o]
  <1> DEFINE D == DOMAIN m \cup From(base, DOMAIN new)
             r == [b \in D |-> IF b - base \in DOMAIN new THEN new[b - base] ELSE m[b]]
  <1>1. Merge(m, base, new) = r
    BY DEF Merge
  <1>2. a \in D
    BY <1>1
  <1>3. CASE a \in From(base, DOMAIN new)
    <2>1. PICK o \in DOMAIN new : a = base + o
      BY <1>3 DEF From
    <2>2. a - base = o
      BY <2>1
    <2>3. r[a] = new[o]
      BY <1>2, <2>2
    <2>. QED
      BY <1>1, <2>1, <2>3
  <1>4. CASE a \notin From(base, DOMAIN new)
    <2>1. a \in DOMAIN m
      BY <1>2, <1>4
    <2>2. CASE a - base \in DOMAIN new
      <3>1. r[a] = new[a - base]
        BY <1>2, <2>2
      <3>2. a = base + (a - base)
        BY <2>1
      <3>. QED
        BY <1>1, <2>1, <2>2, <3>1, <3>2
    <2>3. CASE a - base \notin DOMAIN new
      BY <1>1, <1>2, <2>1, <2>3
    <2>. QED
      BY <2>2, <2>3
  <1>. QED
    BY <1>3, <1>4

LEMMA GrowthRecords ==
  ASSUME IInv, Recorded, phase \notin Lost, line \in Abstract!Lines, source' = source,
         Kept, NEW p \in Nat, NEW k \in Nat, Size = Abstract!Start(line) + p, Size' = Size + k,
         p + k <= Abstract!Length(line),
         \A x \in Abstract!Operands(line) : \A a \in Nat :
           x.at \in p .. p + k - 1 /\ a = Abstract!Start(line) + x.at => HeldAt(x, a)'
  PROVE  Recorded'
  <1>1. source \in Sources /\ Size \in Nat
    BY SizeIsNat DEF IInv, TypeOK
  <1>2. ASSUME NEW i \in Abstract!Lines, NEW x \in Abstract!Operands(i), NEW a \in Nat,
               a = Abstract!Start(i) + x.at, a < Size'
        PROVE  HeldAt(x, a)'
    <2> DEFINE s == Abstract!Start(i)
               t == Abstract!Start(line)
               n == Abstract!Length(i)
               m == Abstract!Length(line)
    <2>1. s \in Nat /\ t \in Nat /\ n \in Nat /\ m \in Nat
      BY <1>1, StartIs, SourceIs
    <2>2. x.at \in Nat /\ x.at + 1 <= n
      BY <1>1, <2>1, OperandInside DEF Width
    <2>3. CASE a < Size
      <3>1. HeldAt(x, a) /\ a \in Nat
        BY <1>2, <2>1, <2>2, <2>3 DEF Recorded
      <3>. QED
        BY <2>3, <3>1 DEF HeldAt, Kept
    <2>4. CASE ~(a < Size)
      <3> DEFINE y == a - t
      <3>1. y \in p .. p + k - 1 /\ t + (y + 1) = s + (x.at + 1)
        <4> HIDE DEF s, t, n, m
        <4>1. Size = t + p
          BY DEF t
        <4>2. a < Size + k
          BY <1>2
        <4>. QED
          BY <1>1, <1>2, <2>1, <2>2, <2>4, <4>1, <4>2 DEF s
      <3>2. y + 1 \in 1 .. m /\ x.at + 1 \in 1 .. n
        BY <2>1, <2>2, <3>1
      <3>3. i = line
        <4>1. /\ Skeletons \in Seq(Seq(Byte)) /\ Len(Skeletons) = Len(source)
              /\ Offsets(LineOffsets, Skeletons)
          BY <1>1, LineOffsetsAre
        <4>2. i \in 1 .. Len(source) /\ line \in 1 .. Len(source) /\ Len(source) \in Nat
          BY <1>1, SourceIs
        <4>3. LineOffsets[i] = s /\ LineOffsets[line] = t
          BY <4>2 DEF LineOffsets
        <4>4. Len(Skeletons[i]) = n /\ Len(Skeletons[line]) = m
          BY <1>1, SkeletonType DEF Skeletons
        <4> HIDE DEF s, t, n, m, y
        <4>. QED
          BY <3>1, <3>2, <4>1, <4>2, <4>3, <4>4, OffsetsApart
      <3>4. x.at \in p .. p + k - 1
        BY <1>2, <2>1, <2>2, <3>1, <3>3
      <3>. QED
        BY <1>2, <3>3, <3>4
    <2>. QED
      BY <2>3, <2>4
  <1>3. \A i : Abstract!Operands(i)' = Abstract!Operands(i)
    BY SameOperands
  <1>4. Abstract!Lines' = Abstract!Lines /\ \A i : Abstract!Start(i)' = Abstract!Start(i)
    BY SameText, SameStart
  <1>5. \A i \in Abstract!Lines : \A x \in Abstract!Operands(i) : Abstract!Start(i) + x.at \in Nat
    <2>1. \A i \in Abstract!Lines : Abstract!Start(i) \in Nat
      BY <1>1, StartIs, SourceIs
    <2>2. \A i \in Abstract!Lines : \A x \in Abstract!Operands(i) : x.at \in Nat
      BY <1>1, OperandInside
    <2>. QED
      BY <2>1, <2>2
  <1>. QED
    BY <1>2, <1>3, <1>4, <1>5 DEF Recorded, HeldAt

\* $ in a statement at address org + p: wexpr subtracts what it has pushed since.
LEMMA ModularSum ==
  ASSUME NEW x \in Int, NEW y \in Int
  PROVE  (x + (y % WordSize)) % WordSize = (x + y) % WordSize
  <1> DEFINE w == WordSize
  <1>1. w \in Nat \ {0}
    BY Widths
  <1> HIDE DEF w
  <1> DEFINE r == y % w
             q == y \div w
  <1>2. q \in Int /\ r \in Int /\ y = w * q + r
    BY <1>1
  <1>3. (x + r) % w = (x + r + w * q) % w
    <2> DEFINE u == x + r
               d == u \div w
               e == u % w
    <2>1. d \in Int /\ e \in 0 .. w - 1 /\ u = w * d + e
      BY <1>1, <1>2
    <2> HIDE DEF q, r, u, d, e
    <2>2. u + w * q = w * (d + q) + e
      BY <1>1, <1>2, <2>1
    <2>3. (u + w * q) % w = e
      <3> DEFINE g == d + q
      <3>1. g \in Int /\ u + w * q = w * g + e
        BY <1>2, <2>1, <2>2
      <3> HIDE DEF g
      <3>2. (w * g + e) % w = e
        BY <1>1, <2>1, <3>1
      <3>. QED
        BY <3>1, <3>2
    <2>. QED
      BY <2>3 DEF u, e
  <1>4. x + r + w * q = x + y
    BY <1>1, <1>2
  <1>. QED
    BY <1>3, <1>4 DEF w, r

LEMMA DollarIs ==
  ASSUME IInv, InText, Origin, NEW s \in Nat, NEW o \in Nat
  PROVE  Dollar(s + o, o + 2) = (Abstract!OrgAt(line) + s) % WordSize
  <1>1. org \in Nat /\ org = Abstract!OrgAt(line)
    BY DEF Origin, IInv, TypeOK, Word
  <1> DEFINE y == s + o + 2
             x == org - (o + 2)
  <1>2. Dollar(s + o, o + 2) = (x + (y % WordSize)) % WordSize
    <2>1. y % WordSize \in Int
      BY Widths
    <2>2. org + (y % WordSize) - (o + 2) = x + (y % WordSize)
      <3> DEFINE z == y % WordSize
      <3> HIDE DEF z, y
      <3>. QED
        BY <1>1, <2>1 DEF z
    <2>3. Dollar(s + o, o + 2) = (org + (y % WordSize) - (o + 2)) % WordSize
      BY DEF Dollar
    <2>. QED
      BY <2>2, <2>3
  <1>3. x \in Int /\ y \in Int /\ x + y = org + s
    BY <1>1
  <1> HIDE DEF x, y
  <1>4. (x + (y % WordSize)) % WordSize = (x + y) % WordSize
    BY <1>3, ModularSum
  <1>. QED
    BY <1>1, <1>2, <1>3, <1>4

\* What PushOpcode records are the operands of its line.
LEMMA OpcodeRecords ==
  ASSUME IInv, InText, Origin, Extent, PushOpcode, phase' \notin Lost
  PROVE  /\ Kept /\ Grown
         /\ \A x \in Abstract!Operands(line) : \A a \in Nat :
              a = Abstract!Start(line) + x.at => HeldAt(x, a)'
  <1> DEFINE f == Body.form
             R == f.rel
             B == f.byte
             w == [o \in DOMAIN f.word |->
                     ReplaceDollar(f.word[o].expr, Dollar(Size + o, f.word[o].back))]
             base == Abstract!OrgAt(line) + Abstract!Start(line)
  <1>1. /\ Body.k = "opcode" /\ line <= Len(source) /\ phase \notin Lost
        /\ rel_addr' = Merge(rel_addr, Size, R)
        /\ byte_expr' = Merge(byte_expr, Size, B)
        /\ word_expr' = Merge(word_expr, Size, w)
    BY DEF PushOpcode, AtBody, Fail, Lost
  <1>2. IsTemplate(f) /\ Abstract!Body(line) = Body /\ line \in Abstract!Lines /\ Body = source[line].body
    BY <1>1, BodyOf
  <1>3. DOMAIN R \subseteq Nat /\ DOMAIN B \subseteq Nat /\ DOMAIN f.word \subseteq Nat /\ DOMAIN w = DOMAIN f.word
    BY <1>2 DEF IsTemplate, WordCells
  <1>4. Size = Abstract!Start(line) /\ Size \in Nat
    <2>1. Progress = 0
      BY OpcodePushes
    <2>2. Size = Abstract!Start(line) + Progress /\ Size \in Nat /\ Abstract!Start(line) \in Nat
      BY <1>1, SizeIsNat, StartIs DEF Extent, InText, IInv, TypeOK
    <2>. QED
      BY <2>1, <2>2
  <1>5. ASSUME NEW o \in DOMAIN f.word
        PROVE  w[o] = ReplaceDollar(f.word[o].expr, (base + 0) % WordSize)
    <2>1. f.word[o].back = o + 2 /\ o \in Nat
      <3>1. line \in 1 .. Len(source) /\ source \in Sources
        BY <1>2, SourceIs DEF IInv, TypeOK
      <3>. QED
        BY <1>1, <1>2, <1>3, <3>1, DollarAssumption
    <2>2. Dollar(Size + o, o + 2) = (Abstract!OrgAt(line) + Size) % WordSize
      BY <1>4, <2>1, DollarIs
    <2>3. base + 0 = Abstract!OrgAt(line) + Size
      <3>1. Abstract!OrgAt(line) \in Nat
        BY OrgAtType DEF IInv, TypeOK, Word
      <3>. QED
        BY <1>4, <3>1
    <2>. QED
      BY <2>1, <2>2, <2>3
  <1>6. ASSUME NEW x
        PROVE  x \in Abstract!Operands(line) <=>
               \/ \E o \in DOMAIN R : x = [expr |-> R[o], at |-> o, how |-> "rel"]
               \/ \E o \in DOMAIN B : x = [expr |-> B[o].expr, at |-> o, how |-> B[o].op]
               \/ \E o \in DOMAIN w : x = [expr |-> w[o], at |-> o, how |-> "word"]
    <2>1. Abstract!Operands(line) = OperandsOf(Body, base)
      BY <1>2, OperandsAre
    <2>2. x \in OperandsOf(Body, base) <=>
          \/ \E o \in DOMAIN R : x = [expr |-> R[o], at |-> o, how |-> "rel"]
          \/ \E o \in DOMAIN B : x = [expr |-> B[o].expr, at |-> o, how |-> B[o].op]
          \/ \E o \in DOMAIN f.word :
               x = [expr |-> ReplaceDollar(f.word[o].expr, (base + 0) % WordSize), at |-> o, how |-> "word"]
      BY <1>1, OpcodeOperands
    <2> HIDE DEF w, base, f, R, B
    <2>. QED
      BY <1>3, <1>5, <2>1, <2>2
  <1>7. \A o \in DOMAIN B : B[o] = [expr |-> B[o].expr, op |-> B[o].op] /\ B[o].op \in {"+", "-"}
    BY <1>2 DEF IsTemplate
  <1> HIDE DEF f, R, B, w, base
  <1>8. Kept
    <2>1. \A a \in Nat : a < Size => (a \in DOMAIN rel_addr => a \in DOMAIN rel_addr' /\ rel_addr'[a] = rel_addr[a])
      BY <1>1, <1>3, <1>4, MergeKeeps
    <2>2. \A a \in Nat : a < Size => (a \in DOMAIN byte_expr => a \in DOMAIN byte_expr' /\ byte_expr'[a] = byte_expr[a])
      BY <1>1, <1>3, <1>4, MergeKeeps
    <2>3. \A a \in Nat : a < Size => (a \in DOMAIN word_expr => a \in DOMAIN word_expr' /\ word_expr'[a] = word_expr[a])
      BY <1>1, <1>3, <1>4, MergeKeeps
    <2>. QED
      BY <2>1, <2>2, <2>3 DEF Kept
  <1>9. ASSUME NEW x \in Abstract!Operands(line), NEW a \in Nat, a = Abstract!Start(line) + x.at
        PROVE  HeldAt(x, a)'
    <2>1. CASE \E o \in DOMAIN R : x = [expr |-> R[o], at |-> o, how |-> "rel"]
      <3>1. PICK o \in DOMAIN R : x = [expr |-> R[o], at |-> o, how |-> "rel"]
        BY <2>1
      <3>2. x.how = "rel" /\ x.expr = R[o] /\ a = Size + o
        BY <1>4, <1>9, <3>1
      <3>3. a \in DOMAIN rel_addr' /\ rel_addr'[a] = R[o]
        <4>1. Size + o \in DOMAIN Merge(rel_addr, Size, R) /\ Merge(rel_addr, Size, R)[Size + o] = R[o]
          BY <1>3, <1>4, <3>1, MergeAt
        <4>. QED
          BY <1>1, <3>2, <4>1
      <3>. QED
        BY <3>2, <3>3 DEF HeldAt
    <2>2. CASE \E o \in DOMAIN B : x = [expr |-> B[o].expr, at |-> o, how |-> B[o].op]
      <3>1. PICK o \in DOMAIN B : x = [expr |-> B[o].expr, at |-> o, how |-> B[o].op]
        BY <2>2
      <3>2. x.how \in {"+", "-"} /\ B[o] = [expr |-> x.expr, op |-> x.how] /\ a = Size + o
        BY <1>4, <1>7, <1>9, <3>1
      <3>3. a \in DOMAIN byte_expr' /\ byte_expr'[a] = B[o]
        <4>1. Size + o \in DOMAIN Merge(byte_expr, Size, B) /\ Merge(byte_expr, Size, B)[Size + o] = B[o]
          BY <1>3, <1>4, <3>1, MergeAt
        <4>. QED
          BY <1>1, <3>2, <4>1
      <3>. QED
        BY <3>2, <3>3 DEF HeldAt
    <2>3. CASE \E o \in DOMAIN w : x = [expr |-> w[o], at |-> o, how |-> "word"]
      <3>1. PICK o \in DOMAIN w : x = [expr |-> w[o], at |-> o, how |-> "word"]
        BY <2>3
      <3>2. x.how = "word" /\ x.expr = w[o] /\ a = Size + o
        BY <1>4, <1>9, <3>1
      <3>3. a \in DOMAIN word_expr' /\ word_expr'[a] = w[o]
        <4>1. Size + o \in DOMAIN Merge(word_expr, Size, w) /\ Merge(word_expr, Size, w)[Size + o] = w[o]
          BY <1>3, <1>4, <3>1, MergeAt
        <4>. QED
          BY <1>1, <3>2, <4>1
      <3>. QED
        BY <3>2, <3>3 DEF HeldAt
    <2>. QED
      BY <1>6, <2>1, <2>2, <2>3
  <1>10. Grown
    <2>1. DOMAIN rel_addr \subseteq Nat /\ DOMAIN byte_expr \subseteq Nat /\ DOMAIN word_expr \subseteq Nat
      BY DEF IInv, TypeOK, IsMap
    <2>2. ASSUME NEW a \in DOMAIN rel_addr'
          PROVE  (a \in DOMAIN rel_addr /\ rel_addr'[a] = rel_addr[a]) \/ Given(a, "rel", rel_addr'[a])
      <3>1. a \in DOMAIN Merge(rel_addr, Size, R) /\ rel_addr'[a] = Merge(rel_addr, Size, R)[a]
        BY <1>1
      <3>2. CASE \E o \in DOMAIN R : a = Size + o /\ rel_addr'[a] = R[o]
        <4>1. PICK o \in DOMAIN R : a = Size + o /\ rel_addr'[a] = R[o]
          BY <3>2
        <4> DEFINE x == [expr |-> R[o], at |-> o, how |-> "rel"]
        <4>2. x \in Abstract!Operands(line)
          BY <1>6
        <4>3. x.at = o /\ x.how = "rel" /\ x.expr = R[o]
          OBVIOUS
        <4> HIDE DEF x
        <4>. QED
          BY <1>2, <1>4, <4>1, <4>2, <4>3 DEF Given
      <3>. QED
        BY <1>3, <1>4, <2>1, <3>1, <3>2, MergeFrom
    <2>3. ASSUME NEW a \in DOMAIN byte_expr'
          PROVE  (a \in DOMAIN byte_expr /\ byte_expr'[a] = byte_expr[a]) \/ Given(a, byte_expr'[a].op, byte_expr'[a].expr)
      <3>1. a \in DOMAIN Merge(byte_expr, Size, B) /\ byte_expr'[a] = Merge(byte_expr, Size, B)[a]
        BY <1>1
      <3>2. CASE \E o \in DOMAIN B : a = Size + o /\ byte_expr'[a] = B[o]
        <4>1. PICK o \in DOMAIN B : a = Size + o /\ byte_expr'[a] = B[o]
          BY <3>2
        <4> DEFINE x == [expr |-> B[o].expr, at |-> o, how |-> B[o].op]
        <4>2. x \in Abstract!Operands(line)
          BY <1>6
        <4>3. x.at = o /\ x.how = B[o].op /\ x.expr = B[o].expr
          OBVIOUS
        <4> HIDE DEF x
        <4>. QED
          BY <1>2, <1>4, <4>1, <4>2, <4>3 DEF Given
      <3>. QED
        BY <1>3, <1>4, <2>1, <3>1, <3>2, MergeFrom
    <2>4. ASSUME NEW a \in DOMAIN word_expr'
          PROVE  (a \in DOMAIN word_expr /\ word_expr'[a] = word_expr[a]) \/ Given(a, "word", word_expr'[a])
      <3>1. a \in DOMAIN Merge(word_expr, Size, w) /\ word_expr'[a] = Merge(word_expr, Size, w)[a]
        BY <1>1
      <3>2. CASE \E o \in DOMAIN w : a = Size + o /\ word_expr'[a] = w[o]
        <4>1. PICK o \in DOMAIN w : a = Size + o /\ word_expr'[a] = w[o]
          BY <3>2
        <4> DEFINE x == [expr |-> w[o], at |-> o, how |-> "word"]
        <4>2. x \in Abstract!Operands(line)
          BY <1>6
        <4>3. x.at = o /\ x.how = "word" /\ x.expr = w[o]
          OBVIOUS
        <4> HIDE DEF x
        <4>. QED
          BY <1>2, <1>4, <4>1, <4>2, <4>3 DEF Given
      <3>. QED
        BY <1>3, <1>4, <2>1, <3>1, <3>2, MergeFrom
    <2>. QED
      BY <2>2, <2>3, <2>4 DEF Grown
  <1>. QED
    BY <1>8, <1>9, <1>10

\* So for an element of a DB: the next operand is in its one byte.
LEMMA DbItemRecords ==
  ASSUME IInv, InText, Extent, PushDbItem, phase' \notin Lost
  PROVE  /\ Kept /\ Grown
         /\ \A x \in Abstract!Operands(line) : \A a \in Nat :
              /\ x.at \in Progress .. Progress + Len(ItemBytes(Body.items)[item + 1]) - 1
              /\ a = Abstract!Start(line) + x.at
              => HeldAt(x, a)'
  <1> DEFINE items == Body.items
             L == Len(items)
             s == ItemBytes(items)
             off == ItemOffsets(items)
             it == items[item + 1]
             base == Abstract!OrgAt(line) + Abstract!Start(line)
  <1>1. /\ Body.k = "db" /\ line <= Len(source) /\ phase \notin Lost /\ item < L
        /\ phase # "opcode"
        /\ rel_addr' = rel_addr /\ word_expr' = word_expr
        /\ \/ it.k = "string" /\ byte_expr' = byte_expr
           \/ it.k = "expr" /\ byte_expr' = Merge(byte_expr, Size, [o \in {0} |-> [expr |-> it.expr, op |-> "+"]])
    BY DEF PushDbItem, AtBody, Fail, Lost
  <1>2. items \in Seq(DbItem) /\ Abstract!Body(line) = Body /\ line \in Abstract!Lines
    BY <1>1, BodyOf
  <1>3. L \in Nat /\ DOMAIN items = 1 .. L /\ item \in Nat /\ item + 1 \in 1 .. L /\ item + 1 \in 1 .. L + 1
    BY <1>1, <1>2, DbItemIs DEF IInv, TypeOK
  <1>4. Progress = ItemAt(items, item + 1)
    <2>1. ~(line > Len(source))
      BY <1>1, SourceIs DEF IInv, TypeOK, InText
    <2>. QED
      BY <1>1, <2>1 DEF Progress
  <1>5. Size = Abstract!Start(line) + Progress /\ Size \in Nat /\ Progress \in Nat /\ Abstract!Start(line) \in Nat
    <2>1. Progress \in Nat
      BY <1>2, <1>3, <1>4, ItemAtIs
    <2>. QED
      BY <1>1, <2>1, SizeIsNat, StartIs DEF Extent, InText, IInv, TypeOK
  <1> DEFINE new == [o \in {0} |-> [expr |-> it.expr, op |-> "+"]]
  <1>6. DOMAIN new = {0} /\ new[0] = [expr |-> it.expr, op |-> "+"] /\ DOMAIN new \subseteq Nat
    OBVIOUS
  <1>7. Kept
    <2> HIDE DEF new, items, it, L
    <2>1. \A a \in Nat : a < Size => (a \in DOMAIN byte_expr => a \in DOMAIN byte_expr' /\ byte_expr'[a] = byte_expr[a])
      <3>1. CASE byte_expr' = byte_expr
        BY <3>1
      <3>2. CASE byte_expr' = Merge(byte_expr, Size, new)
        BY <1>5, <1>6, <3>2, MergeKeeps
      <3>. QED
        BY <1>1, <3>1, <3>2 DEF new
    <2>. QED
      BY <1>1, <2>1 DEF Kept
  <1>8. ASSUME NEW x \in Abstract!Operands(line), NEW a \in Nat,
               x.at \in Progress .. Progress + Len(s[item + 1]) - 1, a = Abstract!Start(line) + x.at
        PROVE  HeldAt(x, a)'
    <2>1. x \in OperandsOf(Body, base)
      BY <1>2, OperandsAre
    <2>2. PICK j \in 1 .. L :
             items[j].k = "expr" /\ x = [expr |-> items[j].expr, at |-> ItemAt(items, j), how |-> "+"]
      BY <1>1, <1>3, <2>1, DbOperands
    <2>3. Offsets(off, s) /\ s \in Seq(Seq(Byte)) /\ Len(s) = L
      BY <1>2, ItemOffsetsAre, ItemBytesAre
    <2>4. Len(s[j]) = 1
      <3>1. s[j] = <<0>>
        BY <1>2, <2>2, ItemBytesAre
      <3>. QED
        BY <3>1
    <2>5. x.at = off[j] /\ off[item + 1] = Progress /\ off[j] \in Nat
      <3>1. j \in 1 .. L + 1
        BY <1>3
      <3>. QED
        BY <1>2, <1>3, <1>4, <2>2, <3>1, ItemAtIs DEF ItemOffsets
    <2> DEFINE y == off[j] - off[item + 1] + 1
    <2>6. y \in 1 .. Len(s[item + 1]) /\ off[item + 1] + y = off[j] + 1
      <3>1. Len(s[item + 1]) \in Nat
        BY <1>3, <2>3, OffsetsGrow
      <3> HIDE DEF off, s
      <3>. QED
        BY <1>5, <1>8, <2>5, <3>1
    <2>7. j = item + 1
      <3> HIDE DEF off, s, y
      <3>1. 1 \in 1 .. Len(s[j])
        BY <2>4
      <3>. QED
        BY <1>3, <2>3, <2>6, <3>1, OffsetsApart
    <2>8. it.k = "expr" /\ x.expr = it.expr /\ x.how = "+" /\ a = Size + 0
      <3>1. x.at = Progress
        BY <2>5, <2>7
      <3>. QED
        BY <1>5, <1>8, <2>2, <2>7, <3>1
    <2>9. byte_expr' = Merge(byte_expr, Size, new)
      BY <1>1, <2>8
    <2> HIDE DEF new, it
    <2>10. a \in DOMAIN byte_expr' /\ byte_expr'[a] = new[0]
      <3>1. Size + 0 \in DOMAIN Merge(byte_expr, Size, new) /\ Merge(byte_expr, Size, new)[Size + 0] = new[0]
        <4>1. 0 \in DOMAIN new
          BY <1>6
        <4>. QED
          BY <1>5, <1>6, <4>1, MergeAt
      <3>. QED
        BY <2>8, <2>9, <3>1
    <2>. QED
      BY <1>6, <2>8, <2>10 DEF HeldAt
  <1>9. Grown
    <2>1. ASSUME NEW a \in DOMAIN byte_expr'
          PROVE  \/ a \in DOMAIN byte_expr /\ byte_expr'[a] = byte_expr[a]
                 \/ Given(a, byte_expr'[a].op, byte_expr'[a].expr)
      <3>1. CASE byte_expr' = byte_expr
        BY <3>1
      <3>2. CASE it.k = "expr" /\ byte_expr' = Merge(byte_expr, Size, new)
        <4>1. DOMAIN byte_expr \subseteq Nat
          BY DEF IInv, TypeOK, IsMap
        <4>2. CASE \E o \in DOMAIN new : a = Size + o /\ byte_expr'[a] = new[o]
          <5> DEFINE x == [expr |-> it.expr, at |-> ItemAt(items, item + 1), how |-> "+"]
          <5>1. x \in OperandsOf(Body, base)
            BY <1>1, <1>3, <3>2, DbOperands
          <5>2. x \in Abstract!Operands(line)
            BY <1>2, <5>1, OperandsAre
          <5>3. x.at = Progress /\ x.how = "+" /\ x.expr = it.expr
            BY <1>4
          <5>4. a = Size + 0 /\ byte_expr'[a] = [expr |-> it.expr, op |-> "+"]
            BY <1>6, <4>2
          <5>5. byte_expr'[a].op = "+" /\ byte_expr'[a].expr = it.expr
            BY <5>4
          <5>6. a = Abstract!Start(line) + x.at
            BY <1>5, <5>3, <5>4
          <5> HIDE DEF x, it
          <5>. QED
            BY <1>2, <5>2, <5>3, <5>5, <5>6 DEF Given
        <4> HIDE DEF new
        <4>. QED
          BY <1>5, <1>6, <3>2, <4>1, <4>2, MergeFrom
      <3>. QED
        BY <1>1, <3>1, <3>2
    <2>. QED
      BY <1>1, <2>1 DEF Grown
  <1>. QED
    BY <1>7, <1>8, <1>9

LEMMA DwItemRecords ==
  ASSUME IInv, InText, Origin, Extent, PushDwItem
  PROVE  /\ Kept /\ Grown
         /\ \A x \in Abstract!Operands(line) : \A a \in Nat :
              x.at \in Progress .. Progress + 1 /\ a = Abstract!Start(line) + x.at => HeldAt(x, a)'
  <1> DEFINE items == Body.items
             L == Len(items)
             base == Abstract!OrgAt(line) + Abstract!Start(line)
             e == ReplaceDollar(items[item + 1], Dollar(Size, 2))
             new == [o \in {0} |-> e]
  <1>1. /\ Body.k = "dw" /\ line <= Len(source) /\ phase \notin Lost /\ item < L
        /\ phase # "opcode"
        /\ rel_addr' = rel_addr /\ byte_expr' = byte_expr
        /\ word_expr' = Merge(word_expr, Size, new)
    BY DEF PushDwItem, AtBody, Lost
  <1>2. items \in Seq(Expr) /\ L \in Nat /\ Abstract!Body(line) = Body /\ line \in Abstract!Lines
    BY <1>1, BodyOf
  <1>3. DOMAIN items = 1 .. L /\ item \in Nat /\ item + 1 \in 1 .. L
    <2> DEFINE E == Expr
    <2> HIDE DEF E
    <2>1. items \in Seq(E)
      BY <1>2 DEF E
    <2>. QED
      BY <1>1, <1>2, <2>1 DEF IInv, TypeOK
  <1>4. Progress = 2 * item
    <2>1. ~(line > Len(source))
      BY <1>1, SourceIs DEF IInv, TypeOK, InText
    <2>. QED
      BY <1>1, <2>1 DEF Progress
  <1>5. Size = Abstract!Start(line) + 2 * item /\ Size \in Nat /\ Abstract!Start(line) \in Nat
    BY <1>1, <1>4, SizeIsNat, StartIs DEF Extent, InText, IInv, TypeOK
  <1>6. DOMAIN new = {0} /\ new[0] = e /\ DOMAIN new \subseteq Nat
    OBVIOUS
  <1>7. Kept
    <2> HIDE DEF new
    <2>1. \A a \in Nat : a < Size => (a \in DOMAIN word_expr => a \in DOMAIN word_expr' /\ word_expr'[a] = word_expr[a])
      BY <1>1, <1>5, <1>6, MergeKeeps
    <2>. QED
      BY <1>1, <2>1 DEF Kept
  <1>9. Dollar(Size, 2) = (base + 2 * item) % WordSize
    <2>1. Dollar(Size + 0, 0 + 2) = (Abstract!OrgAt(line) + Size) % WordSize
      BY <1>5, DollarIs
    <2>2. Abstract!OrgAt(line) \in Nat
      BY OrgAtType DEF IInv, TypeOK, Word
    <2>3. Abstract!OrgAt(line) + Size = base + 2 * item
      BY <1>3, <1>5, <2>2
    <2>. QED
      BY <1>5, <2>1, <2>3
  <1>8. ASSUME NEW x \in Abstract!Operands(line), NEW a \in Nat,
               x.at \in Progress .. Progress + 1, a = Abstract!Start(line) + x.at
        PROVE  HeldAt(x, a)'
    <2>1. x \in OperandsOf(Body, base)
      BY <1>2, OperandsAre
    <2>2. PICK j \in 1 .. L :
             x = [expr |-> ReplaceDollar(items[j], (base + 2 * (j - 1)) % WordSize),
                  at |-> 2 * (j - 1), how |-> "word"]
      <3>1. PICK j \in DOMAIN Body.items :
               x = [expr |-> ReplaceDollar(Body.items[j], (base + 2 * (j - 1)) % WordSize),
                    at |-> 2 * (j - 1), how |-> "word"]
        <4> HIDE DEF base
        <4>. QED
          BY <1>1, <2>1, DwOperands
      <3>. QED
        BY <1>3, <3>1
    <2>3. j = item + 1 /\ a = Size + 0
      BY <1>3, <1>4, <1>5, <1>8, <2>2
    <2>5. x.expr = e /\ x.how = "word"
      <3>1. j - 1 = item
        BY <1>3, <2>3
      <3>. QED
        BY <1>9, <2>2, <2>3, <3>1
    <2> HIDE DEF new, e
    <2>6. a \in DOMAIN word_expr' /\ word_expr'[a] = new[0]
      <3>1. Size + 0 \in DOMAIN Merge(word_expr, Size, new) /\ Merge(word_expr, Size, new)[Size + 0] = new[0]
        <4>1. 0 \in DOMAIN new
          BY <1>6
        <4>. QED
          BY <1>5, <1>6, <4>1, MergeAt
      <3>. QED
        BY <1>1, <2>3, <3>1
    <2>. QED
      BY <1>6, <2>5, <2>6 DEF HeldAt
  <1>10. Grown
    <2>1. ASSUME NEW a \in DOMAIN word_expr'
          PROVE  (a \in DOMAIN word_expr /\ word_expr'[a] = word_expr[a]) \/ Given(a, "word", word_expr'[a])
      <3>1. DOMAIN word_expr \subseteq Nat
        BY DEF IInv, TypeOK, IsMap
      <3>2. CASE \E o \in DOMAIN new : a = Size + o /\ word_expr'[a] = new[o]
        <4> DEFINE j == item + 1
                   x == [expr |-> ReplaceDollar(Body.items[j], (base + 2 * (j - 1)) % WordSize),
                         at |-> 2 * (j - 1), how |-> "word"]
        <4>1. x \in OperandsOf(Body, base)
          <5>1. j \in DOMAIN Body.items
            BY <1>3
          <5> HIDE DEF base, j
          <5>. QED
            BY <1>1, <5>1, DwOperands
        <4>2. x \in Abstract!Operands(line)
          BY <1>2, <4>1, OperandsAre
        <4>3. j - 1 = item
          BY <1>3
        <4>4. x.at = 2 * item /\ x.how = "word" /\ x.expr = e
          BY <1>9, <4>3
        <4>5. a = Size + 0 /\ word_expr'[a] = e
          BY <1>6, <3>2
        <4>6. a = Abstract!Start(line) + x.at
          BY <1>5, <4>4, <4>5
        <4> HIDE DEF x, e
        <4>. QED
          BY <1>2, <4>2, <4>4, <4>5, <4>6 DEF Given
      <3> HIDE DEF new
      <3>. QED
        BY <1>1, <1>5, <1>6, <3>1, <3>2, MergeFrom
    <2>. QED
      BY <1>1, <2>1 DEF Grown
  <1>. QED
    BY <1>7, <1>8, <1>10

LEMMA SameGiven ==
  ASSUME source' = source
  PROVE  \A a, how, e : Given(a, how, e)' <=> Given(a, how, e)
  <1>1. \A i : Abstract!Operands(i)' = Abstract!Operands(i)
    BY SameOperands
  <1>2. Abstract!Lines' = Abstract!Lines /\ \A i : Abstract!Start(i)' = Abstract!Start(i)
    BY SameText, SameStart
  <1>. QED
    BY <1>1, <1>2 DEF Given

LEMMA PushRecords ==
  ASSUME IInv, InText, Origin, Extent, PushOpcode \/ PushDbItem \/ PushDwItem, phase' \notin Lost
  PROVE  /\ Kept /\ Grown
         /\ \E t : /\ Pushes(t)
                   /\ \A x \in Abstract!Operands(line) : \A a \in Nat :
                        x.at \in Progress .. Progress + Len(t) - 1 /\ a = Abstract!Start(line) + x.at
                          => HeldAt(x, a)'
  <1>1. CASE PushOpcode
    BY <1>1, OpcodePushes, OpcodeRecords
  <1>2. CASE PushDbItem
    BY <1>2, DbItemPushes, DbItemRecords
  <1>3. CASE PushDwItem
    <2>1. Len(Zeros(2)) - 1 = 1
      BY DEF Zeros
    <2>2. Progress \in Nat
      <3>1. phase \in Loading
        BY <1>3 DEF PushDwItem, AtBody, Loading
      <3>. QED
        BY <3>1, ProgressType
    <2>3. Progress + Len(Zeros(2)) - 1 = Progress + 1
      BY <2>2 DEF Zeros
    <2>. QED
      BY <1>3, <2>3, DwItemPushes, DwItemRecords
  <1>. QED
    BY <1>1, <1>2, <1>3

LEMMA RecordedStep ==
  IInv /\ InText /\ Origin /\ Extent /\ Recorded /\ [Next]_vars => Recorded'
  <1> SUFFICES ASSUME IInv, InText, Origin, Extent, Recorded, [Next]_vars, phase' \notin Lost
               PROVE  Recorded'
    BY DEF Recorded
  <1>1. source' = source /\ source \in Sources /\ memory \in Seq(Byte) /\ Size \in Nat
    BY FixupsFrame, SizeIsNat DEF IInv, TypeOK
  <1>2. phase \notin Lost
    BY LostStays DEF vars
  <1>3. ASSUME UNCHANGED fixups, Size' = Size PROVE Recorded'
    <2>1. \A i : Abstract!Operands(i)' = Abstract!Operands(i)
      BY <1>1, SameOperands
    <2>2. Abstract!Lines' = Abstract!Lines /\ \A i : Abstract!Start(i)' = Abstract!Start(i)
      BY <1>1, SameText, SameStart
    <2>3. rel_addr' = rel_addr /\ byte_expr' = byte_expr /\ word_expr' = word_expr
      BY <1>3 DEF fixups
    <2>. QED
      BY <1>2, <1>3, <2>1, <2>2, <2>3 DEF Recorded, HeldAt
  <1>4. CASE UNCHANGED vars
    BY <1>3, <1>4 DEF vars, fixups, Size
  <1>5. CASE Next /\ EndLine
    <2>1. NextLine
      BY <1>5, LineFrame
    <2>2. phase \in Loading /\ line \in Abstract!Lines
      BY <1>5, <2>1, LineEnding DEF EndLine, EmptyLine, SetOrg, AccountCode, AccountDb, ReserveDs,
         AccountDw, ReturnEqu, AtBody, Loading
    <2>3. UNCHANGED fixups
      BY <1>5 DEF EndLine, EmptyLine, SetOrg, AccountCode, AccountDb, ReserveDs, AccountDw,
         ReturnEqu, fixups
    <2>4. CASE memory' = memory
      BY <1>3, <2>3, <2>4 DEF Size
    <2>5. CASE memory' # memory
      <3> DEFINE n == Abstract!Length(line)
      <3>1. Body.k = "ds" /\ memory' = memory \o Zeros(n) /\ Progress = 0
        BY <1>5, <2>1, <2>5, LineCloses
      <3>2. n \in Nat /\ line <= Len(source) /\ Abstract!Start(line) \in Nat
        BY <1>1, <2>2, SourceIs, StartIs DEF InText
      <3>3. Abstract!Operands(line) = {}
        <4>1. Abstract!Body(line) = Body
          BY <3>2, BodyOf
        <4>. QED
          BY <3>1, <4>1, OperandsAre, NoOperands
      <3>4. Size' = Size + n
        BY <1>1, <3>1, <3>2, ZerosType DEF Size
      <3>5. Size = Abstract!Start(line) + 0
        BY <1>2, <3>1, <3>2 DEF Extent
      <3>6. Kept
        BY <2>3 DEF Kept, fixups
      <3> HIDE DEF n
      <3>7. 0 + n <= Abstract!Length(line)
        BY <3>2 DEF n
      <3>. QED
        BY <1>1, <1>2, <2>2, <3>2, <3>3, <3>4, <3>5, <3>6, <3>7, GrowthRecords
    <2>. QED
      BY <2>4, <2>5
  <1>6. CASE Next /\ (PushOpcode \/ PushDbItem \/ PushDwItem)
    <2>1. phase \in Loading /\ line \in Abstract!Lines
      BY <1>1, <1>6, SourceIs DEF PushOpcode, PushDbItem, PushDwItem, AtBody, Loading, InText
    <2>2. PICK t : /\ Pushes(t)
                   /\ \A x \in Abstract!Operands(line) : \A a \in Nat :
                        x.at \in Progress .. Progress + Len(t) - 1 /\ a = Abstract!Start(line) + x.at
                          => HeldAt(x, a)'
      BY <1>6, PushRecords
    <2>3. Kept
      BY <1>6, PushRecords
    <2>4. Progress \in Nat /\ Abstract!Start(line) \in Nat
      BY <1>1, <2>1, ProgressType, StartIs, SourceIs
    <2>5. t \in Seq(Byte) /\ memory' = memory \o t /\ Progress + Len(t) <= Abstract!Length(line)
      BY <2>2 DEF Pushes
    <2>6. Len(t) \in Nat /\ Size' = Size + Len(t)
      BY <1>1, <2>5 DEF Size
    <2>7. Size = Abstract!Start(line) + Progress
      BY <1>2 DEF Extent
    <2>. QED
      BY <1>1, <1>2, <2>1, <2>2, <2>3, <2>4, <2>5, <2>6, <2>7, GrowthRecords
  <1>7. CASE Next /\ ~EndLine /\ ~(PushOpcode \/ PushDbItem \/ PushDwItem)
    <2>1. UNCHANGED fixups /\ (PatchRel \/ PatchByte \/ PatchWord \/ memory' = memory)
      BY <1>7, OtherSteps
    <2>2. Size' = Size
      <3>1. CASE PatchRel \/ PatchByte \/ PatchWord
        BY <3>1, PatchKeepsSize DEF Size
      <3>. QED
        BY <2>1, <3>1 DEF Size
    <2>. QED
      BY <1>3, <2>1, <2>2
  <1>. QED
    BY <1>4, <1>5, <1>6, <1>7

LEMMA SourcedStep ==
  IInv /\ InText /\ Origin /\ Extent /\ Sourced /\ [Next]_vars => Sourced'
  <1> SUFFICES ASSUME IInv, InText, Origin, Extent, Sourced, [Next]_vars, phase' \notin Lost
               PROVE  Sourced'
    BY DEF Sourced
  <1>1. source' = source /\ phase \notin Lost
    BY FixupsFrame, LostStays DEF vars
  <1>2. Grown
    <2>1. CASE UNCHANGED fixups
      BY <2>1 DEF fixups, Grown
    <2>2. CASE PushOpcode \/ PushDbItem \/ PushDwItem
      BY <2>2, PushRecords
    <2>. QED
      BY <2>1, <2>2, FixupsFrame
  <1>3. \A a, how, e : Given(a, how, e)' <=> Given(a, how, e)
    BY <1>1, SameGiven
  <1>4. ASSUME NEW a \in DOMAIN rel_addr' PROVE Given(a, "rel", rel_addr'[a])
    BY <1>1, <1>2 DEF Grown, Sourced
  <1>5. ASSUME NEW a \in DOMAIN byte_expr' PROVE Given(a, byte_expr'[a].op, byte_expr'[a].expr)
    BY <1>1, <1>2 DEF Grown, Sourced
  <1>6. ASSUME NEW a \in DOMAIN word_expr' PROVE Given(a, "word", word_expr'[a])
    BY <1>1, <1>2 DEF Grown, Sourced
  <1>7. Sourced' <=>
          (phase' \notin Lost =>
            /\ \A a \in DOMAIN rel_addr' : Given(a, "rel", rel_addr[a])'
            /\ \A a \in DOMAIN byte_expr' : Given(a, byte_expr[a].op, byte_expr[a].expr)'
            /\ \A a \in DOMAIN word_expr' : Given(a, "word", word_expr[a])')
    BY DEF Sourced
  <1>8. /\ \A a : Given(a, "rel", rel_addr[a])' <=> Given(a, "rel", rel_addr'[a])
        /\ \A a : Given(a, byte_expr[a].op, byte_expr[a].expr)' <=> Given(a, byte_expr'[a].op, byte_expr'[a].expr)
        /\ \A a : Given(a, "word", word_expr[a])' <=> Given(a, "word", word_expr'[a])
    <2>1. \A i : Abstract!Operands(i)' = Abstract!Operands(i)
      BY <1>1, SameOperands
    <2>2. Abstract!Lines' = Abstract!Lines /\ \A i : Abstract!Start(i)' = Abstract!Start(i)
      BY <1>1, SameText, SameStart
    <2>. QED
      BY <2>1, <2>2 DEF Given
  <1>. QED
    BY <1>4, <1>5, <1>6, <1>7, <1>8

-----------------------------------------------------------------------------
(* The blocks: the kinds of the bytes accounted for.                       *)

LineKinds == [i \in Abstract!Lines |-> Abstract!Kinds(i)]
FlatKinds == FlattenSeq(LineKinds)

LEMMA LineKindsAre ==
  ASSUME source \in Sources
  PROVE  /\ LineKinds \in Seq(Seq(Kinds)) /\ Len(LineKinds) = Len(source)
         /\ Offsets(LineOffsets, LineKinds)
         /\ \A i \in Abstract!Lines :
              /\ LineKinds[i] = Abstract!Kinds(i) /\ Len(Abstract!Kinds(i)) = Abstract!Length(i)
              /\ \A x \in 1 .. Abstract!Length(i) :
                   Abstract!Kinds(i)[x] = IF source[i].body.k = "opcode" THEN "code" ELSE source[i].body.k
  <1> DEFINE N == Len(source)
             U == Seq(Kinds)
  <1>1. N \in Nat /\ Abstract!Lines = 1 .. N
    BY SourceIs
  <1>2. ASSUME NEW i \in Abstract!Lines
        PROVE  /\ Abstract!Kinds(i) \in U /\ Len(Abstract!Kinds(i)) = Abstract!Length(i)
               /\ \A x \in 1 .. Abstract!Length(i) :
                   Abstract!Kinds(i)[x] = IF source[i].body.k = "opcode" THEN "code" ELSE source[i].body.k
    <2> DEFINE n == Abstract!Length(i)
               t == IF source[i].body.k = "opcode" THEN "code" ELSE source[i].body.k
    <2>1. n \in Nat
      BY StartIs
    <2>2. Abstract!Kinds(i) = [j \in 1 .. n |-> t]
      BY SourceIs DEF Abstract!Kinds
    <2>3. n = 0 \/ t \in Kinds
      BY LineLengthIs DEF Kinds
    <2> HIDE DEF n, t
    <2>4. Abstract!Kinds(i) \in U /\ Len(Abstract!Kinds(i)) = n /\ \A x \in 1 .. n : Abstract!Kinds(i)[x] = t
      BY <2>1, <2>2, <2>3
    <2>. QED
      BY <2>4 DEF n, t
  <1>3. LineKinds = [i \in 1 .. N |-> Abstract!Kinds(i)]
    BY <1>1 DEF LineKinds
  <1>4. LineKinds \in Seq(U) /\ Len(LineKinds) = N /\ \A i \in 1 .. N : LineKinds[i] = Abstract!Kinds(i)
    <2>1. \A i \in 1 .. N : Abstract!Kinds(i) \in U
      BY <1>1, <1>2
    <2> HIDE DEF U, N
    <2>. QED
      BY <1>1, <1>3, <2>1
  <1>5. Offsets(LineOffsets, LineKinds)
    <2>1. /\ Len(Skeletons) = N /\ LineOffsets[1] = 0
          /\ \A i \in 1 .. N : LineOffsets[i] \in Nat /\ LineOffsets[i + 1] = LineOffsets[i] + Len(Skeletons[i])
      BY LineOffsetsAre DEF Offsets
    <2>2. \A i \in 1 .. N : Len(Skeletons[i]) = Len(LineKinds[i])
      BY <1>1, <1>2, <1>4, SkeletonType DEF Skeletons
    <2>. QED
      BY <1>4, <2>1, <2>2 DEF Offsets
  <1>. QED
    BY <1>1, <1>2, <1>4, <1>5

LEMMA FlatKindsAre ==
  ASSUME source \in Sources
  PROVE  /\ FlatKinds \in Seq(Kinds) /\ Len(FlatKinds) = Abstract!Start(Len(source) + 1)
         /\ \A i \in Abstract!Lines : \A x \in 1 .. Abstract!Length(i) :
              FlatKinds[Abstract!Start(i) + x] =
                IF source[i].body.k = "opcode" THEN "code" ELSE source[i].body.k
  <1> DEFINE N == Len(source)
             s == LineKinds
             off == LineOffsets
  <1>1. s \in Seq(Seq(Kinds)) /\ Len(s) = N /\ Offsets(off, s) /\ N \in Nat /\ Abstract!Lines = 1 .. N
    BY LineKindsAre, SourceIs
  <1>2. \A i \in 1 .. N + 1 : off[i] = Abstract!Start(i)
    BY DEF LineOffsets
  <1> HIDE DEF s, off, N
  <1>3. FlatKinds \in Seq(Kinds) /\ MadeBy(FlatKinds, N, s, off)
    BY <1>1, FlattenAt DEF FlatKinds, s
  <1>4. Len(FlatKinds) = Abstract!Start(N + 1)
    BY <1>1, <1>2, <1>3 DEF MadeBy
  <1>5. ASSUME NEW i \in Abstract!Lines, NEW x \in 1 .. Abstract!Length(i)
        PROVE  FlatKinds[Abstract!Start(i) + x] =
                 IF source[i].body.k = "opcode" THEN "code" ELSE source[i].body.k
    <2>1. i \in 1 .. N /\ i \in 1 .. N + 1 /\ x \in 1 .. Len(s[i])
      BY <1>1, LineKindsAre DEF s
    <2>2. FlatKinds[off[i] + x] = s[i][x]
      BY <1>3, <2>1 DEF MadeBy
    <2>3. s[i][x] = IF source[i].body.k = "opcode" THEN "code" ELSE source[i].body.k
      BY LineKindsAre DEF s
    <2>. QED
      BY <1>2, <2>1, <2>2, <2>3
  <1>. QED
    BY <1>3, <1>4, <1>5 DEF N

LEMMA SameKinds ==
  ASSUME source' = source
  PROVE  FlatKinds' = FlatKinds
  <1>1. \A i : Abstract!Kinds(i)' = Abstract!Kinds(i)
    <2>1. \A i : Abstract!Kinds(i) = [j \in 1 .. Abstract!Length(i) |->
                   IF Abstract!Body(i).k = "opcode" THEN "code" ELSE Abstract!Body(i).k]
      BY DEF Abstract!Kinds
    <2>2. \A i : Abstract!Kinds(i)' = [j \in 1 .. Abstract!Length(i)' |->
                   IF (Abstract!Body(i)').k = "opcode" THEN "code" ELSE (Abstract!Body(i)').k]
      BY DEF Abstract!Kinds
    <2>3. ASSUME NEW i
          PROVE  Abstract!Kinds(i)' = Abstract!Kinds(i)
      <3>1. Abstract!Length(i)' = Abstract!Length(i) /\ Abstract!Body(i)' = Abstract!Body(i)
        BY SameText
      <3> DEFINE n == Abstract!Length(i)
                 b == Abstract!Body(i)
                 old == Abstract!Kinds(i)
                 new == Abstract!Kinds(i)'
      <3>2. old = [j \in 1 .. n |-> IF b.k = "opcode" THEN "code" ELSE b.k]
        BY <2>1
      <3>3. new = [j \in 1 .. n |-> IF b.k = "opcode" THEN "code" ELSE b.k]
        BY <2>2, <3>1
      <3> HIDE DEF old, new, n, b
      <3>4. new = old
        BY <3>2, <3>3
      <3>. QED
        BY <3>4 DEF new, old
    <2>. QED
      BY <2>3
  <1>2. LineKinds' = LineKinds
    BY <1>1, SameText DEF LineKinds
  <1>. QED
    BY <1>2 DEF FlatKinds

Classified ==
  phase \notin Lost =>
    /\ Len(Expand(mem_type)) = last_size
    /\ Expand(mem_type) \in Seq(Kinds)
    /\ \A p \in 1 .. last_size : Expand(mem_type)[p] = FlatKinds[p]

LEMMA ClassifiedStep ==
  IInv /\ InText /\ Extent /\ Classified /\ [Next]_vars => Classified'
  <1> SUFFICES ASSUME IInv, InText, Extent, Classified, [Next]_vars, phase' \notin Lost
               PROVE  Classified'
    BY DEF Classified
  <1>1. source' = source /\ source \in Sources /\ phase \notin Lost /\ last_size \in Nat
    BY FixupsFrame, LostStays DEF IInv, TypeOK, vars
  <1>2. FlatKinds' = FlatKinds
    BY <1>1, SameKinds
  <1>3. CASE mem_type' = mem_type /\ last_size' = last_size
    BY <1>1, <1>2, <1>3 DEF Classified
  <1>4. CASE Next /\ EndLine
    <2> DEFINE s == Abstract!Start(line)
               n == Abstract!Length(line)
               b == source[line].body
    <2>1. NextLine
      BY <1>4, LineFrame
    <2>2. line \in Abstract!Lines /\ Closed(s + n) /\ b = Body
      BY <1>1, <1>4, <2>1, LineEnding, LineCloses DEF Body
    <2>3. s \in Nat /\ n \in Nat /\ last_size = s
      BY <1>1, <2>2, StartIs, SourceIs DEF Extent
    <2>4. ASSUME NEW type \in Kinds, Account(type, s + n), IF b.k = "opcode" THEN type = "code" ELSE type = b.k
          PROVE  Classified'
      <3>1. s + n \in Nat /\ s + n >= last_size
        BY <2>3
      <3>2. /\ Len(Expand(mem_type')) = s + n /\ Expand(mem_type') \in Seq(Kinds)
            /\ \A p \in 1 .. s + n :
                 Expand(mem_type')[p] = IF p <= last_size THEN Expand(mem_type)[p] ELSE type
        BY <1>1, <2>4, <3>1, AccountTiles DEF Classified
      <3>3. last_size' = s + n
        BY <2>4 DEF Account
      <3>4. ASSUME NEW p \in 1 .. s + n
            PROVE  Expand(mem_type')[p] = FlatKinds[p]
        <4>1. CASE p <= last_size
          <5>1. p \in 1 .. last_size
            BY <2>3, <4>1
          <5>. QED
            BY <1>1, <3>2, <4>1, <5>1 DEF Classified
        <4>2. CASE ~(p <= last_size)
          <5> DEFINE x == p - s
          <5>1. x \in 1 .. n /\ p = s + x
            <6> HIDE DEF s, n
            <6>. QED
              BY <2>3, <4>2
          <5>2. FlatKinds[s + x] = IF b.k = "opcode" THEN "code" ELSE b.k
            BY <1>1, <2>2, <5>1, FlatKindsAre
          <5>. QED
            BY <2>4, <3>2, <4>2, <5>1, <5>2
        <4>. QED
          BY <4>1, <4>2
      <3>5. /\ Len(Expand(mem_type')) = last_size' /\ Expand(mem_type') \in Seq(Kinds)
            /\ \A p \in 1 .. last_size' : Expand(mem_type')[p] = FlatKinds'[p]
        BY <1>2, <3>2, <3>3, <3>4
      <3>. QED
        BY <3>5 DEF Classified, Expand
    <2>5. CASE Body.k \in {"db", "ds", "dw"} /\ Account(Body.k, s + n)
      BY <2>2, <2>4, <2>5 DEF Kinds
    <2>6. CASE Body.k = "opcode" /\ Account("code", s + n)
      BY <2>2, <2>4, <2>6 DEF Kinds
    <2>. QED
      BY <1>3, <2>2, <2>5, <2>6 DEF Closed
  <1>5. CASE ~(Next /\ EndLine)
    <2>1. mem_type' = mem_type /\ last_size' = last_size
      <3>1. CASE UNCHANGED vars
        BY <3>1 DEF vars
      <3>2. CASE Next /\ (PushOpcode \/ PushDbItem \/ PushDwItem)
        BY <3>2 DEF PushOpcode, PushDbItem, PushDwItem
      <3>3. CASE Next /\ ~EndLine /\ ~(PushOpcode \/ PushDbItem \/ PushDwItem)
        BY <3>3, OtherSteps
      <3>. QED
        BY <1>5, <3>1, <3>2, <3>3
    <2>. QED
      BY <1>3, <2>1
  <1>. QED
    BY <1>4, <1>5

-----------------------------------------------------------------------------
(* The recursive definitions of the second pass. *)

\* What can be on the stack after k reductions, from what can be after k - 1.
LEMMA StacksAre ==
  ASSUME NEW e, Len(e) \in Nat, NEW m
  PROVE  /\ Abstract!Stacks(e, m)[0] = {<<>>}
         /\ \A k \in 1 .. Len(e) :
              Abstract!Stacks(e, m)[k] = Abstract!Reduce(Abstract!Stacks(e, m)[k - 1], e[k], m)
  <1> DEFINE N == Len(e)
             IsStacks(g, n) ==
               g = [k \in 0 .. n |-> IF k = 0 THEN {<<>>} ELSE Abstract!Reduce(g[k - 1], e[k], m)]
             Q == {n \in Nat : \E g : IsStacks(g, n)}
             c == CHOOSE g : IsStacks(g, N)
  <1>1. 0 \in Q
    <2> DEFINE g == [k \in 0 .. 0 |-> {<<>>}]
    <2>1. \A k \in 0 .. 0 : k = 0
      OBVIOUS
    <2>2. IsStacks(g, 0)
      BY <2>1
    <2>. QED
      BY <2>2
  <1>2. ASSUME NEW n \in Nat, n \in Q
        PROVE  n + 1 \in Q
    <2>1. PICK g : IsStacks(g, n)
      BY <1>2
    <2> DEFINE last == Abstract!Reduce(g[n], e[n + 1], m)
               h == [k \in 0 .. n + 1 |-> IF k <= n THEN g[k] ELSE last]
    <2>2. \A k \in 0 .. n : g[k] = IF k = 0 THEN {<<>>} ELSE Abstract!Reduce(g[k - 1], e[k], m)
      BY <2>1, Zenon
    <2>3. \A k \in 0 .. n : h[k] = g[k]
      <3> HIDE DEF last
      <3>. QED
        BY <1>2
    <2>4. h[n + 1] = last
      <3> HIDE DEF last
      <3>. QED
        BY <1>2
    <2>5. ASSUME NEW k \in 0 .. n + 1
          PROVE  h[k] = IF k = 0 THEN {<<>>} ELSE Abstract!Reduce(h[k - 1], e[k], m)
      <3>1. CASE k = 0
        <4>1. 0 \in 0 .. n
          OBVIOUS
        <4>. QED
          BY <2>2, <2>3, <3>1, <4>1
      <3>2. CASE k # 0 /\ k <= n
        <4>1. k \in 0 .. n /\ k - 1 \in 0 .. n
          BY <3>2
        <4> HIDE DEF h
        <4>. QED
          BY <2>2, <2>3, <3>2, <4>1
      <3>3. CASE k = n + 1
        <4>1. n \in 0 .. n /\ k - 1 = n /\ k # 0
          BY <3>3
        <4>2. h[k - 1] = g[n] /\ e[k] = e[n + 1]
          BY <2>3, <3>3, <4>1
        <4> HIDE DEF h
        <4>. QED
          BY <2>4, <3>3, <4>1, <4>2
      <3>. QED
        BY <3>1, <3>2, <3>3
    <2>6. h = [k \in 0 .. n + 1 |-> h[k]]
      OBVIOUS
    <2> HIDE DEF h
    <2>7. IsStacks(h, n + 1)
      BY <2>5, <2>6
    <2>. QED
      BY <2>7
  <1>3. N \in Q
    <2> HIDE DEF Q, N
    <2>1. \A n \in Nat : n \in Q
      BY <1>1, <1>2, NaturalInduction
    <2>. QED
      BY <2>1 DEF N
  <1>4. IsStacks(c, N)
    BY <1>3
  <1>5. Abstract!Stacks(e, m) = c
    BY DEF Abstract!Stacks
  <1>6. \A k \in 0 .. N : c[k] = IF k = 0 THEN {<<>>} ELSE Abstract!Reduce(c[k - 1], e[k], m)
    <2> HIDE DEF c, N
    <2>. QED
      BY <1>4, Zenon
  <1> HIDE DEF c
  <1>7. c[0] = {<<>>}
    BY <1>6
  <1>8. ASSUME NEW k \in 1 .. N
        PROVE  c[k] = Abstract!Reduce(c[k - 1], e[k], m)
    <2>1. k \in 0 .. N /\ k # 0
      OBVIOUS
    <2> HIDE DEF N
    <2>. QED
      BY <1>6, <2>1
  <1>. QED
    BY <1>5, <1>7, <1>8

\* The greatest of some line numbers.
LEMMA MaxIs ==
  ASSUME NEW N \in Nat, NEW S, S \subseteq 1 .. N, S # {}
  PROVE  Abstract!Max(S) \in S /\ \A j \in S : j <= Abstract!Max(S)
  <1> DEFINE T == {n \in Nat : \A j \in S : j <= n}
  <1>1. N \in T
    OBVIOUS
  <1>2. PICK n \in T : \A u \in T : n <= u
    <2> HIDE DEF T
    <2>1. T \subseteq Nat
      BY DEF T
    <2>. QED
      BY <1>1, <2>1, LeastNatural
  <1>3. n \in S
    <2> SUFFICES ASSUME n \notin S PROVE FALSE
      OBVIOUS
    <2>1. \A j \in S : j \in Nat /\ j >= 1 /\ j <= n - 1
      BY <1>2
    <2>2. n - 1 \in T
      <3>1. n - 1 \in Nat
        <4>1. PICK j \in S : TRUE
          OBVIOUS
        <4>2. n \in Nat /\ j \in Nat /\ j >= 1 /\ j <= n - 1
          BY <1>2, <2>1
        <4>. QED
          BY <4>2
      <3>. QED
        BY <2>1, <3>1
    <2>. QED
      BY <1>2, <2>2
  <1>4. \E u \in S : \A j \in S : u >= j
    BY <1>2, <1>3
  <1>5. Abstract!Max(S) = CHOOSE u \in S : \A j \in S : u >= j
    BY DEF Abstract!Max
  <1>6. Abstract!Max(S) \in S /\ \A j \in S : Abstract!Max(S) >= j
    BY <1>4, <1>5, Zenon
  <1>. QED
    BY <1>6

\* What names mean on line i, when g tells what they mean before it.
Before(S, i) == {j \in S : j < i}
MeaningOf(g, i, n) ==
  LET labels == Before(Abstract!LabelLines(n), i)
      equs == Before(Abstract!EquLines(n), i)
  IN IF labels # {} THEN {Abstract!OrgAt(i) + (Abstract!Start(Abstract!The(labels)) % WordSize)}
     ELSE IF equs # {}
          THEN Abstract!Values(Abstract!Body(Abstract!Max(equs)).expr, g[Abstract!Max(equs)])
     ELSE {}
IsMeanings(g, k) == g = [i \in 1 .. k |-> [n \in Names |-> MeaningOf(g, i, n)]]

\* It depends on what g tells of the lines before.
LEMMA MeaningsAgreeBefore ==
  ASSUME source \in Sources, NEW i \in Nat, NEW g, NEW h, \A j \in 1 .. i - 1 : g[j] = h[j], NEW n
  PROVE  MeaningOf(g, i, n) = MeaningOf(h, i, n)
  <1> DEFINE equs == Before(Abstract!EquLines(n), i)
  <1>1. equs # {} => Abstract!Max(equs) \in 1 .. i - 1
    <2>1. equs \subseteq 1 .. Len(source) /\ Len(source) \in Nat /\ \A j \in equs : j \in 1 .. i - 1
      BY SourceIs DEF Before, Abstract!EquLines, Abstract!Is
    <2>. QED
      BY <2>1, MaxIs
  <1>2. equs # {} => g[Abstract!Max(equs)] = h[Abstract!Max(equs)]
    BY <1>1
  <1>. QED
    BY <1>2 DEF MeaningOf

LEMMA MeaningsExist ==
  ASSUME source \in Sources, NEW k \in Nat
  PROVE  \E g : IsMeanings(g, k)
  <1> DEFINE Q == {n \in Nat : \E g : IsMeanings(g, n)}
  <1>1. 0 \in Q
    <2> DEFINE g == [i \in 1 .. 0 |-> {}]
    <2>1. IsMeanings(g, 0)
      BY DEF IsMeanings
    <2>. QED
      BY <2>1
  <1>2. ASSUME NEW k1 \in Nat, k1 \in Q
        PROVE  k1 + 1 \in Q
    <2>1. PICK g : IsMeanings(g, k1)
      BY <1>2
    <2> DEFINE last == [n \in Names |-> MeaningOf(g, k1 + 1, n)]
               h == [i \in 1 .. k1 + 1 |-> IF i <= k1 THEN g[i] ELSE last]
    <2>2. \A i \in 1 .. k1 : g[i] = [n \in Names |-> MeaningOf(g, i, n)]
      BY <2>1, Zenon DEF IsMeanings
    <2>3. (\A i \in 1 .. k1 : h[i] = g[i]) /\ h[k1 + 1] = last
      <3> HIDE DEF last
      <3>. QED
        BY <1>2
    <2>4. h = [i \in 1 .. k1 + 1 |-> h[i]]
      OBVIOUS
    <2> HIDE DEF h
    <2>5. ASSUME NEW i \in 1 .. k1 + 1
          PROVE  h[i] = [n \in Names |-> MeaningOf(h, i, n)]
      <3>1. \A n : MeaningOf(g, i, n) = MeaningOf(h, i, n)
        <4>1. \A j \in 1 .. i - 1 : g[j] = h[j]
          BY <1>2, <2>3
        <4>. QED
          BY <4>1, MeaningsAgreeBefore
      <3>2. h[i] = [n \in Names |-> MeaningOf(g, i, n)]
        <4>1. CASE i \in 1 .. k1
          BY <2>2, <2>3, <4>1
        <4>2. CASE i = k1 + 1
          BY <2>3, <4>2
        <4>. QED
          BY <1>2, <4>1, <4>2
      <3>. QED
        BY <3>1, <3>2
    <2>6. IsMeanings(h, k1 + 1)
      BY <2>4, <2>5 DEF IsMeanings
    <2>. QED
      BY <2>6
  <1>3. k \in Q
    <2> HIDE DEF Q
    <2>1. \A n \in Nat : n \in Q
      BY <1>1, <1>2, NaturalInduction
    <2>. QED
      BY <2>1
  <1>. QED
    BY <1>3

LEMMA MeaningsAre ==
  ASSUME source \in Sources
  PROVE  IsMeanings(Abstract!Meanings, Len(source) + 1)
  <1> DEFINE k == Len(source) + 1
  <1>1. k \in Nat
    BY SourceIs
  <1>2. \E g : IsMeanings(g, k)
    <2> HIDE DEF k
    <2>. QED
      BY <1>1, MeaningsExist
  <1>3. Abstract!Meanings = CHOOSE g : IsMeanings(g, k)
    BY DEF Abstract!Meanings, IsMeanings, MeaningOf, Before
  <1> HIDE DEF k
  <1>4. IsMeanings(Abstract!Meanings, k)
    BY <1>2, <1>3
  <1>. QED
    BY <1>4 DEF k

LEMMA MeaningsUnique ==
  ASSUME source \in Sources, NEW k \in Nat, NEW g, NEW h, IsMeanings(g, k), IsMeanings(h, k)
  PROVE  g = h
  <1> DEFINE Q == {i \in Nat : i <= k => \A j \in 1 .. i : g[j] = h[j]}
  <1>1. /\ \A i \in 1 .. k : g[i] = [n \in Names |-> MeaningOf(g, i, n)]
        /\ \A i \in 1 .. k : h[i] = [n \in Names |-> MeaningOf(h, i, n)]
    BY Zenon DEF IsMeanings
  <1>2. 0 \in Q
    OBVIOUS
  <1>3. ASSUME NEW i \in Nat, i \in Q
        PROVE  i + 1 \in Q
    <2> SUFFICES ASSUME i + 1 <= k, NEW j \in 1 .. i + 1 PROVE g[j] = h[j]
      OBVIOUS
    <2>1. CASE j \in 1 .. i
      BY <1>3, <2>1
    <2>2. CASE j = i + 1
      <3>1. \A l \in 1 .. (i + 1) - 1 : g[l] = h[l]
        BY <1>3
      <3>2. \A n : MeaningOf(g, i + 1, n) = MeaningOf(h, i + 1, n)
        BY <3>1, MeaningsAgreeBefore
      <3>3. i + 1 \in 1 .. k
        BY <1>3
      <3>4. g[i + 1] = [n \in Names |-> MeaningOf(g, i + 1, n)]
        BY <1>1, <3>3
      <3>5. h[i + 1] = [n \in Names |-> MeaningOf(h, i + 1, n)]
        BY <1>1, <3>3
      <3>6. g[i + 1] = h[i + 1]
        BY <3>2, <3>4, <3>5
      <3>. QED
        BY <2>2, <3>6
    <2>. QED
      BY <1>3, <2>1, <2>2
  <1>4. k \in Q
    <2> HIDE DEF Q
    <2>1. \A n \in Nat : n \in Q
      BY <1>2, <1>3, NaturalInduction
    <2>. QED
      BY <2>1
  <1>5. \A j \in 1 .. k : g[j] = h[j]
    BY <1>4
  <1>6. /\ g = [i \in 1 .. k |-> g[i]]
        /\ h = [i \in 1 .. k |-> h[i]]
    BY Zenon DEF IsMeanings
  <1>. QED
    BY <1>5, <1>6

\* What names mean depends on the source alone.
LEMMA SameMeaningOf ==
  ASSUME source' = source, NEW g, NEW i, NEW n
  PROVE  MeaningOf(g, i, n)' = MeaningOf(g, i, n)
  <1> DEFINE labels == Before(Abstract!LabelLines(n), i)
             equs == Before(Abstract!EquLines(n), i)
             first == Abstract!The(labels)
             last == Abstract!Max(equs)
             address == Abstract!OrgAt(i) + (Abstract!Start(first) % WordSize)
             value == Abstract!Values(Abstract!Body(last).expr, g[last])
  <1>1. labels' = labels /\ equs' = equs
    BY SameText DEF Before
  <1>2. first' = first /\ last' = last
    BY <1>1
  <1>3. address' = address
    <2>1. Abstract!OrgAt(i)' = Abstract!OrgAt(i) /\ Abstract!Start(first)' = Abstract!Start(first)
      BY <1>2, SameText, SameStart
    <2>. QED
      BY <2>1
  <1>4. value' = value
    <2>1. Abstract!Body(last)' = Abstract!Body(last)
      BY <1>2, SameText
    <2>. QED
      BY <1>2, <2>1
  <1>5. MeaningOf(g, i, n) = IF labels # {} THEN {address} ELSE IF equs # {} THEN value ELSE {}
    BY DEF MeaningOf
  <1>6. MeaningOf(g, i, n)' = IF labels' # {} THEN {address'} ELSE IF equs' # {} THEN value' ELSE {}
    BY DEF MeaningOf
  <1> HIDE DEF labels, equs, address, value
  <1>. QED
    BY <1>1, <1>3, <1>4, <1>5, <1>6

LEMMA MeaningsAreNext ==
  (source \in Sources => \E g : g = Abstract!Meanings /\ IsMeanings(g, Len(source) + 1))'
  <1>1. source \in Sources => \E g : g = Abstract!Meanings /\ IsMeanings(g, Len(source) + 1)
    BY MeaningsAre
  <1>. QED
    BY <1>1, PTL

LEMMA SameMeanings ==
  ASSUME source' = source, source \in Sources
  PROVE  Abstract!Meanings' = Abstract!Meanings
  <1> DEFINE k == Len(source) + 1
  <1>1. PICK g : g = Abstract!Meanings' /\ IsMeanings(g, k)'
    BY MeaningsAreNext
  <1>2. g = [i \in 1 .. k |-> [n \in Names |-> MeaningOf(g, i, n)']]
    BY <1>1 DEF IsMeanings
  <1>3. IsMeanings(g, k)
    <2>1. \A i, n : MeaningOf(g, i, n)' = MeaningOf(g, i, n)
      BY SameMeaningOf
    <2>. QED
      BY <1>2, <2>1 DEF IsMeanings
  <1>4. k \in Nat /\ IsMeanings(Abstract!Meanings, k)
    BY SourceIs, MeaningsAre
  <1> HIDE DEF k
  <1>5. g = Abstract!Meanings
    BY <1>3, <1>4, MeaningsUnique
  <1>. QED
    BY <1>1, <1>5

\* So does what is promised.
LEMMA SameUnknown ==
  ASSUME source' = source
  PROVE  /\ \A t, i : Abstract!Unknown(t, i)' <=> Abstract!Unknown(t, i)
         /\ \A e, i : Abstract!UsesUnknown(e, i)' <=> Abstract!UsesUnknown(e, i)
  BY SameText DEF Abstract!Unknown, Abstract!UsesUnknown

LEMMA SameEvaluates ==
  ASSUME source' = source, source \in Sources, NEW e, NEW i
  PROVE  Abstract!Evaluates(e, i)' <=> Abstract!Evaluates(e, i)
  <1>1. Abstract!Meanings[i]' = Abstract!Meanings[i]
    BY SameMeanings
  <1>2. Abstract!Stacks(e, Abstract!Meanings[i])' = Abstract!Stacks(e, Abstract!Meanings[i])
    BY <1>1
  <1>. QED
    BY <1>2, SameUnknown DEF Abstract!Evaluates

LEMMA SameClash ==
  ASSUME source' = source
  PROVE  Abstract!Clash' <=> Abstract!Clash
  <1>1. Abstract!Cardinality(Abstract!Is("org"))' = Abstract!Cardinality(Abstract!Is("org"))
    BY SameText
  <1>2. ASSUME NEW n
        PROVE  /\ Abstract!Cardinality(Abstract!LabelLines(n))' = Abstract!Cardinality(Abstract!LabelLines(n))
               /\ Abstract!LabelLines(n)' = Abstract!LabelLines(n) /\ Abstract!EquLines(n)' = Abstract!EquLines(n)
    BY SameText
  <1>. QED
    BY <1>1, <1>2 DEF Abstract!Clash

LEMMA SameUnreadable ==
  ASSUME source' = source
  PROVE  Abstract!Unreadable' <=> Abstract!Unreadable
  <1>1. (\E i \in Abstract!Is("equ") : Abstract!UsesUnknown(Abstract!Body(i).expr, i))'
          <=> \E i \in Abstract!Is("equ") : Abstract!UsesUnknown(Abstract!Body(i).expr, i)
    <2>1. \A i : Abstract!UsesUnknown(Abstract!Body(i).expr, i)' <=> Abstract!UsesUnknown(Abstract!Body(i).expr, i)
      <3> SUFFICES ASSUME NEW i
                   PROVE  Abstract!UsesUnknown(Abstract!Body(i).expr, i)' <=> Abstract!UsesUnknown(Abstract!Body(i).expr, i)
        OBVIOUS
      <3>1. (Abstract!Body(i).expr)' = Abstract!Body(i).expr
        BY SameText
      <3>2. \A e : Abstract!UsesUnknown(e, i)' <=> Abstract!UsesUnknown(e, i)
        BY SameUnknown
      <3>. QED
        BY <3>1, <3>2, SameText, SameUnknown DEF Abstract!UsesUnknown
    <2>. QED
      BY <2>1, SameText
  <1>2. (\E i \in Abstract!Lines : \E x \in Abstract!Operands(i) : x.how \in {"+", "-"} /\ HasDollar(x.expr))'
          <=> \E i \in Abstract!Lines : \E x \in Abstract!Operands(i) : x.how \in {"+", "-"} /\ HasDollar(x.expr)
    BY SameText, SameOperands
  <1>3. Abstract!Is("rejected")' = Abstract!Is("rejected")
    BY SameText
  <1>. QED
    BY <1>1, <1>2, <1>3, SameClash DEF Abstract!Unreadable, Abstract!HasDollar, HasDollar

LEMMA SamePromised ==
  ASSUME source' = source, source \in Sources
  PROVE  Abstract!Promised' <=> Abstract!Promised
  <1>1. (\A i \in Abstract!Is("equ") : Abstract!Evaluates(Abstract!Body(i).expr, i))'
          <=> \A i \in Abstract!Is("equ") : Abstract!Evaluates(Abstract!Body(i).expr, i)
    <2>1. ASSUME NEW i
          PROVE  Abstract!Evaluates(Abstract!Body(i).expr, i)' <=> Abstract!Evaluates(Abstract!Body(i).expr, i)
      <3>1. PICK e : e = Abstract!Body(i).expr
        OBVIOUS
      <3>2. (Abstract!Body(i).expr)' = e
        BY <3>1, SameText
      <3>3. Abstract!Evaluates(e, i)' <=> Abstract!Evaluates(e, i)
        BY SameEvaluates
      <3>. QED
        BY <3>1, <3>2, <3>3
    <2>. QED
      BY <2>1, SameText
  <1>2. (\A i \in Abstract!Lines : \A x \in Abstract!Operands(i) : Abstract!Evaluates(x.expr, Len(source) + 1))'
          <=> \A i \in Abstract!Lines : \A x \in Abstract!Operands(i) : Abstract!Evaluates(x.expr, Len(source) + 1)
    <2>1. ASSUME NEW e
          PROVE  Abstract!Evaluates(e, Len(source) + 1)' <=> Abstract!Evaluates(e, Len(source) + 1)
      BY SameEvaluates
    <2>. QED
      BY <2>1, SameText, SameOperands
  <1>. QED
    BY <1>1, <1>2, SameUnreadable DEF Abstract!Promised

-----------------------------------------------------------------------------
(* When the text has been read: every operand waits in its map.            *)

LEMMA AllHeld ==
  ASSUME IInv, InText, Extent, Recorded, phase \in After,
         NEW i \in Abstract!Lines, NEW x \in Abstract!Operands(i), NEW a, a = Abstract!Start(i) + x.at
  PROVE  a \in Nat /\ a + Width(x) <= Size /\ HeldAt(x, a)
  <1> DEFINE N == Len(source)
             off == LineOffsets
             s == Skeletons
  <1>1. source \in Sources /\ phase \notin Lost /\ line = N + 1
    BY DEF IInv, TypeOK, After, Lost, InText, Patching
  <1>2. i \in 1 .. N /\ N \in Nat /\ N + 1 \in 1 .. N + 1
    BY <1>1, SourceIs
  <1>3. s \in Seq(Seq(Byte)) /\ Len(s) = N /\ Offsets(off, s)
    BY <1>1, LineOffsetsAre
  <1>4. off[i] = Abstract!Start(i) /\ off[N + 1] = Abstract!Start(N + 1)
    BY <1>2 DEF LineOffsets
  <1>5. Len(s[i]) = Abstract!Length(i)
    BY <1>1, SkeletonType DEF Skeletons
  <1> HIDE DEF off, s, N
  <1>6. off[i] + Len(s[i]) <= off[N + 1]
    <2>1. i < N + 1 /\ i \in 1 .. Len(s) /\ N + 1 \in 1 .. Len(s) + 1
      BY <1>2, <1>3
    <2>. QED
      BY <1>3, <2>1, OffsetsOrdered
  <1>7. Size = Abstract!Start(N + 1)
    <2>1. Progress = 0 /\ Abstract!Start(N + 1) \in Nat
      BY <1>1, <1>2, StartIs DEF Progress, N
    <2>. QED
      BY <1>1, <2>1 DEF Extent
  <1>8. x.at \in Nat /\ x.at + Width(x) <= Abstract!Length(i) /\ Width(x) \in {1, 2}
    BY <1>1, OperandInside DEF Width
  <1>9. Abstract!Start(i) \in Nat /\ Abstract!Length(i) \in Nat /\ Abstract!Start(N + 1) \in Nat
    BY <1>1, <1>2, StartIs DEF N
  <1>10. a \in Nat /\ a + Width(x) <= Size /\ a < Size
    BY <1>4, <1>5, <1>6, <1>7, <1>8, <1>9
  <1>. QED
    BY <1>1, <1>10 DEF Recorded

-----------------------------------------------------------------------------
(* What has been read is not refused as unreadable.                        *)

Unrejected ==
  phase \notin Lost => \A i \in Abstract!Lines : i < line => source[i].body.k # "rejected"

\* What an EQU was given has been known.
KnownEqus ==
  phase \notin Lost =>
    \A i \in Abstract!Is("equ") : i < line => ~Abstract!UsesUnknown(Abstract!Body(i).expr, i)

LEMMA LineEnded ==
  ASSUME InText, EndLine
  PROVE  Body.k # "rejected" /\ (Body.k = "equ" <=> ReturnEqu)
  BY DEF InText, EndLine, EmptyLine, SetOrg, AccountCode, AccountDb, ReserveDs, AccountDw, ReturnEqu, AtBody

LEMMA UnrejectedStep == IInv /\ InText /\ Unrejected /\ [Next]_vars => Unrejected'
  <1> SUFFICES ASSUME IInv, InText, Unrejected, [Next]_vars, phase' \notin Lost
               PROVE  Unrejected'
    BY DEF Unrejected
  <1>1. CASE UNCHANGED vars
    BY <1>1, SameText DEF vars, Unrejected
  <1>2. CASE Next
    <2>1. source' = source /\ Abstract!Lines' = Abstract!Lines /\ phase \notin Lost
      BY <1>2, FixupsFrame, LostStays, SameText
    <2>2. CASE EndLine /\ NextLine
      <3>1. line \in Abstract!Lines /\ line' = line + 1 /\ Body.k # "rejected" /\ Body = source[line].body
        BY <2>2, LineEnding, LineEnded DEF Body
      <3>2. Abstract!Lines = 1 .. Len(source)
        BY SourceIs DEF IInv, TypeOK
      <3>3. \A i \in Abstract!Lines : i < line + 1 => i < line \/ i = line
        BY <3>1, <3>2
      <3>. QED
        BY <2>1, <3>1, <3>3 DEF Unrejected
    <2>3. CASE line' = line
      BY <2>1, <2>3 DEF Unrejected
    <2>. QED
      BY <1>2, <2>2, <2>3, LineFrame
  <1>. QED
    BY <1>1, <1>2

\* The text read so far.
Read ==
  /\ InText /\ Origin /\ Extent /\ Laid /\ Classified
  /\ Labels /\ Equs /\ Recorded /\ Sourced /\ Unrejected

LEMMA NoMoreThanOne ==
  ASSUME NEW N \in Nat, NEW S, S \subseteq 1 .. N, \A j, k \in S : j = k
  PROVE  ~(Abstract!Cardinality(S) > 1)
  <1>1. Abstract!Cardinality(S) = Cardinality(S)
    BY DEF Abstract!Cardinality, Cardinality
  <1>2. CASE S = {}
    BY <1>1, <1>2, FS_EmptySet
  <1>3. CASE S # {}
    <2>1. PICK j \in S : S = {j}
      BY <1>3
    <2>. QED
      BY <1>1, <2>1, FS_Singleton
  <1>. QED
    BY <1>2, <1>3

LEMMA ReadIsReadable ==
  ASSUME IInv, Read, SymbolsDisjoint, NoDollarDeferred, KnownEqus, phase \in After
  PROVE  ~Abstract!Unreadable
  <1> DEFINE N == Len(source)
  <1>1. /\ source \in Sources /\ phase \notin Lost /\ line = N + 1 /\ N \in Nat
        /\ Abstract!Lines = 1 .. N /\ \A i \in Abstract!Lines : i < line /\ LabelRead(i)
    <2>1. source \in Sources /\ phase \notin Lost /\ line = N + 1
      BY DEF IInv, TypeOK, After, Lost, InText, Patching, Read
    <2>. QED
      BY <2>1, SourceIs DEF LabelRead
  <1>2. \A n : Abstract!LabelLines(n) \subseteq Abstract!Lines /\ Abstract!EquLines(n) \subseteq Abstract!Lines
    BY DEF Abstract!LabelLines, Abstract!EquLines, Abstract!Is
  <1>3. Abstract!Is("rejected") = {}
    BY <1>1, SourceIs DEF Read, Unrejected, Abstract!Is
  <1>4. ~(Abstract!Cardinality(Abstract!Is("org")) > 1)
    <2>1. Abstract!Is("org") \subseteq 1 .. N /\ Abstract!Is("org") \subseteq Orgs(line)
      BY <1>1 DEF Abstract!Is, Orgs
    <2>2. \A j, k \in Abstract!Is("org") : j = k
      BY <2>1 DEF Read, Origin
    <2>. QED
      BY <1>1, <2>1, <2>2, NoMoreThanOne
  <1>5. ASSUME NEW n \in Names
        PROVE  /\ ~(Abstract!Cardinality(Abstract!LabelLines(n)) > 1)
               /\ Abstract!LabelLines(n) = {} \/ Abstract!EquLines(n) = {}
    <2>1. \A j, k \in Abstract!LabelLines(n) : j = k
      BY <1>1, <1>2 DEF Read, Labels
    <2>2. Abstract!LabelLines(n) # {} => n \in DOMAIN label
      BY <1>1, <1>2 DEF Read, Labels
    <2>3. Abstract!EquLines(n) # {} => n \in DOMAIN equ
      BY <1>1, <1>2 DEF Read, Equs
    <2>. QED
      BY <1>1, <1>2, <2>1, <2>2, <2>3, NoMoreThanOne DEF SymbolsDisjoint
  <1>6. \A i \in Abstract!Is("equ") : ~Abstract!UsesUnknown(Abstract!Body(i).expr, i)
    BY <1>1 DEF KnownEqus, Abstract!Is
  <1>7. ASSUME NEW i \in Abstract!Lines, NEW x \in Abstract!Operands(i), x.how \in {"+", "-"}
        PROVE  ~Abstract!HasDollar(x.expr)
    <2>1. PICK a : a = Abstract!Start(i) + x.at
      OBVIOUS
    <2>2. HeldAt(x, a)
      BY <2>1, AllHeld DEF Read
    <2>3. a \in DOMAIN byte_expr /\ byte_expr[a].expr = x.expr
      BY <1>7, <2>2 DEF HeldAt
    <2>4. ~HasDollar(x.expr)
      BY <2>3 DEF NoDollarDeferred
    <2>. QED
      BY <2>4 DEF HasDollar, Abstract!HasDollar
  <1>. QED
    BY <1>3, <1>4, <1>5, <1>6, <1>7 DEF Abstract!Unreadable, Abstract!Clash

-----------------------------------------------------------------------------
(* parse_expr finds what the second pass finds.                            *)

\* Line m has the last EQU of n.
LastEqu(n, m) == m < line /\ \A j \in Abstract!EquLines(n) : j < line => j <= m

\* An EQU has the value its line gives it.
EquValues ==
  phase \notin Lost =>
    \A n \in DOMAIN equ : \A m \in Abstract!EquLines(n) :
      LastEqu(n, m) => Abstract!Values(Abstract!Body(m).expr, Abstract!Meanings[m]) = {equ[n]}

Evaluation == {"equ"} \cup Patching

\* A name means to parse_expr what it means in the second pass.
LEMMA MeaningsAgree ==
  ASSUME IInv, Read, EquValues, phase \in Evaluation, NEW n \in Names
  PROVE  /\ Meanings(n) = Abstract!Meanings[line][n]
         /\ Meanings(n) = {} <=> n \notin Abstract!KnownAt(line)
         /\ \A v, w \in Meanings(n) : v = w
  <1> DEFINE N == Len(source)
             labels == Before(Abstract!LabelLines(n), line)
             equs == Before(Abstract!EquLines(n), line)
  <1>1. /\ source \in Sources /\ phase \notin Lost /\ line \in 1 .. N + 1 /\ N \in Nat
        /\ Abstract!Lines = 1 .. N
        /\ phase = "equ" => line \in Abstract!Lines /\ source[line].body.k = "equ"
        /\ phase # "equ" => line = N + 1
    <2>1. source \in Sources /\ phase \notin Lost /\ line \in 1 .. N + 1
      BY DEF IInv, TypeOK, Evaluation, Lost, Patching, Read, InText
    <2>2. N \in Nat /\ Abstract!Lines = 1 .. N
      BY <2>1, SourceIs
    <2>3. phase = "equ" => line <= N /\ source[line].body.k = "equ"
      BY DEF Read, InText, Body
    <2>4. phase # "equ" => line = N + 1
      BY DEF Read, InText, Evaluation, After
    <2>. QED
      BY <2>1, <2>2, <2>3, <2>4
  <1>2. Abstract!LabelLines(n) \subseteq Abstract!Lines /\ Abstract!EquLines(n) \subseteq Abstract!Lines
    BY DEF Abstract!LabelLines, Abstract!EquLines, Abstract!Is
  <1>3. \A j \in Abstract!LabelLines(n) : LabelRead(j) <=> j < line
    <2>1. ASSUME line \in Abstract!LabelLines(n)
          PROVE  FALSE
      <3>1. line \in Abstract!Lines /\ source[line].label = n
        BY <2>1 DEF Abstract!LabelLines
      <3>2. phase = "equ" /\ source[line].body.k = "equ"
        BY <1>1, <3>1
      <3>3. source[line].label = NoName
        BY <1>1, <3>1, <3>2, SourceIs
      <3>. QED
        BY <3>1, <3>3, NameAssumption
    <2>. QED
      BY <2>1 DEF LabelRead
  <1>4. Abstract!Meanings[line][n] = MeaningOf(Abstract!Meanings, line, n)
    <2>1. Abstract!Meanings = [i \in 1 .. N + 1 |-> [m \in Names |-> MeaningOf(Abstract!Meanings, i, m)]]
      BY <1>1, MeaningsAre DEF IsMeanings
    <2> DEFINE g == Abstract!Meanings
    <2>2. \A i \in 1 .. N + 1 : g[i] = [m \in Names |-> MeaningOf(g, i, m)]
      <3>1. g = [i \in 1 .. N + 1 |-> [m \in Names |-> MeaningOf(g, i, m)]]
        BY <2>1
      <3> HIDE DEF g
      <3>. QED
        BY <3>1, Zenon
    <2> HIDE DEF g
    <2>3. g[line] = [m \in Names |-> MeaningOf(g, line, m)]
      BY <1>1, <2>2
    <2>4. g[line][n] = MeaningOf(g, line, n)
      BY <2>3
    <2>. QED
      BY <2>4 DEF g
  <1>5. n \in Abstract!KnownAt(line) <=> labels # {} \/ equs # {}
    BY DEF Abstract!KnownAt, Before
  <1>6. CASE labels # {}
    <2> DEFINE j == Abstract!The(labels)
    <2>1. j \in labels
      BY <1>6 DEF Abstract!The
    <2> HIDE DEF j
    <2>2. j \in Abstract!LabelLines(n) /\ LabelRead(j)
      BY <1>3, <2>1 DEF Before
    <2>3. n \in DOMAIN label /\ label[n] = Abstract!Start(j) % WordSize
      BY <1>1, <2>2 DEF Read, Labels
    <2>4. MeaningOf(Abstract!Meanings, line, n) = {Abstract!OrgAt(line) + (Abstract!Start(j) % WordSize)}
      BY <1>6 DEF MeaningOf, j
    <2>5. Meanings(n) = {org + label[n]} /\ org = Abstract!OrgAt(line)
      BY <2>3 DEF Meanings, Read, Origin
    <2>. QED
      BY <1>4, <1>5, <1>6, <2>3, <2>4, <2>5
  <1>7. CASE labels = {} /\ equs # {}
    <2> DEFINE m == Abstract!Max(equs)
    <2>1. n \notin DOMAIN label
      BY <1>1, <1>3, <1>7 DEF Read, Labels, Before
    <2>2. m \in equs /\ \A j \in equs : j <= m
      <3>1. equs \subseteq 1 .. N
        BY <1>1, <1>2 DEF Before
      <3> HIDE DEF equs
      <3>. QED
        BY <1>1, <1>7, <3>1, MaxIs
    <2>3. MeaningOf(Abstract!Meanings, line, n) = Abstract!Values(Abstract!Body(m).expr, Abstract!Meanings[m])
      BY <1>7 DEF MeaningOf
    <2> HIDE DEF m
    <2>4. m \in Abstract!EquLines(n) /\ LastEqu(n, m)
      BY <2>2 DEF Before, LastEqu
    <2>5. n \in DOMAIN equ
      BY <1>1, <2>4 DEF Read, Equs, LastEqu
    <2>6. Abstract!Values(Abstract!Body(m).expr, Abstract!Meanings[m]) = {equ[n]}
      BY <1>1, <2>4, <2>5 DEF EquValues
    <2>7. Meanings(n) = {equ[n]}
      BY <2>1, <2>5 DEF Meanings
    <2>. QED
      BY <1>4, <1>5, <1>7, <2>3, <2>6, <2>7
  <1>8. CASE labels = {} /\ equs = {}
    <2>1. n \notin DOMAIN label
      BY <1>1, <1>3, <1>8 DEF Read, Labels, Before
    <2>2. n \notin DOMAIN equ
      BY <1>1, <1>8 DEF Read, Equs, Before
    <2>3. Meanings(n) = {}
      BY <2>1, <2>2 DEF Meanings
    <2>4. MeaningOf(Abstract!Meanings, line, n) = {}
      BY <1>8 DEF MeaningOf
    <2>. QED
      BY <1>4, <1>5, <1>8, <2>3, <2>4
  <1>. QED
    BY <1>6, <1>7, <1>8

\* What fixup_addresses evaluates is an operand of the text.
LEMMA CurrentGiven ==
  ASSUME IInv, Read, phase \in Patching, NEW e \in Current
  PROVE  \E i \in Abstract!Lines : \E x \in Abstract!Operands(i) : x.expr = e
  <1>1. phase \notin Lost
    BY DEF Lost, Patching
  <1>2. \E a, how : Given(a, how, e)
    <2>1. CASE phase = "rel"
      <3>1. PICK a \in Least(todo) : e = rel_addr[a]
        BY <2>1 DEF Current
      <3>2. a \in DOMAIN rel_addr
        BY <2>1 DEF Least, IInv, TodoPending
      <3>. QED
        BY <1>1, <3>1, <3>2 DEF Read, Sourced
    <2>2. CASE phase = "byte"
      <3>1. PICK a \in Least(todo) : e = byte_expr[a].expr
        BY <2>2 DEF Current
      <3>2. a \in DOMAIN byte_expr
        BY <2>2 DEF Least, IInv, TodoPending
      <3>. QED
        BY <1>1, <3>1, <3>2 DEF Read, Sourced
    <2>3. CASE phase = "word"
      <3>1. PICK a \in Least(todo) : e = word_expr[a]
        BY <2>3 DEF Current
      <3>2. a \in DOMAIN word_expr
        BY <2>3 DEF Least, IInv, TodoPending
      <3>. QED
        BY <1>1, <3>1, <3>2 DEF Read, Sourced
    <2>. QED
      BY <2>1, <2>2, <2>3 DEF Patching
  <1>. QED
    BY <1>2 DEF Given

\* What is promised something can be evaluated.
LEMMA CurrentEvaluates ==
  ASSUME IInv, Read, SymbolsDisjoint, NoDollarDeferred, KnownEqus, Abstract!Promised,
         NEW e \in Current
  PROVE  phase \in Evaluation /\ Abstract!Evaluates(e, line)
  <1>1. phase \in Evaluation
    BY DEF Current, Evaluation, Patching
  <1>2. CASE phase = "equ"
    <2>1. e = Body.expr /\ Body.k = "equ" /\ line <= Len(source)
      BY <1>2 DEF Current, Read, InText
    <2>2. line \in Abstract!Lines /\ Abstract!Body(line) = Body
      BY <2>1, BodyOf DEF Read
    <2>3. line \in Abstract!Is("equ")
      BY <2>1, <2>2 DEF Abstract!Is
    <2>. QED
      BY <1>1, <2>1, <2>2, <2>3 DEF Abstract!Promised
  <1>3. CASE phase \in Patching
    <2>1. phase \in After /\ phase \notin Lost /\ line = Len(source) + 1
      BY <1>3 DEF After, Lost, Patching, Read, InText
    <2>2. PICK i \in Abstract!Lines : \E x \in Abstract!Operands(i) : x.expr = e
      BY <1>3, CurrentGiven
    <2>3. ~Abstract!Unreadable
      BY <2>1, ReadIsReadable
    <2>. QED
      BY <1>1, <2>1, <2>2, <2>3 DEF Abstract!Promised
  <1>. QED
    BY <1>1, <1>2, <1>3 DEF Evaluation

-----------------------------------------------------------------------------
(* One reduction of one stack.                                             *)

LEMMA SameArithmetic ==
  /\ \A v : Abstract!Wrap(v) = Wrap(v)
  /\ \A op, x, y : Abstract!Apply(op, x, y) = Apply(op, x, y)
  /\ \A op, x, y : Abstract!Traps(op, x, y) <=> Traps(op, x, y)
  <1>1. \A v : Abstract!Wrap(v) = Wrap(v)
    BY DEF Abstract!Wrap, Wrap, Abstract!IntSize, IntSize
  <1>2. \A x, y : Abstract!CDiv(x, y) = CDiv(x, y)
    BY DEF Abstract!CDiv, CDiv
  <1>3. \A op, x, y : Abstract!Apply(op, x, y) = Apply(op, x, y)
    BY <1>1, <1>2 DEF Abstract!Apply, Apply
  <1>4. \A op, x, y : Abstract!Traps(op, x, y) <=> Traps(op, x, y)
    BY DEF Abstract!Traps, Traps, Abstract!MinInt, MinInt, Abstract!IntSize, IntSize
  <1>. QED
    BY <1>1, <1>3, <1>4

LEMMA ReduceNumber ==
  ASSUME NEW s, NEW v, NEW m
  PROVE  Abstract!Reduce({s}, [t |-> "num", v |-> v], m) = {Append(s, v)}
  BY DEF Abstract!Reduce

LEMMA ReduceName ==
  ASSUME NEW s, NEW n, NEW m
  PROVE  Abstract!Reduce({s}, [t |-> "name", n |-> n], m) = {Append(s, v) : v \in m[n]}
  <1> DEFINE R == Abstract!Reduce({s}, [t |-> "name", n |-> n], m)
             P == {Append(r, w) : r \in {s}, w \in m[n]}
             Q == {Append(s, v) : v \in m[n]}
  <1>1. R = P
    BY DEF Abstract!Reduce
  <1>2. \A z : z \in P <=> \E r \in {s} : \E w \in m[n] : z = Append(r, w)
    OBVIOUS
  <1>3. \A z : z \in Q <=> \E w \in m[n] : z = Append(s, w)
    OBVIOUS
  <1> HIDE DEF P, Q, R
  <1>4. \A z : z \in R <=> z \in Q
    BY <1>1, <1>2, <1>3
  <1>5. R = Q
    BY <1>4
  <1>. QED
    BY <1>5 DEF R, Q

LEMMA ReduceNegation ==
  ASSUME NEW s, NEW m
  PROVE  Abstract!Reduce({s}, [t |-> "neg"], m) =
           {Append(SubSeq(s, 1, Len(s) - 1), Wrap(-s[Len(s)]))}
  <1>1. Abstract!Reduce({s}, [t |-> "neg"], m) =
          {Append(Abstract!Front(r), Abstract!Wrap(-Abstract!Last(r))) : r \in {s}}
    BY DEF Abstract!Reduce
  <1>2. Abstract!Front(s) = SubSeq(s, 1, Len(s) - 1) /\ Abstract!Last(s) = s[Len(s)]
    BY DEF Abstract!Front, Abstract!Last
  <1>. QED
    BY <1>1, <1>2, SameArithmetic

LEMMA ReduceOperator ==
  ASSUME NEW s \in Seq(CInt), Len(s) > 1, NEW op \in Operators, NEW m,
         NEW x, x = s[Len(s) - 1], NEW y, y = s[Len(s)]
  PROVE  /\ Traps(op, x, y) => Abstract!Reduce({s}, [t |-> op], m) = {}
         /\ ~Traps(op, x, y) =>
              Abstract!Reduce({s}, [t |-> op], m) = {Append(SubSeq(s, 1, Len(s) - 2), Apply(op, x, y))}
  <1> DEFINE n == Len(s)
             f == SubSeq(s, 1, n - 1)
             R == Abstract!Reduce({s}, [t |-> op], m)
  <1>1. n \in Nat /\ n - 1 \in 0 .. n /\ n - 2 \in 0 .. n - 1 /\ n - 1 \in 1 .. n
    OBVIOUS
  <1>2. f \in Seq(CInt) /\ Len(f) = n - 1 /\ \A i \in 1 .. n - 1 : f[i] = s[i]
    BY <1>1, FirstPart
  <1>3. Abstract!Front(s) = f /\ Abstract!Last(s) = y
    BY DEF Abstract!Front, Abstract!Last
  <1> HIDE DEF f, n
  <1>4. Abstract!Last(f) = x
    <2>1. Abstract!Last(f) = f[Len(f)]
      BY DEF Abstract!Last
    <2>2. n - 1 \in 1 .. n - 1
      BY <1>1
    <2>. QED
      BY <1>2, <2>1, <2>2 DEF n
  <1>5. Abstract!Front(f) = SubSeq(s, 1, n - 2)
    <2> DEFINE g == SubSeq(f, 1, n - 2)
               h == SubSeq(s, 1, n - 2)
    <2>1. Abstract!Front(f) = SubSeq(f, 1, Len(f) - 1)
      BY DEF Abstract!Front
    <2>2. Len(f) - 1 = n - 2
      BY <1>1, <1>2
    <2>3. g \in Seq(CInt) /\ Len(g) = n - 2 /\ \A i \in 1 .. n - 2 : g[i] = f[i]
      <3>1. n - 2 \in 0 .. Len(f)
        BY <1>1, <1>2
      <3>. QED
        BY <1>2, <3>1, FirstPart
    <2>4. h \in Seq(CInt) /\ Len(h) = n - 2 /\ \A i \in 1 .. n - 2 : h[i] = s[i]
      <3>1. n - 2 \in 0 .. Len(s)
        BY <1>1 DEF n
      <3>. QED
        BY <3>1, FirstPart
    <2>5. \A i \in 1 .. n - 2 : i \in 1 .. n - 1
      BY <1>1
    <2> HIDE DEF g, h
    <2>6. g = h
      BY <1>2, <2>3, <2>4, <2>5, SameSequence
    <2>. QED
      BY <2>1, <2>2, <2>6 DEF g, h
  <1>6. R = {Append(Abstract!Front(Abstract!Front(r)),
                    Abstract!Apply(op, Abstract!Last(Abstract!Front(r)), Abstract!Last(r))) :
               r \in {r \in {s} : ~Abstract!Traps(op, Abstract!Last(Abstract!Front(r)), Abstract!Last(r))}}
    <2>1. op \notin {"num", "name", "neg"}
      BY DEF Operators
    <2>. QED
      BY <2>1 DEF Abstract!Reduce
  <1>7. CASE Traps(op, x, y)
    <2>1. {r \in {s} : ~Abstract!Traps(op, Abstract!Last(Abstract!Front(r)), Abstract!Last(r))} = {}
      BY <1>3, <1>4, <1>7, SameArithmetic
    <2>2. R = {}
      BY <1>6, <2>1
    <2>. QED
      BY <1>7, <2>2
  <1>8. CASE ~Traps(op, x, y)
    <2>1. {r \in {s} : ~Abstract!Traps(op, Abstract!Last(Abstract!Front(r)), Abstract!Last(r))} = {s}
      BY <1>3, <1>4, <1>8, SameArithmetic
    <2>2. R = {Append(Abstract!Front(f), Abstract!Apply(op, x, y))}
      BY <1>3, <1>4, <1>6, <2>1
    <2>3. R = {Append(SubSeq(s, 1, n - 2), Apply(op, x, y))}
      BY <1>5, <2>2, SameArithmetic
    <2>. QED
      BY <1>8, <2>3 DEF n
  <1>. QED
    BY <1>7, <1>8

\* parse_expr has done the first pos reductions of e.
Begun(e) ==
  /\ pos <= Len(e) /\ Len(acc) = Height(e)[pos]
  /\ Abstract!Stacks(e, Abstract!Meanings[line])[pos] = {acc}
  /\ \A j \in 1 .. pos : ~Abstract!Unknown(e[j], line)

Stacked ==
  phase \notin Terminal =>
    /\ Current = {} => pos = 0 /\ acc = <<>>
    /\ \A e \in Current : Begun(e)

LEMMA StackedStarts == IInv /\ pos = 0 /\ acc = <<>> => Stacked
  <1> SUFFICES ASSUME IInv, pos = 0, acc = <<>>, NEW e \in Current PROVE Begun(e)
    BY DEF Stacked
  <1>1. e \in Expr
    BY CurrentIsExpr DEF CurrentTyped
  <1>2. Len(e) \in Nat /\ Height(e)[0] = 0
    BY <1>1, ExprHeights
  <1>3. Abstract!Stacks(e, Abstract!Meanings[line])[0] = {<<>>}
    BY <1>2, StacksAre
  <1>4. pos <= Len(e) /\ Len(acc) = Height(e)[pos]
    BY <1>2
  <1>5. \A j \in 1 .. pos : FALSE
    OBVIOUS
  <1>. QED
    BY <1>3, <1>4, <1>5 DEF Begun

LEMMA StackedStartsNext == (IInv /\ pos = 0 /\ acc = <<>> => Stacked)'
  <1>1. IInv /\ pos = 0 /\ acc = <<>> => Stacked
    BY StackedStarts
  <1>. QED
    BY <1>1, PTL

LEMMA Reduction ==
  ASSUME IInv, NEW e \in Current, pos < Len(e), Begun(e), Step,
         UNCHANGED <<input, program, symbols, fixups>>,
         Len(acc') = Len(acc) + 1 - Arity(e[pos + 1]),
         Abstract!Reduce({acc}, e[pos + 1], Abstract!Meanings[line]) = {acc'},
         ~Abstract!Unknown(e[pos + 1], line)
  PROVE  Stacked'
  <1>1. Current' = Current /\ source' = source /\ source \in Sources /\ line' = line
    BY DEF Step, Current, Body, Least, input, fixups, IInv, TypeOK
  <1>2. pos \in Nat /\ Len(acc) \in Nat /\ pos' = pos + 1
    BY DEF IInv, TypeOK, Step
  <1>3. e \in Expr
    BY CurrentIsExpr DEF CurrentTyped
  <1>4. /\ Len(e) \in Nat /\ pos + 1 \in 1 .. Len(e) /\ (pos + 1) - 1 = pos
        /\ Height(e)[pos + 1] = Height(e)[pos] + 1 - Arity(e[pos + 1])
    <2>1. Len(e) \in Nat
      BY <1>3, ExprHeights
    <2>2. pos \in 0 .. Len(e) - 1
      BY <1>2, <2>1
    <2>. QED
      BY <1>2, <1>3, <2>1, <2>2, ExprHeights
  <1> DEFINE S == Abstract!Stacks(e, Abstract!Meanings[line])
  <1>5. S[pos + 1] = {acc'}
    <2>1. S[pos + 1] = Abstract!Reduce(S[pos], e[pos + 1], Abstract!Meanings[line])
      BY <1>4, StacksAre
    <2>2. S[pos] = {acc}
      BY DEF Begun
    <2> HIDE DEF S
    <2>. QED
      BY <2>1, <2>2
  <1>6. S' = S
    BY <1>1, SameMeanings
  <1> HIDE DEF S
  <1>7. \A j \in 1 .. pos + 1 : ~Abstract!Unknown(e[j], line)
    <2>1. \A j \in 1 .. pos + 1 : j \in 1 .. pos \/ j = pos + 1
      BY <1>2
    <2>. QED
      BY <2>1 DEF Begun
  <1>8. ASSUME NEW j \in 1 .. pos + 1
        PROVE  ~Abstract!Unknown(e[j], line)'
    <2>1. \A t : Abstract!Unknown(t, line)' <=> Abstract!Unknown(t, line)
      BY <1>1, SameUnknown
    <2>. QED
      BY <1>7, <2>1
  <1>9. pos' <= Len(e) /\ Len(acc') = Height(e)[pos']
    BY <1>2, <1>4 DEF Begun
  <1>10. S'[pos'] = {acc'}
    BY <1>2, <1>5, <1>6
  <1>11. Begun(e)'
    <2>1. \A j \in 1 .. pos' : ~Abstract!Unknown(e[j], line)'
      BY <1>2, <1>8
    <2>. QED
      BY <1>9, <1>10, <2>1 DEF Begun, S
  <1>12. \A f \in Current' : f = e
    BY <1>1, CurrentAlone
  <1>13. ASSUME NEW f \in Current'
         PROVE  Begun(f)'
    <2>1. f = e
      BY <1>12
    <2>. QED
      BY <1>11, <2>1
  <1>. QED
    BY <1>1, <1>13 DEF Stacked

\* What parse_expr is evaluating, when the text is promised something.
Sound ==
  /\ SymbolsDisjoint /\ NoDollarDeferred
  /\ Abstract!Promised => KnownEqus /\ EquValues /\ Stacked

\* The next reduction, and what it finds.
LEMMA NextReduction ==
  ASSUME IInv, Read, Sound, Abstract!Promised, NEW t, Reduces(t)
  PROVE  \E e \in Current :
           /\ e \in Expr /\ Len(e) \in Nat /\ pos < Len(e) /\ e[pos + 1] = t
           /\ pos + 1 \in 1 .. Len(e) /\ (pos + 1) - 1 = pos
           /\ Begun(e) /\ Abstract!Evaluates(e, line) /\ phase \in Evaluation
           /\ Arity(t) <= Len(acc)
  <1>1. PICK e \in Current : pos < Len(e) /\ e[pos + 1] = t
    BY DEF Reduces
  <1>2. e \in Expr
    BY CurrentIsExpr DEF CurrentTyped
  <1>3. Abstract!Evaluates(e, line) /\ phase \in Evaluation
    BY CurrentEvaluates DEF Sound
  <1>4. Begun(e)
    <2>1. phase \notin Terminal
      BY <1>3 DEF Evaluation, Patching, Terminal
    <2>. QED
      BY <2>1 DEF Sound, Stacked
  <1>5. Len(e) \in Nat /\ pos \in 0 .. Len(e) - 1 /\ pos \in Nat
    BY <1>1, <1>2, ExprHeights DEF IInv, TypeOK
  <1>6. Arity(e[pos + 1]) <= Height(e)[pos]
    BY <1>2, <1>5, ExprHeights
  <1>7. Len(acc) = Height(e)[pos]
    BY <1>4 DEF Begun
  <1>8. pos + 1 \in 1 .. Len(e) /\ (pos + 1) - 1 = pos
    BY <1>5
  <1>. QED
    BY <1>1, <1>2, <1>3, <1>4, <1>5, <1>6, <1>7, <1>8

LEMMA EvaluatingStacked ==
  ASSUME IInv, Read, Sound, Abstract!Promised, Evaluating
  PROVE  Stacked' /\ phase' # "undefined"
  <1>1. /\ UNCHANGED <<input, program, symbols, fixups>>
        /\ acc \in Seq(CInt) /\ pos \in Nat /\ Len(acc) \in Nat
    BY DEF Evaluating, PushNumber, PushName, Negate, BinaryOp, SyntaxError, ReturnNothing,
           input, IInv, TypeOK, program, symbols, fixups
  <1> DEFINE M == Abstract!Meanings[line]
  <1>2. ASSUME NEW t, Reduces(t), Step, Len(acc') = Len(acc) + 1 - Arity(t),
               Abstract!Reduce({acc}, t, M) = {acc'}, ~Abstract!Unknown(t, line)
        PROVE  Stacked' /\ phase' # "undefined"
    <2>1. PICK e \in Current : /\ pos < Len(e) /\ e[pos + 1] = t
                               /\ Begun(e) /\ phase \in Evaluation
      BY <1>2, NextReduction
    <2>2. Stacked'
      BY <1>1, <1>2, <2>1, Reduction
    <2>3. phase' # "undefined"
      BY <1>2, <2>1 DEF Step, Evaluation, Patching
    <2>. QED
      BY <2>2, <2>3
  <1>3. CASE PushNumber
    <2>1. PICK v \in Word : Reduces([t |-> "num", v |-> v]) /\ acc' = Append(acc, v) /\ Step
      BY <1>3 DEF PushNumber
    <2> DEFINE t == [t |-> "num", v |-> v]
    <2>2. Arity(t) = 0 /\ v \in CInt /\ ~Abstract!Unknown(t, line)
      BY WordIsInt DEF Arity, Operators, Abstract!Unknown
    <2>3. Abstract!Reduce({acc}, t, M) = {acc'}
      BY <2>1, ReduceNumber
    <2>4. Len(acc') = Len(acc) + 1 - Arity(t)
      BY <1>1, <2>1, <2>2
    <2> HIDE DEF t
    <2>. QED
      BY <1>2, <2>1, <2>2, <2>3, <2>4 DEF t
  <1>4. CASE PushName
    <2>1. PICK n \in Names :
            /\ Reduces([t |-> "name", n |-> n])
            /\ \/ Meanings(n) = {} /\ Fail
               \/ \E m \in Meanings(n) : acc' = Append(acc, m) /\ Step
      BY <1>4 DEF PushName
    <2>2. CASE Fail
      <3>1. phase' = "error"
        BY <2>2 DEF Fail
      <3>. QED
        BY <3>1 DEF Terminal, Stacked
    <2>3. CASE \E m \in Meanings(n) : acc' = Append(acc, m) /\ Step
      <3> DEFINE t == [t |-> "name", n |-> n]
      <3>1. PICK m \in Meanings(n) : acc' = Append(acc, m) /\ Step
        BY <2>3
      <3>2. Reduces(t) /\ phase \in Evaluation
        BY <2>1, NextReduction
      <3>3. Meanings(n) = M[n] /\ Meanings(n) = {m} /\ n \in Abstract!KnownAt(line)
        BY <3>1, <3>2, MeaningsAgree DEF Sound
      <3>4. Abstract!Reduce({acc}, t, M) = {acc'}
        <4>1. Abstract!Reduce({acc}, t, M) = {Append(acc, v) : v \in M[n]}
          BY ReduceName
        <4>2. M[n] = {m}
          BY <3>3
        <4>3. {Append(acc, v) : v \in M[n]} = {Append(acc, m)}
          BY <4>2
        <4>. QED
          BY <3>1, <4>1, <4>3
      <3>5. Arity(t) = 0 /\ ~Abstract!Unknown(t, line)
        BY <3>3 DEF Arity, Operators, Abstract!Unknown
      <3>6. Len(acc') = Len(acc) + 1 - Arity(t)
        BY <1>1, <3>1, <3>5, MeaningsType
      <3> HIDE DEF t
      <3>. QED
        BY <1>2, <3>1, <3>2, <3>4, <3>5, <3>6
    <2>. QED
      BY <2>1, <2>2, <2>3
  <1>5. CASE Negate
    <2> DEFINE t == [t |-> "neg"]
    <2>1. Reduces(t) /\ Step /\ Len(acc) > 0 /\ acc' = Append(Rest, Wrap(-Top))
      BY <1>5 DEF Negate
    <2>2. Arity(t) = 1 /\ ~Abstract!Unknown(t, line)
      BY DEF Arity, Operators, Abstract!Unknown
    <2>3. Abstract!Reduce({acc}, t, M) = {acc'}
      BY <2>1, ReduceNegation DEF Rest, Top
    <2>4. acc # <<>>
      BY <1>1, <2>1
    <2>5. Len(Rest) = Len(acc) - 1 /\ Wrap(-Top) \in CInt /\ Rest \in Seq(CInt)
      <3>1. Top \in Int /\ Rest \in Seq(CInt)
        BY <2>4, AccType
      <3>2. Len(Rest) = Len(acc) - 1
        <4>1. Len(acc) - 1 \in 0 .. Len(acc)
          BY <1>1, <2>1
        <4>. QED
          BY <1>1, <4>1, FirstPart DEF Rest
      <3>. QED
        BY <3>1, <3>2, WrapType
    <2>6. Len(acc') = Len(acc) + 1 - Arity(t)
      BY <1>1, <2>1, <2>2, <2>5
    <2> HIDE DEF t
    <2>. QED
      BY <1>2, <2>1, <2>2, <2>3, <2>6
  <1>6. CASE BinaryOp
    <2> DEFINE x == acc[Len(acc) - 1]
               below == SubSeq(acc, 1, Len(acc) - 2)
    <2>1. PICK op \in Operators :
            /\ Reduces([t |-> op])
            /\ Len(acc) > 1
            /\ IF Traps(op, x, Top)
               THEN phase' = "undefined" /\ UNCHANGED <<line, item, todo, pos, acc>>
               ELSE acc' = Append(below, Apply(op, x, Top)) /\ Step
      BY <1>6 DEF BinaryOp
    <2> DEFINE t == [t |-> op]
    <2>2. /\ Traps(op, x, Top) => Abstract!Reduce({acc}, t, M) = {}
          /\ ~Traps(op, x, Top) => Abstract!Reduce({acc}, t, M) = {Append(below, Apply(op, x, Top))}
      BY <1>1, <2>1, ReduceOperator DEF Top
    <2>3. Arity(t) = 2 /\ ~Abstract!Unknown(t, line)
      BY DEF Arity, Operators, Abstract!Unknown
    <2>4. CASE Traps(op, x, Top)
      <3>1. PICK e \in Current : /\ Len(e) \in Nat /\ e[pos + 1] = t /\ pos + 1 \in 1 .. Len(e)
                                 /\ (pos + 1) - 1 = pos /\ Begun(e) /\ Abstract!Evaluates(e, line)
                                 /\ e \in Expr
        BY <2>1, NextReduction
      <3> DEFINE S == Abstract!Stacks(e, M)
      <3>2. S[pos + 1] = Abstract!Reduce(S[pos], e[pos + 1], M)
        BY <3>1, StacksAre
      <3>3. S[pos] = {acc} /\ \A j \in 1 .. pos : ~Abstract!Unknown(e[j], line)
        BY <3>1 DEF Begun
      <3>4. \/ S[pos + 1] # {}
            \/ \E j \in 1 .. pos + 1 : Abstract!Unknown(e[j], line)
        <4>1. pos + 1 \in DOMAIN e
          BY <3>1 DEF Expr
        <4>. QED
          BY <3>1, <4>1 DEF Abstract!Evaluates
      <3> HIDE DEF S, M, t, x, below
      <3>5. S[pos + 1] = {}
        BY <2>2, <2>4, <3>1, <3>2, <3>3
      <3>6. PICK j \in 1 .. pos + 1 : Abstract!Unknown(e[j], line)
        BY <3>4, <3>5
      <3>7. j \in 1 .. pos \/ j = pos + 1
        BY <1>1
      <3>. QED
        BY <2>3, <3>1, <3>3, <3>6, <3>7
    <2>5. CASE ~Traps(op, x, Top)
      <3>1. acc' = Append(below, Apply(op, x, Top)) /\ Step
        BY <2>1, <2>5
      <3>2. Abstract!Reduce({acc}, t, M) = {acc'}
        BY <2>2, <2>5, <3>1
      <3>3. acc # <<>>
        BY <1>1, <2>1
      <3>4. Top \in CInt /\ x \in CInt /\ below \in Seq(CInt) /\ Len(below) = Len(acc) - 2
        <4>1. Top \in CInt /\ x \in CInt /\ below \in Seq(CInt)
          BY <2>1, <3>3, AccType
        <4>2. Len(below) = Len(acc) - 2
          <5>1. Len(acc) - 2 \in 0 .. Len(acc)
            BY <1>1, <2>1
          <5>. QED
            BY <1>1, <5>1, FirstPart
        <4>. QED
          BY <4>1, <4>2
      <3> HIDE DEF x, below
      <3>5. Apply(op, x, Top) \in CInt
        BY <2>5, <3>4, ApplyType
      <3>6. Len(acc') = Len(acc) + 1 - Arity(t)
        BY <1>1, <2>3, <3>1, <3>4, <3>5
      <3>7. Reduces(t)
        BY <2>1
      <3> HIDE DEF t
      <3>. QED
        BY <1>2, <2>3, <3>1, <3>2, <3>6, <3>7
    <2>. QED
      BY <2>4, <2>5
  <1>7. CASE SyntaxError
    <2>1. Reduces([t |-> "$"])
      BY <1>7 DEF SyntaxError
    <2>2. PICK e \in Current : /\ e[pos + 1] = [t |-> "$"] /\ pos + 1 \in 1 .. Len(e)
                               /\ Abstract!Evaluates(e, line)
      BY <2>1, NextReduction
    <2>3. Abstract!HasDollar(e)
      BY <2>2 DEF Abstract!HasDollar
    <2>. QED
      BY <2>2, <2>3 DEF Abstract!Evaluates
  <1>8. CASE ReturnNothing
    <2>1. PICK e \in Current : pos = Len(e) /\ acc = <<>>
      BY <1>8 DEF ReturnNothing, AtReturn
    <2>2. e \in Expr /\ phase \in Evaluation
      BY CurrentIsExpr, CurrentEvaluates DEF CurrentTyped, Sound
    <2>3. phase \notin Terminal
      BY <2>2 DEF Evaluation, Patching, Terminal
    <2>4. Len(acc) = Height(e)[pos]
      BY <2>3 DEF Sound, Stacked, Begun
    <2>. QED
      BY <2>1, <2>2, <2>4, ExprHeights
  <1>. QED
    BY <1>3, <1>4, <1>5, <1>6, <1>7, <1>8 DEF Evaluating

\* What parse_expr returns is the value of its text.
LEMMA Returned ==
  ASSUME IInv, Read, Sound, Abstract!Promised, Returns
  PROVE  \E e \in Current :
           /\ e \in Expr /\ phase \in Evaluation
           /\ Abstract!Values(e, Abstract!Meanings[line]) = {Result}
           /\ ~Abstract!UsesUnknown(e, line)
           /\ Result \in Word /\ acc' = <<>> /\ pos' = 0
  <1>1. PICK e \in Current : pos = Len(e)
    BY DEF Returns, AtReturn
  <1>2. e \in Expr /\ phase \in Evaluation
    BY CurrentIsExpr, CurrentEvaluates DEF CurrentTyped, Sound
  <1>3. Begun(e)
    <2>1. phase \notin Terminal
      BY <1>2 DEF Evaluation, Patching, Terminal
    <2>. QED
      BY <2>1 DEF Sound, Stacked
  <1>4. Len(e) \in Nat /\ Height(e)[pos] = 1 /\ DOMAIN e = 1 .. Len(e)
    BY <1>1, <1>2, ExprHeights DEF Expr
  <1>5. Len(acc) = 1 /\ Len(acc) - 1 = 0 /\ acc # <<>>
    BY <1>3, <1>4 DEF Begun, Returns
  <1>6. acc' = <<>> /\ pos' = 0 /\ Result \in Word
    BY <1>5, AccType DEF Returns, Rest
  <1>7. ~Abstract!UsesUnknown(e, line)
    BY <1>1, <1>3, <1>4 DEF Begun, Abstract!UsesUnknown
  <1> DEFINE S == Abstract!Stacks(e, Abstract!Meanings[line])[Len(e)]
  <1>8. S = {acc}
    BY <1>1, <1>3 DEF Begun
  <1>9. Abstract!Values(e, Abstract!Meanings[line]) = {Abstract!Last(s) % WordSize : s \in S}
    BY DEF Abstract!Values
  <1>10. Abstract!Last(acc) % WordSize = Result
    BY DEF Abstract!Last, Result, Top
  <1> HIDE DEF S
  <1>. QED
    BY <1>1, <1>2, <1>6, <1>7, <1>8, <1>9, <1>10

LEMMA StackedStep ==
  ASSUME IInv, Read, Sound, Abstract!Promised, [Next]_vars
  PROVE  Stacked'
  <1>1. source' = source /\ source \in Sources /\ IInv'
    BY FixupsFrame, StepInv DEF IInv, TypeOK, vars
  <1>2. CASE Evaluating
    BY <1>2, EvaluatingStacked
  <1>3. CASE Parsing \/ NextLoop
    <2>1. Current = {} /\ phase \notin Terminal
      BY <1>3 DEF Current, Least, Parsing, DefineLabel, EmptyLine, RejectLine, CallEqu, SetOrg,
         PushOpcode, AccountCode, PushDbItem, AccountDb, ReserveDs, PushDwItem, AccountDw,
         StartFixups, AtBody, NextLoop, Terminal
    <2>2. pos = 0 /\ acc = <<>>
      BY <2>1 DEF Sound, Stacked
    <2>3. pos' = 0 /\ acc' = <<>>
      BY <1>3, <2>2 DEF Parsing, DefineLabel, EmptyLine, RejectLine, CallEqu, SetOrg,
         PushOpcode, AccountCode, PushDbItem, AccountDb, ReserveDs, PushDwItem, AccountDw,
         StartFixups, NextLoop, NextLine, Fail, evaluation
    <2>. QED
      BY <1>1, <2>3, StackedStartsNext
  <1>4. CASE ReturnEqu \/ PatchRel \/ PatchByte \/ PatchWord
    <2>1. Returns
      BY <1>4 DEF ReturnEqu, PatchRel, PatchByte, PatchWord
    <2>2. pos' = 0 /\ acc' = <<>>
      BY <2>1, Returned
    <2>. QED
      BY <1>1, <2>2, StackedStartsNext
  <1>5. CASE CheckLimit
    BY <1>5 DEF CheckLimit, Stacked, Terminal
  <1>6. CASE UNCHANGED vars
    <2>1. Current' = Current
      BY <1>6 DEF vars, Current, Body, Least
    <2>2. \A e : Begun(e)' <=> Begun(e)
      <3>1. Abstract!Meanings' = Abstract!Meanings
        BY <1>1, SameMeanings
      <3>2. \A t, i : Abstract!Unknown(t, i)' <=> Abstract!Unknown(t, i)
        BY <1>1, SameUnknown
      <3>3. line' = line /\ pos' = pos /\ acc' = acc
        BY <1>6 DEF vars
      <3>. QED
        BY <3>1, <3>2, <3>3 DEF Begun
    <2>3. Stacked
      BY DEF Sound
    <2>. QED
      BY <1>6, <2>1, <2>2, <2>3 DEF Stacked, vars
  <1>7. CASE Ended
    BY <1>7 DEF Ended, vars, Stacked
  <1>. QED
    BY <1>2, <1>3, <1>4, <1>5, <1>6, <1>7 DEF Next, FixingUp

\* An EQU of a line after i is not among those before i.
LEMMA EquLinesAre ==
  ASSUME source \in Sources
  PROVE  \A n : \A m \in Abstract!EquLines(n) :
           /\ m \in Abstract!Lines /\ m \in Nat /\ Abstract!Body(m) = source[m].body
           /\ source[m].body.k = "equ" /\ source[m].body.name = n
  BY SourceIs DEF Abstract!EquLines, Abstract!Is

\* ReturnEqu: the text and the name of the EQU that ends.
LEMMA EquReturned ==
  ASSUME IInv, Read, Sound, Abstract!Promised, ReturnEqu, Body.k = "equ"
  PROVE  /\ line \in Abstract!Lines /\ line \in Abstract!EquLines(Body.name)
         /\ Abstract!Values(Abstract!Body(line).expr, Abstract!Meanings[line]) = {Result}
         /\ ~Abstract!UsesUnknown(Abstract!Body(line).expr, line)
  <1>1. phase = "equ" /\ Returns
    BY DEF ReturnEqu
  <1>2. line \in Abstract!Lines /\ Abstract!Body(line) = Body
    BY <1>1, BodyOf DEF Read, InText
  <1>3. \A e \in Current : e = Body.expr
    BY <1>1 DEF Current
  <1>. QED
    BY <1>1, <1>2, <1>3, Returned DEF Abstract!EquLines, Abstract!Is

LEMMA EquValuesStep ==
  ASSUME IInv, Read, Sound, Abstract!Promised, [Next]_vars
  PROVE  EquValues'
  <1> SUFFICES ASSUME phase' \notin Lost PROVE EquValues'
    BY DEF EquValues
  <1>1. source' = source /\ source \in Sources /\ phase \notin Lost
    BY FixupsFrame, LostStays DEF IInv, TypeOK, vars
  <1>2. /\ \A n : Abstract!EquLines(n)' = Abstract!EquLines(n)
        /\ \A i : Abstract!Body(i)' = Abstract!Body(i)
        /\ Abstract!Meanings' = Abstract!Meanings
    BY <1>1, SameText, SameMeanings
  <1>3. line \in Nat /\ IsMap(equ, Names, Word) /\ EquValues
    BY DEF IInv, TypeOK, Sound
  <1> SUFFICES ASSUME NEW n \in DOMAIN equ', NEW m \in Abstract!EquLines(n), LastEqu(n, m)'
               PROVE  Abstract!Values(Abstract!Body(m).expr, Abstract!Meanings[m]) = {equ'[n]}
    <2> DEFINE V(m) == Abstract!Values(Abstract!Body(m).expr, Abstract!Meanings[m])
    <2>1. \A m : V(m)' = V(m)
      BY <1>2
    <2>. QED
      BY <1>2, <2>1 DEF EquValues
  <1>4. /\ m \in Nat /\ m \in Abstract!Lines /\ Abstract!Body(m) = source[m].body
        /\ source[m].body.k = "equ" /\ source[m].body.name = n
    BY <1>1, EquLinesAre
  <1>5. m < line' /\ \A j \in Abstract!EquLines(n) : j < line' => j <= m
    BY <1>2 DEF LastEqu
  <1>6. \A j \in Abstract!EquLines(n) : j \in Nat
    BY <1>1, EquLinesAre
  <1>7. Body = source[line].body
    BY DEF Body
  <1>8. ASSUME m # line, line' \in {line, line + 1}, n \in DOMAIN equ, equ'[n] = equ[n]
        PROVE  Abstract!Values(Abstract!Body(m).expr, Abstract!Meanings[m]) = {equ'[n]}
    <2>1. m < line
      BY <1>3, <1>4, <1>5, <1>8
    <2>2. \A j \in Abstract!EquLines(n) : j < line => j <= m
      BY <1>3, <1>5, <1>6, <1>8
    <2>3. LastEqu(n, m)
      BY <2>1, <2>2 DEF LastEqu
    <2>. QED
      BY <1>1, <1>3, <1>8, <2>3 DEF EquValues
  <1>9. CASE /\ EndLine /\ NextLine /\ ReturnEqu /\ Body.k = "equ"
             /\ equ' = [k \in DOMAIN equ \cup {Body.name} |-> IF k = Body.name THEN Result ELSE equ[k]]
    <2>1. line' = line + 1 /\ line \in Nat
      BY <1>3, <1>9 DEF NextLine
    <2>2. /\ line \in Abstract!Lines /\ line \in Abstract!EquLines(Body.name)
          /\ Abstract!Values(Abstract!Body(line).expr, Abstract!Meanings[line]) = {Result}
      BY <1>9, EquReturned
    <2>3. CASE n = Body.name
      <3>1. m = line
        BY <1>4, <1>5, <2>1, <2>2, <2>3
      <3>2. equ'[n] = Result
        BY <1>9, <2>3
      <3>. QED
        BY <2>2, <3>1, <3>2
    <2>4. CASE n # Body.name
      <3>1. m # line
        BY <1>4, <1>7, <2>4
      <3>2. n \in DOMAIN equ /\ equ'[n] = equ[n]
        BY <1>9, <2>4
      <3>. QED
        BY <1>8, <2>1, <3>1, <3>2
    <2>. QED
      BY <2>3, <2>4
  <1>10. CASE EndLine /\ NextLine /\ equ' = equ /\ Body.k # "equ"
    <2>1. line' = line + 1 /\ m # line
      BY <1>4, <1>7, <1>10 DEF NextLine
    <2>. QED
      BY <1>8, <1>10, <2>1
  <1>11. CASE line' = line /\ equ' = equ
    <2>1. m # line
      BY <1>3, <1>4, <1>5, <1>11
    <2>. QED
      BY <1>8, <1>11, <2>1
  <1>. QED
    BY <1>9, <1>10, <1>11, EquFrame DEF Read

LEMMA KnownEqusStep ==
  ASSUME IInv, Read, Sound, Abstract!Promised, [Next]_vars
  PROVE  KnownEqus'
  <1> SUFFICES ASSUME phase' \notin Lost PROVE KnownEqus'
    BY DEF KnownEqus
  <1>1. source' = source /\ source \in Sources /\ phase \notin Lost
    BY FixupsFrame, LostStays DEF IInv, TypeOK, vars
  <1>2. /\ Abstract!Is("equ")' = Abstract!Is("equ")
        /\ \A i : Abstract!Body(i)' = Abstract!Body(i)
        /\ \A e, i : Abstract!UsesUnknown(e, i)' <=> Abstract!UsesUnknown(e, i)
    BY <1>1, SameText, SameUnknown
  <1> SUFFICES ASSUME NEW i \in Abstract!Is("equ"), i < line'
               PROVE  ~Abstract!UsesUnknown(Abstract!Body(i).expr, i)
    BY <1>2 DEF KnownEqus
  <1>3. i \in Abstract!Lines /\ i \in Nat /\ Abstract!Body(i) = source[i].body /\ source[i].body.k = "equ"
    BY <1>1, SourceIs DEF Abstract!Is
  <1>4. line \in Nat /\ KnownEqus
    BY DEF IInv, TypeOK, Sound
  <1>5. CASE i < line
    BY <1>1, <1>4, <1>5 DEF KnownEqus
  <1>6. CASE i = line /\ ReturnEqu /\ Body.k = "equ"
    BY <1>6, EquReturned
  <1>7. i < line \/ (i = line /\ ReturnEqu /\ Body.k = "equ")
    <2>1. Body = source[line].body
      BY DEF Body
    <2>2. CASE line' = line
      BY <2>2
    <2>3. CASE line' = line + 1
      <3>1. i < line \/ i = line
        BY <1>3, <1>4, <2>3
      <3>2. i = line => line' # line /\ Body.k = "equ"
        BY <1>3, <1>4, <2>1, <2>3
      <3>. QED
        BY <3>1, <3>2, EquFrame DEF Read
    <2>. QED
      BY <2>2, <2>3, EquFrame DEF Read, NextLine
  <1>. QED
    BY <1>5, <1>6, <1>7

LEMMA SoundStep == IInv /\ Read /\ Sound /\ [Next]_vars => Sound'
  <1> SUFFICES ASSUME IInv, Read, Sound, [Next]_vars
               PROVE  Sound'
    OBVIOUS
  <1>1. source' = source /\ source \in Sources
    BY FixupsFrame DEF IInv, TypeOK
  <1>2. SymbolsDisjoint' /\ NoDollarDeferred'
    BY SymbolsStep, NoDollarStep DEF Sound
  <1>3. Abstract!Promised' <=> Abstract!Promised
    BY <1>1, SamePromised
  <1>4. Abstract!Promised => KnownEqus' /\ EquValues' /\ Stacked'
    BY KnownEqusStep, EquValuesStep, StackedStep
  <1>. QED
    BY <1>2, <1>3, <1>4 DEF Sound

LEMMA ReadStep == IInv /\ Read /\ [Next]_vars => Read'
  BY InTextStep, OriginStep, ExtentStep, LaidStep, ClassifiedStep, LabelsStep, EqusStep,
     RecordedStep, SourcedStep, UnrejectedStep DEF Read

LEMMA InitRead == Init => Read
  <1> SUFFICES ASSUME Init PROVE Read
    OBVIOUS
  <1>1. /\ source \in Sources /\ line = 1 /\ phase = "line" /\ item = 0 /\ memory = <<>>
        /\ mem_type = <<>> /\ last_size = 0 /\ org = DefaultOrg /\ org_set = FALSE
        /\ label = Empty /\ equ = Empty
        /\ rel_addr = Empty /\ byte_expr = Empty /\ word_expr = Empty
    BY DEF Init, Fresh
  <1>2. /\ Len(source) \in Nat /\ Abstract!Lines = 1 .. Len(source)
        /\ Abstract!Start(1) = 0 /\ \A i \in Abstract!Lines : Abstract!Start(i) \in Nat
    BY <1>1, SourceIs, StartIs
  <1>3. \A i \in Abstract!Lines : i >= 1
    BY <1>2
  <1>0. Size = 0 /\ Size = Abstract!Start(1) /\ last_size = Abstract!Start(1)
    <2>1. Len(<<>>) = 0
      OBVIOUS
    <2>. QED
      BY <1>1, <1>2, <2>1 DEF Size
  <1>4. InText
    <2>1. line \in 1 .. Len(source) + 1
      BY <1>1, <1>2
    <2>2. line <= Len(source) => IsBody(Body)
      BY <1>1, <1>2, SourceIs DEF Body
    <2>3. line <= Len(source) /\ Body.k \in {"db", "dw"} => Len(Body.items) \in Nat
      BY <2>2 DEF IsBody
    <2>. QED
      BY <1>1, <2>1, <2>3 DEF InText, After, Patching
  <1>5. IInv
    BY InitInv
  <1>6. Origin
    <2>1. Orgs(1) = {}
      BY <1>2, <1>3 DEF Orgs, Abstract!Is
    <2>2. Abstract!OrgAt(1) = DefaultOrg
      BY <1>2, <1>3 DEF Abstract!OrgAt, Abstract!Is
    <2>. QED
      BY <1>1, <2>1, <2>2 DEF Origin
  <1>7. Extent
    <2>1. Progress = 0
      BY <1>1, <1>4, <1>5, ProgressStarts
    <2>. QED
      BY <1>0, <1>1, <2>1 DEF Extent
  <1>8. Laid /\ Classified
    <2>1. 1 .. Size = {} /\ 1 .. last_size = {}
      BY <1>0, <1>1
    <2>2. Expand(mem_type) = <<>> /\ <<>> \in Seq(Kinds) /\ Len(<<>>) = 0
      BY <1>1, ExpandEmpty
    <2>. QED
      BY <1>1, <2>1, <2>2 DEF Laid, Classified
  <1>9. \A n : Abstract!LabelLines(n) \subseteq Abstract!Lines /\ Abstract!EquLines(n) \subseteq Abstract!Lines
    BY DEF Abstract!LabelLines, Abstract!EquLines, Abstract!Is
  <1>10. Labels
    <2>1. \A n : \A j \in Abstract!LabelLines(n) : ~LabelRead(j)
      BY <1>1, <1>2, <1>9 DEF LabelRead
    <2>. QED
      BY <1>1, <2>1 DEF Labels, Empty
  <1>11. Equs /\ Unrejected
    <2>1. \A n : \A j \in Abstract!EquLines(n) : ~(j < 1)
      BY <1>2, <1>9
    <2>2. Equs
      BY <1>1, <2>1 DEF Equs, Empty
    <2>3. \A j \in Abstract!Lines : ~(j < 1)
      BY <1>2
    <2>. QED
      BY <1>1, <2>2, <2>3 DEF Unrejected
  <1>12. Recorded
    <2>1. ASSUME NEW i \in Abstract!Lines, NEW x \in Abstract!Operands(i)
          PROVE  ~(Abstract!Start(i) + x.at < Size)
      <3>1. x.at \in Nat
        BY <1>1, OperandInside
      <3>. QED
        BY <1>0, <1>2, <3>1
    <2>. QED
      BY <2>1 DEF Recorded
  <1>13. Sourced
    BY <1>1 DEF Sourced, Empty
  <1>. QED
    BY <1>4, <1>6, <1>7, <1>8, <1>10, <1>11, <1>12, <1>13 DEF Read

LEMMA InitSound == Init => Sound
  <1> SUFFICES ASSUME Init PROVE Sound
    OBVIOUS
  <1>1. /\ source \in Sources /\ line = 1 /\ label = Empty /\ equ = Empty
        /\ rel_addr = Empty /\ byte_expr = Empty /\ word_expr = Empty /\ pos = 0 /\ acc = <<>>
    BY DEF Init, Fresh
  <1>2. SymbolsDisjoint /\ NoDollarDeferred
    BY <1>1 DEF SymbolsDisjoint, NoDollarDeferred, Empty
  <1>3. KnownEqus
    <2>1. \A i \in Abstract!Is("equ") : ~(i < 1)
      BY <1>1, SourceIs DEF Abstract!Is
    <2>. QED
      BY <1>1, <2>1 DEF KnownEqus
  <1>4. EquValues
    BY <1>1 DEF EquValues, Empty
  <1>5. Stacked
    BY <1>1, InitInv, StackedStarts
  <1>. QED
    BY <1>2, <1>3, <1>4, <1>5 DEF Sound

\* What the first pass of TwoPass says of the text holds of what has been read.
LEMMA ReadInvariance == Spec => [](IInv /\ Read /\ Sound)
  <1> DEFINE Inv == IInv /\ Read /\ Sound
  <1>1. Init => Inv
    BY InitInv, InitRead, InitSound
  <1>2. Inv /\ [Next]_vars => Inv'
    BY StepInv, ReadStep, SoundStep
  <1>. QED
    BY <1>1, <1>2, PTL DEF Spec

-----------------------------------------------------------------------------
(* What a step of fixup_addresses writes.                                  *)

\* The cells of an operand at address a.
Cells(x, a) == a .. a + Width(x) - 1

Put(how, a) ==
  CASE how = "rel" -> <<RelOffset(a) % ByteSize>>
    [] how = "+" -> <<Result % ByteSize>>
    [] how = "-" -> <<(-Result) % ByteSize>>
    [] OTHER -> <<Result % ByteSize, Result \div ByteSize>>

\* The step stores operand y at address a, and nothing else.
Writes(y, a) ==
  /\ a \in Nat /\ a + Width(y) <= Size /\ Len(memory') = Len(memory)
  /\ y.how \in {"rel", "+", "-", "word"} /\ y.expr \in Current /\ HeldAt(y, a)
  /\ y.how = "rel" => InReach(RelOffset(a))
  /\ \A c \in 1 .. Width(y) : memory'[a + c] = Put(y.how, a)[c]
  /\ \A c \in 0 .. Size - 1 : c \notin Cells(y, a) => memory'[c + 1] = memory[c + 1]
  /\ \A c \in Unwritten : c \in Unwritten' \/ c \in Cells(y, a)

LEMMA PatchRelWrites ==
  ASSUME IInv, PatchRel, phase' \notin Lost
  PROVE  \E y, a : Writes(y, a)
  <1>1. PICK a \in Least(todo) :
          /\ InReach(RelOffset(a))
          /\ memory' = [memory EXCEPT ![a + 1] = RelOffset(a) % ByteSize]
          /\ todo' = todo \ {a} /\ phase' = phase
    BY DEF PatchRel, Lost
  <1>2. phase = "rel" /\ fixups' = fixups /\ memory \in Seq(Byte)
    BY DEF PatchRel, IInv, TypeOK
  <1>3. /\ a \in Nat /\ a \in DOMAIN rel_addr /\ Current = {rel_addr[a]}
    BY <1>2, LeastAlone
  <1>4. a + 1 <= Size /\ Size \in Nat
    BY <1>3, SizeIsNat DEF IInv, HolesSound, Holes
  <1> DEFINE y == [expr |-> rel_addr[a], how |-> "rel"]
             v == RelOffset(a) % ByteSize
  <1>5. y.how = "rel" /\ y.expr = rel_addr[a] /\ Width(y) = 1 /\ HeldAt(y, a) /\ Put(y.how, a)[1] = v
    BY <1>3 DEF Width, HeldAt, Put
  <1>6. /\ Len(memory') = Len(memory) /\ memory'[a + 1] = v
        /\ \A c \in 0 .. Size - 1 : c # a => memory'[c + 1] = memory[c + 1]
    <2>1. memory' = [memory EXCEPT ![a + 1] = v]
      BY <1>1
    <2> HIDE DEF v
    <2>. QED
      BY <1>2, <1>3, <1>4, <2>1 DEF Size
  <1>7. \A c \in Unwritten : c \in Unwritten' \/ c = a
    <2>1. Unwritten' = (todo \ {a}) \cup DOMAIN byte_expr \cup WordCells(DOMAIN word_expr)
      BY <1>1, <1>2 DEF Unwritten, fixups, WordCells
    <2>. QED
      BY <1>2, <2>1 DEF Unwritten
  <1> HIDE DEF y, v
  <1>8. \A c : c \in Cells(y, a) <=> c = a
    BY <1>3, <1>5 DEF Cells
  <1>9. \A c \in 1 .. Width(y) : c = 1
    BY <1>5
  <1>. QED
    BY <1>1, <1>3, <1>4, <1>5, <1>6, <1>7, <1>8, <1>9 DEF Writes

LEMMA PatchByteWrites ==
  ASSUME IInv, PatchByte
  PROVE  \E y, a : Writes(y, a)
  <1>1. PICK a \in Least(todo) :
          /\ memory' = [memory EXCEPT ![a + 1] =
               (IF byte_expr[a].op = "-" THEN -Result ELSE Result) % ByteSize]
          /\ todo' = todo \ {a}
    BY DEF PatchByte
  <1>2. phase = "byte" /\ phase' = phase /\ fixups' = fixups /\ memory \in Seq(Byte)
    BY DEF PatchByte, IInv, TypeOK
  <1>3. a \in Nat /\ a \in DOMAIN byte_expr /\ byte_expr[a].expr \in Current
    BY <1>2 DEF Least, IInv, TypeOK, TodoPending, Current
  <1>4. a + 1 <= Size /\ Size \in Nat
    BY <1>3, SizeIsNat DEF IInv, HolesSound, Holes
  <1> DEFINE y == byte_expr[a]
             z == [expr |-> y.expr, how |-> y.op]
             v == (IF y.op = "-" THEN -Result ELSE Result) % ByteSize
  <1>5. y \in ByteExpr
    BY <1>3 DEF IInv, TypeOK, IsMap
  <1>6. y.op \in {"+", "-"} /\ y = [expr |-> y.expr, op |-> y.op]
    <2> HIDE DEF y
    <2>. QED
      BY <1>5 DEF ByteExpr
  <1>7. z.how = y.op /\ z.expr = y.expr /\ Width(z) = 1 /\ HeldAt(z, a) /\ Put(z.how, a)[1] = v
    <2>1. z.how = y.op /\ z.expr = y.expr
      OBVIOUS
    <2>2. Width(z) = 1 /\ HeldAt(z, a)
      BY <1>3, <1>6, <2>1 DEF Width, HeldAt
    <2>3. Put(y.op, a)[1] = v
      BY <1>6 DEF Put
    <2>. QED
      BY <2>1, <2>2, <2>3
  <1>8. /\ Len(memory') = Len(memory) /\ memory'[a + 1] = v
        /\ \A c \in 0 .. Size - 1 : c # a => memory'[c + 1] = memory[c + 1]
    <2>1. memory' = [memory EXCEPT ![a + 1] = v]
      BY <1>1
    <2> HIDE DEF v
    <2>. QED
      BY <1>2, <1>3, <1>4, <2>1 DEF Size
  <1>9. \A c \in Unwritten : c \in Unwritten' \/ c = a
    <2>1. Unwritten' = (todo \ {a}) \cup WordCells(DOMAIN word_expr)
      BY <1>1, <1>2 DEF Unwritten, fixups, WordCells
    <2>. QED
      BY <1>2, <2>1 DEF Unwritten
  <1>10. z.expr \in Current /\ z.how \in {"rel", "+", "-", "word"} /\ z.how # "rel"
    BY <1>3, <1>6, <1>7
  <1> HIDE DEF y, v, z
  <1>11. \A c : c \in Cells(z, a) <=> c = a
    BY <1>3, <1>7 DEF Cells
  <1>12. \A c \in 1 .. Width(z) : c = 1
    BY <1>7
  <1>. QED
    BY <1>3, <1>4, <1>7, <1>8, <1>9, <1>10, <1>11, <1>12 DEF Writes

LEMMA PatchWordWrites ==
  ASSUME IInv, PatchWord
  PROVE  \E y, a : Writes(y, a)
  <1>1. PICK a \in Least(todo) :
          /\ memory' = [memory EXCEPT ![a + 1] = Result % ByteSize,
                                      ![a + 2] = Result \div ByteSize]
          /\ todo' = todo \ {a}
    BY DEF PatchWord
  <1>2. phase = "word" /\ phase' = phase /\ memory \in Seq(Byte)
    BY DEF PatchWord, IInv, TypeOK
  <1>3. a \in Nat /\ a \in DOMAIN word_expr /\ word_expr[a] \in Current
    BY <1>2 DEF Least, IInv, TypeOK, TodoPending, Current
  <1>4. a + 2 <= Size /\ Size \in Nat
    <2>1. a + 1 \in Holes
      BY <1>3 DEF Holes, WordCells
    <2>. QED
      BY <1>3, <2>1, SizeIsNat DEF IInv, HolesSound
  <1> DEFINE y == [expr |-> word_expr[a], how |-> "word"]
             v == Result % ByteSize
             w == Result \div ByteSize
  <1>5. /\ y.how = "word" /\ y.expr = word_expr[a] /\ Width(y) = 2 /\ HeldAt(y, a)
        /\ Put(y.how, a)[1] = v /\ Put(y.how, a)[2] = w
    BY <1>3 DEF Width, HeldAt, Put
  <1>6. /\ Len(memory') = Len(memory) /\ memory'[a + 1] = v /\ memory'[a + 2] = w
        /\ \A c \in 0 .. Size - 1 : c \notin {a, a + 1} => memory'[c + 1] = memory[c + 1]
    <2>1. memory' = [memory EXCEPT ![a + 1] = v, ![a + 2] = w]
      BY <1>1
    <2>2. a + 1 \in 1 .. Len(memory) /\ a + 2 \in 1 .. Len(memory)
      BY <1>3, <1>4 DEF Size
    <2> HIDE DEF v, w
    <2>. QED
      BY <1>2, <1>3, <2>1, <2>2 DEF Size
  <1>7. \A c \in Unwritten : c \in Unwritten' \/ c \in {a, a + 1}
    <2>1. Unwritten' = WordCells(todo \ {a})
      BY <1>1, <1>2 DEF Unwritten
    <2>. QED
      BY <1>2, <2>1 DEF Unwritten, WordCells
  <1> HIDE DEF y, v, w
  <1>8. \A c : c \in Cells(y, a) <=> c \in {a, a + 1}
    BY <1>3, <1>5 DEF Cells
  <1>9. \A c \in 1 .. Width(y) : c \in {1, 2}
    BY <1>5
  <1>. QED
    BY <1>3, <1>4, <1>5, <1>6, <1>7, <1>8, <1>9 DEF Writes

\* No cell is two operands'.
LEMMA HeldOnce ==
  ASSUME IInv, NEW x, NEW b \in Nat, NEW y, NEW a \in Nat, HeldAt(x, b), HeldAt(y, a),
         NEW c, c \in Cells(x, b), c \in Cells(y, a)
  PROVE  b = a /\ x.how = y.how /\ x.expr = y.expr
  <1>1. /\ HolesSound
        /\ Width(x) = IF x.how = "word" THEN 2 ELSE 1
        /\ Width(y) = IF y.how = "word" THEN 2 ELSE 1
    BY DEF IInv, Width
  <1>2. CASE x.how = "word" /\ y.how = "word"
    <2>1. a \in DOMAIN word_expr /\ b \in DOMAIN word_expr
      BY <1>2 DEF HeldAt
    <2>2. a = b \/ a = b + 1 \/ b = a + 1
      BY <1>1, <1>2 DEF Cells
    <2>3. a = b
      BY <1>1, <2>1, <2>2 DEF HolesSound
    <2>. QED
      BY <1>2, <2>3 DEF HeldAt
  <1>3. CASE x.how = "word" /\ y.how # "word"
    <2>1. b \in DOMAIN word_expr /\ a \in DOMAIN rel_addr \cup DOMAIN byte_expr
      BY <1>3 DEF HeldAt
    <2>2. a = b \/ a = b + 1
      BY <1>1, <1>3 DEF Cells
    <2>. QED
      BY <1>1, <2>1, <2>2 DEF HolesSound, WordCells
  <1>4. CASE x.how # "word" /\ y.how = "word"
    <2>1. a \in DOMAIN word_expr /\ b \in DOMAIN rel_addr \cup DOMAIN byte_expr
      BY <1>4 DEF HeldAt
    <2>2. b = a \/ b = a + 1
      BY <1>1, <1>4 DEF Cells
    <2>. QED
      BY <1>1, <2>1, <2>2 DEF HolesSound, WordCells
  <1>5. CASE x.how # "word" /\ y.how # "word"
    <2>1. a = b
      BY <1>1, <1>5 DEF Cells
    <2>2. ~(a \in DOMAIN rel_addr /\ a \in DOMAIN byte_expr)
      BY <1>1 DEF HolesSound
    <2>3. [expr |-> x.expr, op |-> x.how] = [expr |-> y.expr, op |-> y.how] => x.expr = y.expr /\ x.how = y.how
      BY SMT
    <2>. QED
      BY <1>5, <2>1, <2>2, <2>3 DEF HeldAt
  <1>. QED
    BY <1>2, <1>3, <1>4, <1>5

\* Reading a byte as a signed one leaves the byte what it is.
LEMMA SignedByteStays ==
  ASSUME NEW r \in Int
  PROVE  SignedByte(r % ByteSize) % ByteSize = r % ByteSize
  <1> DEFINE b == r % ByteSize
             h == ByteSize \div 2
  <1>1. ByteSize \in Nat /\ ByteSize > 0 /\ b \in 0 .. ByteSize - 1
    BY WidthAssumption, ModBound
  <1>2. SignedByte(b) = b \/ SignedByte(b) = b - ByteSize
    BY DEF SignedByte
  <1> HIDE DEF b
  <1>3. b % ByteSize = b
    BY <1>1
  <1>4. (b - ByteSize) % ByteSize = b
    <2>1. ASSUME NEW x \in Int, x = b - ByteSize
          PROVE  x % ByteSize = b
      BY <1>1, <2>1, SMT
    <2>2. b - ByteSize \in Int
      BY <1>1
    <2>. QED
      BY <2>1, <2>2
  <1>5. SignedByte(b) % ByteSize = b
    BY <1>2, <1>3, <1>4
  <1>. QED
    BY <1>5 DEF b

\* What a loop of fixup_addresses makes of parse_expr's result is what the
\* second pass makes of the operand's value.
LEMMA StoredIs ==
  ASSUME IInv, Read, Sound, Abstract!Promised, Returns, phase \in Patching,
         NEW i \in Abstract!Lines, NEW x \in Abstract!Operands(i), x.expr \in Current,
         NEW a, a = Abstract!Start(i) + x.at
  PROVE  /\ ~Abstract!UsesUnknown(x.expr, Len(source) + 1)
         /\ x.how = "rel" /\ relative = "absolute" => Abstract!Distance(i, x) = RelOffset(a)
         /\ Abstract!Stored(i, x) = Put(x.how, a)
  <1>1. line = Len(source) + 1 /\ relative \in {"offset", "absolute"}
    BY DEF Read, InText, After, IInv, TypeOK
  <1>2. PICK e \in Current :
          /\ Abstract!Values(e, Abstract!Meanings[line]) = {Result}
          /\ ~Abstract!UsesUnknown(e, line) /\ Result \in Word
    BY Returned
  <1>3. x.expr = e
    BY CurrentAlone
  <1>4. Abstract!Value(x) = Result
    <2>1. Abstract!Values(x.expr, Abstract!Final) = {Result}
      BY <1>1, <1>2, <1>3 DEF Abstract!Final
    <2>2. Abstract!The({Result}) = Result
      BY DEF Abstract!The
    <2>. QED
      BY <2>1, <2>2 DEF Abstract!Value
  <1>5. Abstract!Org = org
    BY <1>1 DEF Abstract!Org, Read, Origin
  <1>6. Abstract!Distance(i, x) = Result - (org + a + 1)
    <2>1. Abstract!Start(i) \in Int /\ x.at \in Int
      BY SourceIs, StartIs, OperandInside DEF IInv, TypeOK
    <2>2. org \in Int
      BY WordIsInt, Widths DEF IInv, TypeOK, Word
    <2>. QED
      BY <1>4, <1>5, <2>1, <2>2 DEF Abstract!Distance
  <1>7. relative = "absolute" => Abstract!Distance(i, x) = RelOffset(a)
    BY <1>6 DEF RelOffset
  <1>8. CASE x.how = "rel"
    <2>1. Abstract!Stored(i, x) =
            <<(IF relative = "absolute" THEN Abstract!Distance(i, x) ELSE Abstract!Value(x)) % ByteSize>>
      BY <1>8 DEF Abstract!Stored
    <2>2. Put(x.how, a) = <<RelOffset(a) % ByteSize>>
      BY <1>8 DEF Put
    <2>3. relative # "absolute" => RelOffset(a) % ByteSize = Result % ByteSize
      <3>1. Result \in Int
        BY <1>2, WordIsInt, Widths DEF Word
      <3>. QED
        BY <3>1, SignedByteStays DEF RelOffset
    <2>. QED
      BY <1>1, <1>2, <1>3, <1>4, <1>7, <2>1, <2>2, <2>3
  <1>9. CASE x.how # "rel"
    <2>1. Abstract!Stored(i, x) = Put(x.how, a)
      BY <1>4, <1>9 DEF Abstract!Stored, Put
    <2>. QED
      BY <1>1, <1>2, <1>3, <1>9, <2>1
  <1>. QED
    BY <1>8, <1>9

\* The operand x of line i has been stored.
Stands(i, x) ==
  /\ ~Abstract!UsesUnknown(x.expr, Len(source) + 1)
  /\ x.how = "rel" /\ relative = "absolute" => InReach(Abstract!Distance(i, x))
  /\ \A c \in 1 .. Width(x) :
       memory[Abstract!Start(i) + x.at + c] = Abstract!Stored(i, x)[c]

Patched ==
  Abstract!Promised /\ phase \in After =>
    \A i \in Abstract!Lines : \A x \in Abstract!Operands(i) :
      \/ \E c \in Cells(x, Abstract!Start(i) + x.at) : c \in Unwritten
      \/ Stands(i, x)

LEMMA SameValues ==
  ASSUME source' = source, relative' = relative, source \in Sources
  PROVE  \A i, x : /\ Abstract!Stored(i, x)' = Abstract!Stored(i, x)
                   /\ Abstract!Distance(i, x)' = Abstract!Distance(i, x)
  <1>1. Abstract!Meanings' = Abstract!Meanings
    BY SameMeanings
  <1>2. Abstract!Final' = Abstract!Final
    BY <1>1 DEF Abstract!Final
  <1>3. \A x : Abstract!Value(x)' = Abstract!Value(x)
    BY <1>2 DEF Abstract!Value
  <1>4. Abstract!Org' = Abstract!Org /\ \A i : Abstract!Start(i)' = Abstract!Start(i)
    BY SameText, SameStart DEF Abstract!Org
  <1>5. \A i, x : Abstract!Distance(i, x)' = Abstract!Distance(i, x)
    BY <1>3, <1>4 DEF Abstract!Distance
  <1>. QED
    BY <1>3, <1>5 DEF Abstract!Stored

\* An operand stands as long as its bytes stay.
LEMMA StandsStays ==
  ASSUME source' = source, relative' = relative, source \in Sources,
         NEW i, NEW x, Stands(i, x), NEW a, a = Abstract!Start(i) + x.at,
         \A c \in 1 .. Width(x) : memory'[a + c] = memory[a + c]
  PROVE  Stands(i, x)'
  <1>1. /\ Abstract!Stored(i, x)' = Abstract!Stored(i, x)
        /\ Abstract!Distance(i, x)' = Abstract!Distance(i, x)
        /\ Abstract!Start(i)' = Abstract!Start(i)
        /\ Abstract!UsesUnknown(x.expr, Len(source) + 1)' <=> Abstract!UsesUnknown(x.expr, Len(source) + 1)
    BY SameValues, SameStart, SameUnknown
  <1>2. Width(x)' = Width(x)
    BY DEF Width
  <1>. QED
    BY <1>1, <1>2 DEF Stands

\* Before the first loop every operand waits.
LEMMA AllWaiting == IInv /\ Read /\ phase = "rel" /\ todo = DOMAIN rel_addr => Patched
  <1> SUFFICES ASSUME IInv, Read, phase = "rel", todo = DOMAIN rel_addr,
                      NEW i \in Abstract!Lines, NEW x \in Abstract!Operands(i),
                      NEW a, a = Abstract!Start(i) + x.at
               PROVE  \E c \in Cells(x, a) : c \in Unwritten
    BY DEF Patched
  <1>1. a \in Nat /\ HeldAt(x, a)
    BY AllHeld DEF Read, After, Patching
  <1>2. a \in Cells(x, a)
    BY <1>1 DEF Cells, Width
  <1>3. a \in Unwritten
    BY <1>1 DEF HeldAt, Unwritten, WordCells
  <1>. QED
    BY <1>2, <1>3

LEMMA AllWaitingNext == (IInv /\ Read /\ phase = "rel" /\ todo = DOMAIN rel_addr => Patched)'
  <1>1. IInv /\ Read /\ phase = "rel" /\ todo = DOMAIN rel_addr => Patched
    BY AllWaiting
  <1>. QED
    BY <1>1, PTL

\* Between the writes of the loops nothing waits less.
LEMMA WaitingStays ==
  ASSUME IInv, [Next]_vars, phase' \in After,
         ~StartFixups, ~PatchRel, ~PatchByte, ~PatchWord
  PROVE  phase \in After /\ memory' = memory /\ Unwritten' = Unwritten
  <1>1. phase' \notin {"line", "body", "opcode", "equ", "error", "undefined"}
    BY DEF After, Patching
  <1>2. ~Parsing /\ ~ReturnEqu
    BY <1>1, NextLoopInv DEF Parsing, DefineLabel, EmptyLine, RejectLine, CallEqu, SetOrg, PushOpcode,
       AccountCode, PushDbItem, AccountDb, ReserveDs, PushDwItem, AccountDw, Fail, NextLine,
       AtBody, ReturnEqu
  <1>3. CASE Evaluating
    <2>1. memory' = memory /\ fixups' = fixups /\ UNCHANGED <<phase, todo>>
      BY <1>1, <1>3, EvaluatingFrame DEF Evaluating, PushNumber, PushName, Negate, BinaryOp, SyntaxError,
         ReturnNothing
    <2>. QED
      BY <2>1 DEF Unwritten, fixups
  <1>4. CASE NextLoop
    <2>1. memory' = memory /\ fixups' = fixups /\ todo = {} /\ WordCells({}) = {}
      BY <1>4 DEF NextLoop, program, WordCells
    <2>2. CASE phase = "rel"
      BY <1>4, <2>1, <2>2 DEF NextLoop, Unwritten, fixups, After, Patching
    <2>3. CASE phase = "byte"
      BY <1>4, <2>1, <2>3 DEF NextLoop, Unwritten, fixups, After, Patching
    <2>4. CASE phase = "word"
      BY <1>4, <2>1, <2>4 DEF NextLoop, Unwritten, fixups, After, Patching
    <2>. QED
      BY <1>4, <2>2, <2>3, <2>4 DEF NextLoop
  <1>5. CASE CheckLimit
    BY <1>5 DEF CheckLimit, program, Unwritten, After, Patching
  <1>6. CASE UNCHANGED vars \/ Ended
    BY <1>6 DEF Ended, vars, Unwritten
  <1>. QED
    BY <1>2, <1>3, <1>4, <1>5, <1>6 DEF Next, FixingUp

\* A write stores its operand and leaves the others.
LEMMA WritesStand ==
  ASSUME IInv, Read, Sound, Abstract!Promised, Returns, phase \in Patching, Patched,
         UNCHANGED input, NEW y, NEW b, Writes(y, b),
         NEW i \in Abstract!Lines, NEW x \in Abstract!Operands(i), NEW a, a = Abstract!Start(i) + x.at,
         \A c \in Cells(x, a) : c \notin Unwritten'
  PROVE  Stands(i, x)'
  <1>1. source' = source /\ relative' = relative /\ source \in Sources /\ phase \in After
    BY DEF input, IInv, TypeOK, After
  <1>2. /\ a \in Nat /\ a + Width(x) <= Size /\ HeldAt(x, a) /\ Size \in Nat /\ Width(x) \in {1, 2}
        /\ x.how \in {"rel", "+", "-", "word"}
    BY <1>1, AllHeld, SizeIsNat, OperandInside DEF Read, Width
  <1>3. CASE \E c \in Cells(x, a) : c \in Cells(y, b)
    <2>1. a = b /\ x.how = y.how /\ x.expr = y.expr
      BY <1>2, <1>3, HeldOnce DEF Writes
    <2>2. Width(y) = Width(x)
      BY <2>1 DEF Width
    <2>3. /\ ~Abstract!UsesUnknown(x.expr, Len(source) + 1)
          /\ x.how = "rel" /\ relative = "absolute" => Abstract!Distance(i, x) = RelOffset(a)
          /\ Abstract!Stored(i, x) = Put(x.how, a)
      BY <2>1, StoredIs DEF Writes
    <2>4. \A c \in 1 .. Width(x) : memory'[a + c] = Abstract!Stored(i, x)[c]
      BY <2>1, <2>2, <2>3 DEF Writes
    <2>5. x.how = "rel" /\ relative = "absolute" => InReach(Abstract!Distance(i, x))
      BY <2>1, <2>3 DEF Writes
    <2>6. /\ Abstract!Stored(i, x)' = Abstract!Stored(i, x)
          /\ Abstract!Distance(i, x)' = Abstract!Distance(i, x)
          /\ Abstract!Start(i)' = Abstract!Start(i)
          /\ Abstract!UsesUnknown(x.expr, Len(source) + 1)' <=> Abstract!UsesUnknown(x.expr, Len(source) + 1)
      BY <1>1, SameValues, SameStart, SameUnknown
    <2>7. Width(x)' = Width(x)
      BY DEF Width
    <2>. QED
      BY <1>1, <2>3, <2>4, <2>5, <2>6, <2>7 DEF Stands
  <1>4. CASE \A c \in Cells(x, a) : c \notin Cells(y, b)
    <2>1. \A c \in Cells(x, a) : c \notin Unwritten
      BY <1>4 DEF Writes
    <2>2. Stands(i, x)
      BY <1>1, <2>1 DEF Patched
    <2>3. ASSUME NEW c \in 1 .. Width(x)
          PROVE  memory'[a + c] = memory[a + c]
      <3>1. a + c - 1 \in Cells(x, a) /\ a + c - 1 \in 0 .. Size - 1 /\ (a + c - 1) + 1 = a + c
        BY <1>2 DEF Cells
      <3>. QED
        BY <1>4, <3>1 DEF Writes
    <2>. QED
      BY <1>1, <2>2, <2>3, StandsStays
  <1>. QED
    BY <1>3, <1>4

LEMMA PatchedStep == IInv /\ Read /\ Sound /\ Patched /\ [Next]_vars => Patched'
  <1> SUFFICES ASSUME IInv, Read, Sound, Patched, [Next]_vars, phase' \in After, Abstract!Promised'
               PROVE  Patched'
    BY DEF Patched
  <1>1. source' = source /\ source \in Sources /\ phase' \notin Lost
    BY FixupsFrame DEF IInv, TypeOK, After, Patching, Lost
  <1>2. UNCHANGED input /\ relative' = relative
    BY <1>1, LineFrame DEF vars, input
  <1>3. Abstract!Promised
    BY <1>1, SamePromised
  <1>4. /\ Abstract!Lines' = Abstract!Lines
        /\ \A i : Abstract!Operands(i)' = Abstract!Operands(i)
        /\ \A i : Abstract!Start(i)' = Abstract!Start(i)
    BY <1>1, SameText, SameOperands, SameStart
  <1>5. \A x, a : Cells(x, a)' = Cells(x, a)
    BY DEF Cells, Width
  <1>6. CASE StartFixups
    <2>1. phase' = "rel" /\ todo' = DOMAIN rel_addr'
      BY <1>6 DEF StartFixups, fixups
    <2>2. IInv' /\ Read'
      BY StepInv, ReadStep
    <2>. QED
      BY <2>1, <2>2, AllWaitingNext
  <1>7. ASSUME ~StartFixups,
               NEW i \in Abstract!Lines, NEW x \in Abstract!Operands(i),
               NEW a, a = Abstract!Start(i) + x.at, \A c \in Cells(x, a) : c \notin Unwritten'
        PROVE  Stands(i, x)'
    <2>1. CASE PatchRel \/ PatchByte \/ PatchWord
      <3>1. Returns /\ phase \in Patching
        BY <2>1 DEF PatchRel, PatchByte, PatchWord, Patching
      <3>2. \E y, b : Writes(y, b)
        BY <1>1, <2>1, PatchRelWrites, PatchByteWrites, PatchWordWrites
      <3>. QED
        BY <1>2, <1>3, <1>7, <3>1, <3>2, WritesStand
    <2>2. CASE ~(PatchRel \/ PatchByte \/ PatchWord)
      <3>1. phase \in After /\ memory' = memory /\ Unwritten' = Unwritten
        BY <1>7, <2>2, WaitingStays
      <3>2. Stands(i, x)
        BY <1>3, <1>7, <3>1 DEF Patched
      <3>. QED
        BY <1>1, <1>2, <3>1, <3>2, StandsStays
    <2>. QED
      BY <2>1, <2>2
  <1>8. CASE ~StartFixups
    <2>1. ASSUME NEW i \in Abstract!Lines, NEW x \in Abstract!Operands(i)
          PROVE  \/ \E c \in Cells(x, Abstract!Start(i) + x.at) : c \in Unwritten'
                 \/ Stands(i, x)'
      BY <1>7, <1>8
    <2>. QED
      BY <1>4, <1>5, <2>1 DEF Patched
  <1>. QED
    BY <1>6, <1>8

LEMMA InitPatched == Init => Patched
  BY DEF Init, Fresh, Patched, After, Patching

LEMMA PatchedInvariance == Spec => [](IInv /\ Read /\ Sound /\ Patched)
  <1> DEFINE Inv == IInv /\ Read /\ Sound /\ Patched
  <1>1. Init => Inv
    BY InitInv, InitRead, InitSound, InitPatched
  <1>2. Inv /\ [Next]_vars => Inv'
    BY StepInv, ReadStep, SoundStep, PatchedStep
  <1>. QED
    BY <1>1, <1>2, PTL DEF Spec

-----------------------------------------------------------------------------
(* The image, when everything is patched.                                  *)

\* The memory ends where the last line does.
LEMMA SizeIs ==
  ASSUME IInv, Read, phase \in After
  PROVE  /\ source \in Sources /\ Len(source) \in Nat /\ line = Len(source) + 1 /\ phase \notin Lost
         /\ Abstract!Start(Len(source) + 1) \in Nat
         /\ Size = Abstract!Start(Len(source) + 1) /\ last_size = Size
  <1>1. source \in Sources /\ phase \notin Lost /\ line = Len(source) + 1
    BY DEF IInv, TypeOK, After, Lost, InText, Patching, Read
  <1>2. Len(source) \in Nat
    BY <1>1, SourceIs
  <1>3. Len(source) + 1 \in 1 .. Len(source) + 1
    BY <1>2
  <1>4. Abstract!Start(Len(source) + 1) \in Nat
    BY <1>1, <1>3, StartIs
  <1>5. Progress = 0
    BY <1>1, <1>2 DEF Progress
  <1>. QED
    BY <1>1, <1>2, <1>4, <1>5 DEF Extent, Read

\* A cell is within one line.
LEMMA LineOfCell ==
  ASSUME source \in Sources, NEW i \in Abstract!Lines, NEW k \in Abstract!Lines,
         NEW x \in 1 .. Abstract!Length(i), NEW y \in 1 .. Abstract!Length(k),
         Abstract!Start(i) + x = Abstract!Start(k) + y
  PROVE  i = k /\ x = y
  <1> DEFINE s == Skeletons
             off == LineOffsets
  <1>1. s \in Seq(Seq(Byte)) /\ Len(s) = Len(source) /\ Offsets(off, s) /\ Len(source) \in Nat
    BY LineOffsetsAre, SourceIs
  <1>2. i \in 1 .. Len(s) /\ k \in 1 .. Len(s)
    BY <1>1, SourceIs
  <1>3. Len(s[i]) = Abstract!Length(i) /\ Len(s[k]) = Abstract!Length(k)
    BY SkeletonType DEF Skeletons
  <1>4. off[i] = Abstract!Start(i) /\ off[k] = Abstract!Start(k)
    BY <1>1, <1>2 DEF LineOffsets
  <1>5. Abstract!Start(i) \in Nat /\ Abstract!Start(k) \in Nat
    BY SourceIs, StartIs
  <1> HIDE DEF s, off
  <1>6. i = k
    BY <1>1, <1>2, <1>3, <1>4, OffsetsApart
  <1>. QED
    BY <1>5, <1>6

\* What waits in the maps is within an operand of the text.
LEMMA HoleIsOperand ==
  ASSUME IInv, Read, phase \notin Lost, NEW h \in Holes
  PROVE  \E k \in Abstract!Lines : \E x \in Abstract!Operands(k) :
           h \in Cells(x, Abstract!Start(k) + x.at)
  <1>1. source \in Sources
    BY DEF IInv, TypeOK
  <1>2. ASSUME NEW a \in Nat, NEW how, NEW e, Given(a, how, e), h = a \/ (how = "word" /\ h = a + 1)
        PROVE  \E k \in Abstract!Lines : \E x \in Abstract!Operands(k) :
                 h \in Cells(x, Abstract!Start(k) + x.at)
    <2>1. PICK k \in Abstract!Lines : \E x \in Abstract!Operands(k) :
            Abstract!Start(k) + x.at = a /\ x.how = how
      BY <1>2 DEF Given
    <2>2. PICK x \in Abstract!Operands(k) : Abstract!Start(k) + x.at = a /\ x.how = how
      BY <2>1
    <2>3. h \in Cells(x, a)
      BY <1>2, <2>2 DEF Cells, Width
    <2>. QED
      BY <2>2, <2>3
  <1>3. /\ DOMAIN rel_addr \subseteq Nat /\ DOMAIN byte_expr \subseteq Nat /\ DOMAIN word_expr \subseteq Nat
    BY DEF IInv, TypeOK, IsMap
  <1>4. CASE h \in DOMAIN rel_addr
    BY <1>2, <1>3, <1>4 DEF Read, Sourced
  <1>5. CASE h \in DOMAIN byte_expr
    BY <1>2, <1>3, <1>5 DEF Read, Sourced
  <1>6. CASE h \in WordCells(DOMAIN word_expr)
    <2>1. PICK a \in DOMAIN word_expr : h = a \/ h = a + 1
      BY <1>6 DEF WordCells
    <2>2. Given(a, "word", word_expr[a])
      BY DEF Read, Sourced
    <2>. QED
      BY <1>2, <1>3, <2>1, <2>2
  <1>. QED
    BY <1>4, <1>5, <1>6 DEF Holes

\* The bytes of a line stand where the line begins.
LEMMA BytesStand ==
  ASSUME IInv, Read, Sound, Patched, Abstract!Promised, phase = "check",
         NEW i \in Abstract!Lines, NEW j \in 1 .. Abstract!Length(i)
  PROVE  /\ Abstract!Bytes(i)[j] = memory[Abstract!Start(i) + j]
         /\ Abstract!Start(i) + j \in 1 .. Size
  <1>1. /\ source \in Sources /\ phase \in After /\ phase \notin Lost /\ phase \notin Loading
        /\ Unwritten = {} /\ Size = Abstract!Start(Len(source) + 1) /\ Size \in Nat
    BY SizeIs DEF After, Loading, Unwritten
  <1>2. Abstract!Start(i) \in Nat /\ Abstract!Length(i) \in Nat
    BY <1>1, SourceIs, StartIs
  <1>3. /\ Abstract!Start(i) + j \in 1 .. Size
        /\ Flat[Abstract!Start(i) + j] = Abstract!Skeleton(i)[j]
    BY <1>1, FlatIs
  <1> DEFINE here == {x \in Abstract!Operands(i) : j - 1 \in x.at .. x.at + Len(Abstract!Stored(i, x)) - 1}
  <1>4. Abstract!Bytes(i)[j] = IF here = {} THEN Abstract!Skeleton(i)[j]
                               ELSE Abstract!Stored(i, Abstract!The(here))[j - Abstract!The(here).at]
    BY Zenon DEF Abstract!Bytes
  <1>5. ASSUME NEW x \in Abstract!Operands(i)
        PROVE  /\ x.at \in Nat /\ Width(x) \in {1, 2} /\ Len(Abstract!Stored(i, x)) = Width(x)
               /\ x \in here <=> j - 1 \in x.at .. x.at + Width(x) - 1
    <2>1. x.at \in Nat /\ x.how \in {"rel", "+", "-", "word"}
      BY <1>1, OperandInside
    <2>2. Len(Abstract!Stored(i, x)) = Width(x)
      BY <2>1 DEF Abstract!Stored, Width
    <2>. QED
      BY <2>1, <2>2 DEF Width
  <1>6. CASE here = {}
    <2>1. ASSUME (Abstract!Start(i) + j) - 1 \in Holes
          PROVE  FALSE
      <3> DEFINE h == (Abstract!Start(i) + j) - 1
      <3>0. PICK k \in Abstract!Lines :
              \E x \in Abstract!Operands(k) : h \in Cells(x, Abstract!Start(k) + x.at)
        BY <1>1, <2>1, HoleIsOperand
      <3>1. PICK x \in Abstract!Operands(k) : h \in Cells(x, Abstract!Start(k) + x.at)
        BY <3>0
      <3>2. x.at \in Nat /\ x.at + Width(x) <= Abstract!Length(k) /\ Width(x) \in {1, 2}
        BY <1>1, OperandInside DEF Width
      <3>3. Abstract!Start(k) \in Nat /\ Abstract!Length(k) \in Nat
        BY <1>1, SourceIs, StartIs
      <3> DEFINE y == (h - Abstract!Start(k)) + 1
      <3>4. /\ y \in 1 .. Abstract!Length(k) /\ Abstract!Start(i) + j = Abstract!Start(k) + y
            /\ y - 1 \in x.at .. x.at + Width(x) - 1
        BY <1>2, <3>1, <3>2, <3>3 DEF Cells
      <3> HIDE DEF y
      <3>5. i = k /\ j = y
        BY <1>1, <3>4, LineOfCell
      <3>. QED
        BY <1>5, <1>6, <3>1, <3>4, <3>5
    <2>2. memory[Abstract!Start(i) + j] = Flat[Abstract!Start(i) + j]
      BY <1>1, <1>3, <2>1 DEF Read, Laid
    <2>. QED
      BY <1>3, <1>4, <1>6, <2>2
  <1>7. CASE here # {}
    <2> DEFINE x == Abstract!The(here)
    <2>1. x \in here
      BY <1>7 DEF Abstract!The
    <2>2. x \in Abstract!Operands(i)
      BY <2>1
    <2>3. Abstract!Bytes(i)[j] = Abstract!Stored(i, x)[j - x.at]
      BY <1>4, <1>7
    <2> HIDE DEF x
    <2>4. x.at \in Nat /\ Width(x) \in {1, 2} /\ j - 1 \in x.at .. x.at + Width(x) - 1
      BY <1>5, <2>1, <2>2
    <2>5. Stands(i, x)
      BY <1>1, <2>2 DEF Patched
    <2>6. /\ j - x.at \in 1 .. Width(x)
          /\ Abstract!Start(i) + x.at + (j - x.at) = Abstract!Start(i) + j
      BY <1>2, <2>4
    <2>. QED
      BY <1>3, <2>3, <2>5, <2>6 DEF Stands
  <1>. QED
    BY <1>3, <1>6, <1>7

LineBytes == [i \in Abstract!Lines |-> Abstract!Bytes(i)]

LEMMA MemoryIs ==
  ASSUME IInv, Read, Sound, Patched, Abstract!Promised, phase = "check"
  PROVE  memory = Abstract!FlattenSeq([i \in Abstract!Lines |-> Abstract!Bytes(i)])
  <1> DEFINE s == LineBytes
             off == LineOffsets
  <1>1. /\ source \in Sources /\ Len(source) \in Nat /\ Abstract!Lines = 1 .. Len(source)
        /\ Size = Abstract!Start(Len(source) + 1) /\ memory \in Seq(Byte) /\ Size = Len(memory)
    BY SizeIs, SourceIs DEF After, IInv, TypeOK, Size
  <1>2. ASSUME NEW i \in Abstract!Lines
        PROVE  /\ s[i] = Abstract!Bytes(i) /\ Abstract!Length(i) \in Nat
               /\ s[i] \in Seq(Byte) /\ Len(s[i]) = Abstract!Length(i)
               /\ \A x \in 1 .. Abstract!Length(i) :
                    Abstract!Start(i) + x \in 1 .. Size /\ memory[Abstract!Start(i) + x] = s[i][x]
    <2>1. s[i] = Abstract!Bytes(i)
      BY DEF LineBytes
    <2>2. Abstract!Length(i) \in Nat
      BY <1>1, StartIs
    <2>3. \A x \in 1 .. Abstract!Length(i) :
            /\ Abstract!Start(i) + x \in 1 .. Size
            /\ Abstract!Bytes(i)[x] = memory[Abstract!Start(i) + x]
            /\ Abstract!Bytes(i)[x] \in Byte
      BY <1>1, BytesStand
    <2>4. Abstract!Bytes(i) \in Seq(Byte) /\ Len(Abstract!Bytes(i)) = Abstract!Length(i)
      <3> DEFINE B == Abstract!Bytes(i)
                 n == Abstract!Length(i)
                 here(j) == {y \in Abstract!Operands(i) :
                               j - 1 \in y.at .. y.at + Len(Abstract!Stored(i, y)) - 1}
                 value(j) == IF here(j) = {} THEN Abstract!Skeleton(i)[j]
                             ELSE Abstract!Stored(i, Abstract!The(here(j)))[j - Abstract!The(here(j)).at]
      <3>1. B = [j \in 1 .. n |-> value(j)]
        BY Zenon DEF Abstract!Bytes
      <3> HIDE DEF B, n, here, value
      <3>2. B = [j \in 1 .. n |-> B[j]]
        BY <3>1
      <3>3. n \in Nat /\ \A j \in 1 .. n : B[j] \in Byte
        BY <2>2, <2>3 DEF B, n
      <3>4. B \in Seq(Byte) /\ Len(B) = n
        BY <3>2, <3>3
      <3>. QED
        BY <3>4 DEF B, n
    <2>. QED
      BY <2>1, <2>2, <2>3, <2>4
  <1>3. s \in Seq(Seq(Byte)) /\ Len(s) = Len(source)
    <2> DEFINE U == Seq(Byte)
    <2>1. s = [i \in 1 .. Len(source) |-> s[i]]
      BY <1>1 DEF LineBytes
    <2>2. \A i \in 1 .. Len(source) : s[i] \in U
      BY <1>1, <1>2
    <2> HIDE DEF U, s
    <2>3. s \in Seq(U) /\ Len(s) = Len(source)
      BY <1>1, <2>1, <2>2
    <2>. QED
      BY <2>3 DEF U
  <1>4. /\ \A i \in 1 .. Len(source) + 1 : off[i] = Abstract!Start(i)
        /\ off[1] = 0 /\ off[Len(s) + 1] = Size
    <2>1. \A i \in 1 .. Len(source) + 1 : off[i] = Abstract!Start(i)
      BY DEF LineOffsets
    <2>2. 1 \in 1 .. Len(source) + 1 /\ Len(source) + 1 \in 1 .. Len(source) + 1
      BY <1>1
    <2>3. Abstract!Start(1) = 0
      BY <1>1, StartIs
    <2> HIDE DEF s, off
    <2>. QED
      BY <1>1, <1>3, <2>1, <2>2, <2>3
  <1>5. ASSUME NEW i \in 1 .. Len(s)
        PROVE  /\ off[i] \in Nat /\ off[i] = Abstract!Start(i)
               /\ off[i + 1] = off[i] + Len(s[i])
    <2>1. i \in Abstract!Lines /\ i \in 1 .. Len(source) + 1 /\ i + 1 \in 1 .. Len(source) + 1
      BY <1>1, <1>3
    <2>2. Abstract!Start(i) \in Nat /\ Abstract!Start(i + 1) = Abstract!Start(i) + Abstract!Length(i)
      BY <1>1, <2>1, StartIs
    <2>3. Len(s[i]) = Abstract!Length(i)
      BY <1>2, <2>1
    <2> HIDE DEF s, off
    <2>. QED
      BY <1>4, <2>1, <2>2, <2>3
  <1>6. Offsets(off, s)
    BY <1>4, <1>5 DEF Offsets
  <1>7. MadeBy(memory, Len(s), s, off)
    <2>1. ASSUME NEW i \in 1 .. Len(s), NEW x \in 1 .. Len(s[i])
          PROVE  off[i] + x \in 1 .. Len(memory) /\ memory[off[i] + x] = s[i][x]
      <3>1. i \in Abstract!Lines
        BY <1>1, <1>3
      <3>2. x \in 1 .. Abstract!Length(i)
        BY <1>2, <3>1
      <3>. QED
        BY <1>1, <1>2, <1>5, <3>1, <3>2
    <2>. QED
      BY <1>1, <1>4, <2>1 DEF MadeBy
  <1>8. memory = FlattenSeq(s)
    <2> HIDE DEF s, off
    <2>. QED
      BY <1>1, <1>3, <1>6, <1>7, SameFlatten
  <1>9. FlattenSeq(s) = Abstract!FlattenSeq(s)
    BY FlattenSeqIs
  <1>. QED
    BY <1>8, <1>9 DEF LineBytes

LEMMA KindsAre ==
  ASSUME IInv, Read, phase = "check"
  PROVE  Expand(mem_type) = Abstract!FlattenSeq([i \in Abstract!Lines |-> Abstract!Kinds(i)])
  <1>1. /\ source \in Sources /\ phase \notin Lost
        /\ last_size = Abstract!Start(Len(source) + 1)
    BY SizeIs DEF After
  <1>2. /\ Len(Expand(mem_type)) = last_size /\ Expand(mem_type) \in Seq(Kinds)
        /\ \A p \in 1 .. last_size : Expand(mem_type)[p] = FlatKinds[p]
    BY <1>1 DEF Read, Classified
  <1>3. FlatKinds \in Seq(Kinds) /\ Len(FlatKinds) = last_size
    BY <1>1, FlatKindsAre
  <1>4. Expand(mem_type) = FlatKinds
    BY <1>2, <1>3, SameSequence
  <1>. QED
    BY <1>4, FlattenSeqIs DEF FlatKinds, LineKinds

LEMMA ImageIs ==
  ASSUME IInv, Read, Sound, Patched, Abstract!Promised, phase = "check"
  PROVE  [org |-> org, memory |-> memory, kinds |-> Expand(mem_type)] = Abstract!Image
  <1>1. org = Abstract!Org
    BY SizeIs DEF Read, Origin, Abstract!Org, After
  <1>2. Abstract!Image = [org |-> Abstract!Org,
                          memory |-> Abstract!FlattenSeq([i \in Abstract!Lines |-> Abstract!Bytes(i)]),
                          kinds |-> Abstract!FlattenSeq([i \in Abstract!Lines |-> Abstract!Kinds(i)])]
    BY Zenon DEF Abstract!Image
  <1>3. memory = Abstract!FlattenSeq([i \in Abstract!Lines |-> Abstract!Bytes(i)])
    BY MemoryIs
  <1>4. Expand(mem_type) = Abstract!FlattenSeq([i \in Abstract!Lines |-> Abstract!Kinds(i)])
    BY KindsAre
  <1>. QED
    BY <1>1, <1>2, <1>3, <1>4, Zenon

\* main's limit.
LEMMA LimitIs ==
  ASSUME IInv, Read, phase = "check"
  PROVE  org + Size = 0 \/ org + Size - 1 > WordSize - 1
           <=> Abstract!Org + Abstract!Start(Len(source) + 1) \notin 1 .. WordSize
  <1>1. org = Abstract!Org /\ Size = Abstract!Start(Len(source) + 1) /\ Size \in Nat
    BY SizeIs DEF Read, Origin, Abstract!Org, After
  <1>2. org \in Nat /\ WordSize \in Nat
    BY Widths DEF IInv, TypeOK, Word
  <1>. QED
    BY <1>1, <1>2

\* What has come so far is refused for its length alone.
LEMMA NotRefused ==
  ASSUME IInv, Read, Sound, Patched, Abstract!Promised, phase = "check"
  PROVE  Abstract!Refused <=> org + Size = 0 \/ org + Size - 1 > WordSize - 1
  <1>1. phase \in After /\ Unwritten = {}
    BY DEF After, Unwritten
  <1>2. ~Abstract!Unreadable
    BY <1>1, ReadIsReadable DEF Sound
  <1>3. \A v : Abstract!InReach(v) <=> InReach(v)
    BY DEF Abstract!InReach, InReach
  <1>4. \A i \in Abstract!Lines : \A x \in Abstract!Operands(i) :
          /\ ~Abstract!UsesUnknown(x.expr, Len(source) + 1)
          /\ x.how = "rel" /\ relative = "absolute" => Abstract!InReach(Abstract!Distance(i, x))
    BY <1>1, <1>3 DEF Patched, Stands
  <1>. QED
    BY <1>2, <1>4, LimitIs DEF Abstract!Refused

-----------------------------------------------------------------------------
(* Where the program ends, TwoPass does.                                   *)

LEMMA MoreThanOne ==
  ASSUME NEW N \in Nat, NEW S, S \subseteq 1 .. N, NEW j \in S, NEW k \in S, j # k
  PROVE  Abstract!Cardinality(S) > 1
  <1>1. Abstract!Cardinality(S) = Cardinality(S)
    BY DEF Abstract!Cardinality, Cardinality
  <1>2. IsFiniteSet(S)
    <2>1. IsFiniteSet(1 .. N)
      BY FS_Interval
    <2>. QED
      BY <2>1, FS_Subset
  <1>3. Cardinality({j}) = 1 /\ IsFiniteSet({j})
    BY FS_Singleton
  <1>4. Cardinality({j} \cup {k}) = 2
    BY <1>3, FS_AddElement
  <1>5. {j} \cup {k} \subseteq S
    OBVIOUS
  <1>6. Cardinality(S) \in Nat /\ Cardinality({j} \cup {k}) <= Cardinality(S)
    BY <1>2, <1>5, FS_CardinalityType, FS_Subset
  <1>. QED
    BY <1>1, <1>4, <1>6

\* A name reduced a second time, or as a label and as an EQU.
LEMMA NameTaken ==
  ASSUME IInv, Read, phase \notin Lost, line <= Len(source), NEW n \in Names,
         \/ n \in DOMAIN label \/ n \in DOMAIN equ
         \/ source[line].body.k = "equ" /\ source[line].body.name = n,
         \/ source[line].label = n /\ phase = "line"
         \/ n \in DOMAIN label /\ source[line].body.k = "equ" /\ source[line].body.name = n
  PROVE  Abstract!Clash
  <1>1. /\ line \in Abstract!Lines /\ Abstract!Lines = 1 .. Len(source) /\ Len(source) \in Nat
        /\ Abstract!Body(line) = source[line].body
        /\ source[line].label = n => source[line].body.k # "equ"
    BY BodyOf, SourceIs, NameAssumption DEF IInv, TypeOK, Read
  <1>2. Abstract!LabelLines(n) \subseteq 1 .. Len(source)
    BY <1>1 DEF Abstract!LabelLines
  <1>3. /\ n \in DOMAIN label => \E j \in Abstract!LabelLines(n) : LabelRead(j)
        /\ n \in DOMAIN equ => Abstract!EquLines(n) # {}
    BY DEF Read, Labels, Equs
  <1>4. CASE source[line].label = n /\ phase = "line"
    <2>1. line \in Abstract!LabelLines(n) /\ ~LabelRead(line)
      BY <1>1, <1>4 DEF Abstract!LabelLines, LabelRead
    <2>2. CASE n \in DOMAIN label
      <3>1. PICK j \in Abstract!LabelLines(n) : LabelRead(j)
        BY <1>3, <2>2
      <3>2. j # line
        BY <2>1, <3>1
      <3>3. Abstract!Cardinality(Abstract!LabelLines(n)) > 1
        BY <1>1, <1>2, <2>1, <3>1, <3>2, MoreThanOne
      <3>. QED
        BY <3>3 DEF Abstract!Clash
    <2>3. CASE n \in DOMAIN equ
      BY <1>3, <2>1, <2>3 DEF Abstract!Clash
    <2>. QED
      BY <1>1, <1>4, <2>2, <2>3
  <1>5. CASE n \in DOMAIN label /\ source[line].body.k = "equ" /\ source[line].body.name = n
    <2>1. line \in Abstract!EquLines(n)
      BY <1>1, <1>5 DEF Abstract!EquLines, Abstract!Is
    <2>. QED
      BY <1>3, <1>5, <2>1 DEF Abstract!Clash
  <1>. QED
    BY <1>4, <1>5

LEMMA DefineLabelRefused ==
  ASSUME IInv, Read, DefineLabel, phase' = "error"
  PROVE  Abstract!Refused
  <1>1. /\ phase = "line" /\ phase \notin Lost /\ line <= Len(source) /\ source[line].label # NoName
        /\ source[line].label \in DOMAIN label \/ source[line].label \in DOMAIN equ
    BY DEF DefineLabel, Lost
  <1>2. source[line].label \in Names
    BY <1>1, BodyOf, SourceIs DEF IInv, TypeOK, Read
  <1>3. Abstract!Clash
    BY <1>1, <1>2, NameTaken
  <1>. QED
    BY <1>3 DEF Abstract!Refused, Abstract!Unreadable

LEMMA RejectLineRefused ==
  ASSUME IInv, Read, RejectLine
  PROVE  Abstract!Refused
  <1>1. line \in Abstract!Is("rejected")
    BY BodyOf DEF RejectLine, AtBody, Abstract!Is, Read
  <1>. QED
    BY <1>1 DEF Abstract!Refused, Abstract!Unreadable

LEMMA SetOrgRefused ==
  ASSUME IInv, Read, SetOrg, phase' = "error"
  PROVE  Abstract!Refused
  <1>1. org_set /\ Body.k = "org" /\ line <= Len(source)
    BY DEF SetOrg, AtBody, NextLine
  <1>2. PICK j \in Abstract!Is("org") : j < line
    BY <1>1 DEF Read, Origin, Orgs
  <1>3. line \in Abstract!Is("org") /\ line \in Nat
    BY <1>1, BodyOf DEF Abstract!Is, Read, IInv, TypeOK
  <1>4. Abstract!Is("org") \subseteq 1 .. Len(source) /\ Len(source) \in Nat
    BY SourceIs DEF Abstract!Is, IInv, TypeOK
  <1>5. Abstract!Cardinality(Abstract!Is("org")) > 1
    <2>1. j # line
      BY <1>2, <1>3
    <2>. QED
      BY <1>2, <1>3, <1>4, <2>1, MoreThanOne
  <1>. QED
    BY <1>5 DEF Abstract!Refused, Abstract!Unreadable, Abstract!Clash

\* An immediate byte that has a $.
LEMMA DollarRefused ==
  ASSUME IInv, NEW i \in Abstract!Lines, NEW x \in Abstract!Operands(i), x.how \in {"+", "-"}, HasDollar(x.expr)
  PROVE  Abstract!Refused
  BY DEF Abstract!Refused, Abstract!Unreadable, HasDollar, Abstract!HasDollar

LEMMA PushOpcodeRefused ==
  ASSUME IInv, Read, PushOpcode, phase' = "error"
  PROVE  Abstract!Refused
  <1>1. AtBody /\ Body.k = "opcode" /\ line <= Len(source)
    BY DEF PushOpcode, AtBody
  <1>2. PICK o \in DOMAIN Body.form.byte : HasDollar(Body.form.byte[o].expr)
    BY DEF PushOpcode
  <1>3. line \in Abstract!Lines /\ Abstract!Body(line) = Body /\ IsTemplate(Body.form)
    BY <1>1, BodyOf DEF Read
  <1> DEFINE b == Body.form.byte[o]
             x == [expr |-> b.expr, at |-> o, how |-> b.op]
  <1>4. x \in Abstract!Operands(line)
    BY <1>1, <1>3, OperandsAre, OpcodeOperands
  <1>5. b.op \in {"+", "-"}
    BY <1>3 DEF IsTemplate
  <1>. QED
    BY <1>2, <1>3, <1>4, <1>5, DollarRefused

LEMMA PushDbItemRefused ==
  ASSUME IInv, Read, PushDbItem, phase' = "error"
  PROVE  Abstract!Refused
  <1>1. AtBody /\ Body.k = "db" /\ line <= Len(source) /\ item < Len(Body.items) /\ phase # "error"
    BY DEF PushDbItem, AtBody
  <1>2. Body.items[item + 1].k = "expr" /\ HasDollar(Body.items[item + 1].expr)
    BY <1>1 DEF PushDbItem
  <1>3. line \in Abstract!Lines /\ Abstract!Body(line) = Body /\ Body.items \in Seq(DbItem)
    BY <1>1, BodyOf DEF Read
  <1>4. item + 1 \in DOMAIN Body.items
    BY <1>1, <1>3 DEF IInv, TypeOK
  <1> DEFINE x == [expr |-> Body.items[item + 1].expr, at |-> ItemAt(Body.items, item + 1), how |-> "+"]
  <1>5. x \in Abstract!Operands(line)
    BY <1>1, <1>2, <1>3, <1>4, OperandsAre, DbOperands
  <1>. QED
    BY <1>2, <1>3, <1>5, DollarRefused

LEMMA PushNameRefused ==
  ASSUME IInv, Read, Sound, Abstract!Promised, PushName, phase' = "error"
  PROVE  Abstract!Refused
  <1>1. PICK n \in Names :
          /\ Reduces([t |-> "name", n |-> n])
          /\ \/ Meanings(n) = {} /\ Fail
             \/ \E m \in Meanings(n) : acc' = Append(acc, m) /\ Step
    BY DEF PushName
  <1> DEFINE t == [t |-> "name", n |-> n]
  <1>2. PICK e \in Current :
          /\ e \in Expr /\ e[pos + 1] = t /\ pos + 1 \in 1 .. Len(e) /\ phase \in Evaluation
    BY <1>1, NextReduction
  <1>3. Meanings(n) = {}
    BY <1>1, <1>2 DEF Step, Evaluation, Patching
  <1>4. n \notin Abstract!KnownAt(line)
    BY <1>2, <1>3, MeaningsAgree DEF Sound
  <1>5. Abstract!UsesUnknown(e, line)
    <2>1. Abstract!Unknown(t, line)
      BY <1>4 DEF Abstract!Unknown
    <2>2. pos + 1 \in DOMAIN e
      BY <1>2 DEF Expr
    <2>. QED
      BY <1>2, <2>1, <2>2 DEF Abstract!UsesUnknown
  <1>6. CASE phase = "equ"
    <2>1. e = Body.expr /\ Body.k = "equ" /\ line <= Len(source)
      BY <1>6 DEF Current, Read, InText
    <2>2. line \in Abstract!Is("equ") /\ Abstract!Body(line) = Body
      BY <2>1, BodyOf DEF Abstract!Is, Read
    <2>. QED
      BY <1>5, <2>1, <2>2 DEF Abstract!Refused, Abstract!Unreadable
  <1>7. CASE phase \in Patching
    <2>1. PICK i \in Abstract!Lines : \E x \in Abstract!Operands(i) : x.expr = e
      BY <1>7, CurrentGiven
    <2>2. line = Len(source) + 1
      BY <1>7 DEF Read, InText, After
    <2>. QED
      BY <1>5, <2>1, <2>2 DEF Abstract!Refused
  <1>. QED
    BY <1>2, <1>6, <1>7 DEF Evaluation

LEMMA ReturnEquRefused ==
  ASSUME IInv, Read, ReturnEqu, phase' = "error"
  PROVE  Abstract!Refused
  <1>1. phase = "equ" /\ phase \notin Lost /\ Body.name \in DOMAIN label
    BY DEF ReturnEqu, Lost, NextLine
  <1>2. Body.k = "equ" /\ line <= Len(source) /\ Body = source[line].body
    BY <1>1 DEF Read, InText, Body
  <1>3. Body.name \in Names
    BY <1>1 DEF IInv, TypeOK, IsMap
  <1>4. Abstract!Clash
    BY <1>1, <1>2, <1>3, NameTaken
  <1>. QED
    BY <1>4 DEF Abstract!Refused, Abstract!Unreadable

\* A byte read as a signed one is in reach.
LEMMA SignedByteInReach ==
  ASSUME NEW r \in Int
  PROVE  InReach(SignedByte(r % ByteSize))
  <1> DEFINE b == r % ByteSize
             h == ByteSize \div 2
  <1>1. h \in Nat /\ ByteSize = h + h /\ b \in 0 .. ByteSize - 1 /\ ByteSize \in Nat
    <2>1. h \in Nat /\ ByteSize = h + h /\ ByteSize \in Nat /\ ByteSize > 0
      BY WidthAssumption, SMT
    <2>. QED
      BY <2>1, ModBound
  <1>2. SignedByte(b) = IF b < h THEN b ELSE b - ByteSize
    BY DEF SignedByte
  <1> HIDE DEF b, h
  <1>3. -h <= SignedByte(b) /\ SignedByte(b) < h
    BY <1>1, <1>2
  <1>. QED
    BY <1>3 DEF InReach, b, h

LEMMA PatchRelRefused ==
  ASSUME IInv, Read, Sound, Abstract!Promised, PatchRel, phase' = "error"
  PROVE  Abstract!Refused
  <1>1. phase = "rel" /\ Returns /\ phase \notin Lost
    BY DEF PatchRel, Lost
  <1>2. PICK a \in Least(todo) : ~InReach(RelOffset(a))
    BY <1>1 DEF PatchRel
  <1>3. a \in Nat /\ a \in DOMAIN rel_addr /\ Current = {rel_addr[a]}
    BY <1>1, LeastAlone
  <1>4. relative = "absolute"
    <2>1. Result \in Int
      BY <1>1, Returned, WordIsInt, Widths DEF Word
    <2>. QED
      BY <1>2, <2>1, SignedByteInReach DEF RelOffset
  <1>5. Given(a, "rel", rel_addr[a])
    BY <1>1, <1>3 DEF Read, Sourced
  <1>6. PICK i \in Abstract!Lines : \E x \in Abstract!Operands(i) :
          Abstract!Start(i) + x.at = a /\ x.how = "rel" /\ x.expr = rel_addr[a]
    BY <1>5 DEF Given
  <1>7. PICK x \in Abstract!Operands(i) :
          Abstract!Start(i) + x.at = a /\ x.how = "rel" /\ x.expr = rel_addr[a]
    BY <1>6
  <1>8. Abstract!Distance(i, x) = RelOffset(a)
    BY <1>1, <1>3, <1>4, <1>7, StoredIs DEF Patching
  <1>. QED
    BY <1>2, <1>4, <1>7, <1>8 DEF Abstract!Refused, Abstract!InReach, InReach

\* The steps the program cannot end in, or not with something promised.
LEMMA EndsRefused ==
  ASSUME IInv, Read, Sound, Patched, Abstract!Promised, Next, phase \notin Terminal, phase' \in Terminal,
         ~CheckLimit
  PROVE  phase' = "error" /\ Abstract!Refused
  <1>1. CASE Parsing
    <2>1. phase' = "error" /\ (DefineLabel \/ RejectLine \/ SetOrg \/ PushOpcode \/ PushDbItem)
      BY <1>1 DEF Parsing, DefineLabel, EmptyLine, RejectLine, CallEqu, SetOrg, PushOpcode, AccountCode,
         PushDbItem, AccountDb, ReserveDs, PushDwItem, AccountDw, StartFixups, NextLine, Fail, Terminal
    <2>. QED
      BY <2>1, DefineLabelRefused, RejectLineRefused, SetOrgRefused, PushOpcodeRefused, PushDbItemRefused
  <1>2. CASE Evaluating
    <2>1. phase' # "undefined"
      BY <1>2, EvaluatingStacked
    <2>2. phase' = "error" /\ PushName
      <3>1. phase' = "error" /\ phase' # phase
        BY <1>2, <2>1, EvaluatingFrame DEF Terminal
      <3>2. ~PushNumber /\ ~Negate /\ ~SyntaxError /\ ~ReturnNothing
        BY <3>1 DEF PushNumber, Negate, SyntaxError, ReturnNothing, Step
      <3>3. ~BinaryOp
        BY <3>1 DEF BinaryOp, Step
      <3>. QED
        BY <1>2, <3>1, <3>2, <3>3 DEF Evaluating
    <2>. QED
      BY <2>2, PushNameRefused
  <1>3. CASE ReturnEqu
    <2>1. phase' = "error"
      BY <1>3 DEF ReturnEqu, NextLine, Terminal
    <2>. QED
      BY <1>3, <2>1, ReturnEquRefused
  <1>4. CASE FixingUp
    <2>1. phase' = "error" /\ PatchRel
      BY <1>4 DEF FixingUp, PatchRel, PatchByte, PatchWord, NextLoop, Terminal
    <2>. QED
      BY <2>1, PatchRelRefused
  <1>5. ~Ended
    BY DEF Ended
  <1>. QED
    BY <1>1, <1>2, <1>3, <1>4, <1>5 DEF Next

Status == IF phase \in Terminal THEN phase ELSE "running"
Made == IF phase = "done" THEN {[org |-> org, memory |-> memory, kinds |-> Expand(mem_type)]} ELSE {}

LEMMA EndStep ==
  ASSUME IInv, Read, Sound, Patched, Next, phase \notin Terminal, phase' \in Terminal, Abstract!Promised
  PROVE  IF Abstract!Refused THEN Status' = "error" /\ Made' = {}
         ELSE Status' = "done" /\ Made' = {Abstract!Image}
  <1>1. CASE ~CheckLimit
    <2>1. phase' = "error" /\ Abstract!Refused
      BY <1>1, EndsRefused
    <2>2. phase' # "done"
      BY <2>1
    <2>. QED
      BY <2>1, <2>2 DEF Status, Made, Terminal
  <1>2. CASE CheckLimit
    <2>1. /\ phase = "check" /\ UNCHANGED <<org, memory, mem_type>>
          /\ phase' = IF org + Size = 0 \/ org + Size - 1 > WordSize - 1 THEN "error" ELSE "done"
      BY <1>2 DEF CheckLimit, program
    <2>2. Abstract!Refused <=> org + Size = 0 \/ org + Size - 1 > WordSize - 1
      BY <2>1, NotRefused
    <2>3. CASE Abstract!Refused
      <3>1. phase' = "error" /\ phase' # "done"
        BY <2>1, <2>2, <2>3
      <3>. QED
        BY <2>3, <3>1 DEF Status, Made, Terminal
    <2>4. CASE ~Abstract!Refused
      <3>1. phase' = "done"
        BY <2>1, <2>2, <2>4
      <3>2. [org |-> org, memory |-> memory, kinds |-> Expand(mem_type)] = Abstract!Image
        BY <2>1, ImageIs
      <3>3. Expand(mem_type)' = Expand(mem_type)
        BY <2>1 DEF Expand
      <3>4. Made' = {[org |-> org, memory |-> memory, kinds |-> Expand(mem_type)]}
        BY <2>1, <3>1, <3>3 DEF Made
      <3>. QED
        BY <2>4, <3>1, <3>2, <3>4 DEF Status, Terminal
    <2>. QED
      BY <2>3, <2>4
  <1>. QED
    BY <1>1, <1>2

\* Every step is the step of TwoPass or none.
LEMMA AssembleStep ==
  IInv /\ Read /\ Sound /\ Patched /\ [Next]_vars
  => [Abstract!Assemble]_<<source, relative, Status, Made>>
  <1> SUFFICES ASSUME IInv, Read, Sound, Patched, [Next]_vars
               PROVE  Abstract!Assemble \/ UNCHANGED <<source, relative, Status, Made>>
    OBVIOUS
  <1>1. CASE UNCHANGED vars
    BY <1>1 DEF vars, Status, Made, Expand
  <1>2. CASE Next /\ phase \in Terminal
    <2>1. Ended
      BY <1>2 DEF Terminal, Next, Parsing, DefineLabel, EmptyLine, RejectLine, CallEqu, SetOrg, PushOpcode,
         AccountCode, PushDbItem, AccountDb, ReserveDs, PushDwItem, AccountDw, StartFixups, AtBody,
         Evaluating, PushNumber, PushName, Negate, BinaryOp, SyntaxError, ReturnNothing, AtReturn,
         Reduces, Current, FixingUp, PatchRel, PatchByte, PatchWord, NextLoop, CheckLimit, ReturnEqu
    <2>. QED
      BY <1>1, <2>1 DEF Ended
  <1>3. CASE Next /\ phase \notin Terminal /\ phase' \notin Terminal
    <2>1. phase' \notin Lost /\ phase # "done" /\ phase' # "done"
      BY <1>3 DEF Lost, Terminal
    <2>2. source' = source /\ relative' = relative
      BY <1>3, <2>1, LineFrame DEF input
    <2>3. Status' = Status /\ Made' = Made
      BY <1>3, <2>1 DEF Status, Made
    <2>. QED
      BY <2>2, <2>3
  <1>4. CASE Next /\ phase \notin Terminal /\ phase' \in Terminal
    <2>1. source' = source /\ relative' = relative
      BY <1>4 DEF Next, Parsing, DefineLabel, EmptyLine, RejectLine, CallEqu, SetOrg, PushOpcode,
         AccountCode, PushDbItem, AccountDb, ReserveDs, PushDwItem, AccountDw, StartFixups,
         Evaluating, PushNumber, PushName, Negate, BinaryOp, SyntaxError, ReturnNothing,
         FixingUp, PatchRel, PatchByte, PatchWord, NextLoop, CheckLimit, ReturnEqu, Ended, vars, input
    <2>2. Status = "running"
      BY <1>4 DEF Status
    <2>3. Abstract!Promised => IF Abstract!Refused THEN Status' = "error" /\ Made' = {}
                               ELSE Status' = "done" /\ Made' = {Abstract!Image}
      BY <1>4, EndStep
    <2>4. Abstract!Assemble
      BY <2>1, <2>2, <2>3 DEF Abstract!Assemble, Status, Made
    <2>. QED
      BY <2>4
  <1>. QED
    BY <1>1, <1>2, <1>3, <1>4

-----------------------------------------------------------------------------
(* What a run has ended with, as an invariant. *)

LEMMA SameRefused ==
  ASSUME source' = source, relative' = relative, source \in Sources
  PROVE  Abstract!Refused' <=> Abstract!Refused
  <1>1. \A v : Abstract!InReach(v) <=> InReach(v)
    BY DEF Abstract!InReach, InReach
  <1>3. /\ Abstract!Lines' = Abstract!Lines
        /\ \A i : Abstract!Operands(i)' = Abstract!Operands(i)
        /\ \A i, x : Abstract!Distance(i, x)' = Abstract!Distance(i, x)
    BY SameText, SameOperands, SameValues
  <1>4. \A e, i : Abstract!UsesUnknown(e, i)' <=> Abstract!UsesUnknown(e, i)
    BY SameUnknown
  <1>5. (Abstract!Org + Abstract!Start(Len(source) + 1))' = Abstract!Org + Abstract!Start(Len(source) + 1)
    BY SameText, SameStart DEF Abstract!Org
  <1> DEFINE Bad(i, x) == \/ Abstract!UsesUnknown(x.expr, Len(source) + 1)
                          \/ x.how = "rel" /\ relative = "absolute" /\ ~InReach(Abstract!Distance(i, x))
  <1>6. \A i, x : Bad(i, x)' <=> Bad(i, x)
    BY <1>3, <1>4
  <1>7. Abstract!Refused <=>
          \/ Abstract!Unreadable
          \/ \E i \in Abstract!Lines : \E x \in Abstract!Operands(i) : Bad(i, x)
          \/ Abstract!Org + Abstract!Start(Len(source) + 1) \notin 1 .. WordSize
    BY <1>1 DEF Abstract!Refused
  <1>8. Abstract!Refused' <=>
          \/ Abstract!Unreadable'
          \/ \E i \in Abstract!Lines' : \E x \in Abstract!Operands(i)' : Bad(i, x)'
          \/ (Abstract!Org + Abstract!Start(Len(source) + 1))' \notin 1 .. WordSize
    BY <1>1 DEF Abstract!Refused
  <1> HIDE DEF Bad
  <1>. QED
    BY <1>3, <1>5, <1>6, <1>7, <1>8, SameUnreadable

LEMMA SameImage ==
  ASSUME source' = source, relative' = relative, source \in Sources
  PROVE  Abstract!Image' = Abstract!Image
  <1>1. ASSUME NEW i \in Abstract!Lines
        PROVE  Abstract!Bytes(i)' = Abstract!Bytes(i)
    <2>1. /\ Abstract!Length(i)' = Abstract!Length(i)
          /\ Abstract!Skeleton(i)' = Abstract!Skeleton(i)
          /\ Abstract!Operands(i)' = Abstract!Operands(i)
          /\ \A x : Abstract!Stored(i, x)' = Abstract!Stored(i, x)
      BY SameText, SameSkeletons, SameOperands, SameValues
    <2> DEFINE Here(j) == {x \in Abstract!Operands(i) :
                             j - 1 \in x.at .. x.at + Len(Abstract!Stored(i, x)) - 1}
               Cell(j) == IF Here(j) = {} THEN Abstract!Skeleton(i)[j]
                          ELSE Abstract!Stored(i, Abstract!The(Here(j)))[j - Abstract!The(Here(j)).at]
    <2>2. Abstract!Bytes(i) = [j \in 1 .. Abstract!Length(i) |-> Cell(j)]
      BY DEF Abstract!Bytes
    <2>3. Abstract!Bytes(i)' = [j \in 1 .. Abstract!Length(i)' |-> Cell(j)']
      BY DEF Abstract!Bytes
    <2>4. \A j : Here(j)' = Here(j)
      BY <2>1
    <2>5. \A j : Cell(j)' = Cell(j)
      BY <2>1, <2>4
    <2> HIDE DEF Cell
    <2>. QED
      BY <2>1, <2>2, <2>3, <2>5
  <1>2. \A i : Abstract!Kinds(i)' = Abstract!Kinds(i)
    BY SameText DEF Abstract!Kinds
  <1>3. [i \in Abstract!Lines |-> Abstract!Bytes(i)]' = [i \in Abstract!Lines |-> Abstract!Bytes(i)]
    BY <1>1, SameText
  <1>4. [i \in Abstract!Lines |-> Abstract!Kinds(i)]' = [i \in Abstract!Lines |-> Abstract!Kinds(i)]
    BY <1>2, SameText
  <1>5. Abstract!Org' = Abstract!Org
    BY SameText DEF Abstract!Org
  <1>. QED
    BY <1>3, <1>4, <1>5 DEF Abstract!Image

\* A run that has ended well has made the image, one that has ended in an error
\* was given a text that is refused.
Concluded ==
  Abstract!Promised =>
    /\ phase = "error" => Abstract!Refused
    /\ phase = "done" =>
         /\ ~Abstract!Refused
         /\ [org |-> org, memory |-> memory, kinds |-> Expand(mem_type)] = Abstract!Image

LEMMA InputStays == [Next]_vars => UNCHANGED input
  BY DEF Next, Parsing, DefineLabel, EmptyLine, RejectLine, CallEqu, SetOrg, PushOpcode,
     AccountCode, PushDbItem, AccountDb, ReserveDs, PushDwItem, AccountDw, StartFixups,
     Evaluating, PushNumber, PushName, Negate, BinaryOp, SyntaxError, ReturnNothing, ReturnEqu,
     FixingUp, PatchRel, PatchByte, PatchWord, NextLoop, CheckLimit, Ended, vars, input

LEMMA ConcludedStep == IInv /\ Read /\ Sound /\ Patched /\ Concluded /\ [Next]_vars => Concluded'
  <1> SUFFICES ASSUME IInv, Read, Sound, Patched, Concluded, [Next]_vars, Abstract!Promised'
               PROVE  /\ phase' = "error" => Abstract!Refused'
                      /\ phase' = "done" =>
                           /\ ~Abstract!Refused'
                           /\ [org |-> org, memory |-> memory, kinds |-> Expand(mem_type)]'
                                = Abstract!Image'
    BY DEF Concluded
  <1>1. source' = source /\ relative' = relative /\ source \in Sources
    BY FixupsFrame, InputStays DEF IInv, TypeOK, input
  <1>2. /\ Abstract!Promised
        /\ Abstract!Refused' <=> Abstract!Refused
        /\ Abstract!Image' = Abstract!Image
    BY <1>1, SamePromised, SameRefused, SameImage
  <1>3. Abstract!Assemble \/ UNCHANGED <<source, relative, Status, Made>>
    BY AssembleStep
  <1>4. CASE Abstract!Assemble
    <2>1. IF Abstract!Refused THEN Status' = "error" /\ Made' = {}
          ELSE Status' = "done" /\ Made' = {Abstract!Image}
      BY <1>2, <1>4 DEF Abstract!Assemble, Status, Made
    <2>2. phase' = "error" \/ phase' = "done" => Status' = phase'
      BY DEF Status, Terminal
    <2>3. phase' = "done" =>
            Made' = {[org |-> org, memory |-> memory, kinds |-> Expand(mem_type)]'}
      BY DEF Made
    <2>. QED
      BY <1>2, <2>1, <2>2, <2>3
  <1>5. CASE UNCHANGED <<source, relative, Status, Made>>
    <2>1. phase' = "error" => phase = "error"
      BY <1>5 DEF Status, Terminal
    <2>2. phase' = "done" => phase = "done"
      BY <1>5 DEF Status, Terminal
    <2>3. phase' = "done" =>
            [org |-> org, memory |-> memory, kinds |-> Expand(mem_type)]'
              = [org |-> org, memory |-> memory, kinds |-> Expand(mem_type)]
      BY <1>5, <2>2 DEF Made
    <2>. QED
      BY <1>2, <2>1, <2>2, <2>3 DEF Concluded
  <1>. QED
    BY <1>3, <1>4, <1>5

\* The one pass and its patches make the image of the two passes, or refuse the
\* text the two passes refuse.
THEOREM Refinement == Spec => ImplementsTwoPass
  <1>1. Init => Abstract!Init
    BY DEF Init, Fresh, Abstract!Init, Terminal
  <1>2. IInv /\ Read /\ Sound /\ Patched /\ [Next]_vars
        => [Abstract!Assemble]_<<source, relative,
              IF phase \in Terminal THEN phase ELSE "running",
              IF phase = "done"
              THEN {[org |-> org, memory |-> memory, kinds |-> Expand(mem_type)]} ELSE {}>>
    BY AssembleStep DEF Status, Made
  <1>. QED
    BY <1>1, <1>2, PatchedInvariance, PTL DEF Spec, ImplementsTwoPass, Abstract!Spec
=============================================================================
