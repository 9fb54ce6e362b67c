----------------------------- MODULE SkoolImage -----------------------------
(***************************************************************************)
(* A skool file against the source text it stands for: an ORG, and a DS    *)
(* for every gap between a line and the address of the next.               *)
(***************************************************************************)
EXTENDS Skool, AssemblerRefinement

Lines == INSTANCE TwoPass WITH status <- phase, image <- {}

\* Bytes between the end of the line before and a line.
Gap(i) == address[i] - (address[i - 1] + Lines!Length(i - 1))

\* The files the loader's users write: every line has an address, at or after
\* the end of the line before it.
Ascending == 0 \notin ToSet(address) /\ \A i \in 2 .. Len(address) : Gap(i) >= 0

Unlabelled(body) == [label |-> NoName, body |-> body]
Spelled ==
  [j \in 1 .. 2 * Len(source) |->
     LET i == (j + 1) \div 2 IN
     IF j % 2 = 0 THEN source[i]
     ELSE Unlabelled(IF i = 1 THEN [k |-> "org", literal |-> address[1]]
                     ELSE [k |-> "ds", literal |-> Gap(i)])]

\* The texts that can be spelled.  The loader starts at the origin 0.
TextLine ==
  (UNION {ToSet(s) : s \in Sources})
  \cup [label : {NoName}, body : [k : {"org", "ds"}, literal : Nat]]
Text == INSTANCE TwoPass WITH
  Sources <- Seq(TextLine), DefaultOrg <- 0, source <- Spelled, status <- phase, image <- {}

\* The line of the text the loader is in.
Place == IF handed THEN 2 * line ELSE 2 * line - 1

\* The blocks after n more bytes of a type.
Filled(blocks, type, n) ==
  IF blocks = <<>> \/ blocks[Len(blocks)].type # type
  THEN Append(blocks, [type |-> type, count |-> n])
  ELSE [blocks EXCEPT ![Len(blocks)].count = @ + n]

\* The blocks of the text's first i lines: every gap is a DS.
LineKind(i) == Text!Body(i).k
LineType(i) == IF LineKind(i) = "opcode" THEN "code" ELSE LineKind(i)
LineFilled(blocks, i) ==
  IF LineKind(i) \notin {"opcode", "db", "ds", "dw"} THEN blocks
  ELSE Filled(blocks, LineType(i), Text!Length(i))
Blocked[i \in 0 .. Len(Spelled)] == IF i = 0 THEN <<>> ELSE LineFilled(Blocked[i - 1], i)

\* What the text's lines before the place have closed.
ClosedSize == Text!Start(Place)
ClosedBlocks == Blocked[Place - 1]

\* The assembler on that text.
Asm == INSTANCE Assembler WITH
  Sources <- Seq(TextLine), DefaultOrg <- 0, source <- Spelled, line <- Place,
  last_size <- ClosedSize, mem_type <- ClosedBlocks

\* Loading an ascending file is assembling that text, from the first state on and
\* step for step: placing a line is its ORG or its DS, and what is pushed,
\* recorded, evaluated, patched and refused is the same.
AscendingRefines ==
  /\ Ascending => Asm!Init
  /\ [][Ascending => [Asm!Next]_(Asm!vars)]_skoolVars

\* An ascending file gives the image of the text it stands for, and is refused
\* exactly when that text is: the gaps, padded one line at a time, put every
\* line at its address, and an ORG of its own is refused.
AscendingAssembles ==
  phase \in {"done", "error"} /\ Ascending /\ Text!Promised =>
    /\ phase = "error" <=> Text!Refused
    /\ phase = "done" => org = Text!Image.org /\ memory = Text!Image.memory

\* Padding an ascending file leaves the fixup maps as sound as a source text
\* leaves them.  A descending one cuts off bytes that they name.
AscendingHolesSound == Ascending => HolesSound

\* After an ascending file the blocks, which dump walks, cover the memory: a gap
\* belongs to the block of the statement that follows it, and only a gap before
\* a last line without a statement is in none.
AscendingBlocksCover ==
  phase = "done" /\ Ascending =>
    /\ Len(Expand(mem_type)) = last_size
    /\ last_size = Size \/ Lines!Length(Len(source)) = 0

\* Loading ends unless an address reads as 0, also when addresses go back.
SkoolEnds == 0 \notin ToSet(address) => <>(phase \in Terminal)
=============================================================================
