------------------------------ MODULE Snapshot ------------------------------
(***************************************************************************)
(* read_sna of sna.cpp, which loads a snapshot with the blocks file beside *)
(* it, and dump_blocks of dump.cpp, which prints a program's blocks in the *)
(* form of such a file.                                                    *)
(*                                                                         *)
(* A blocks file is what read_sna's lexer makes of it: integers, names,    *)
(* line ends, and characters no rule of the lexer matches ("other"): white *)
(* space that is not a blank, signs, and others.  Blanks between tokens    *)
(* are skipped.                                                            *)
(***************************************************************************)
EXTENDS Integers, Sequences

CONSTANTS
  Header,      \* bytes of a snapshot before the memory (27 in the code)
  WordSize,    \* values of a uint16_t (65536 in the code)
  CountSize,   \* values of a size_t (2^64 in the code)
  IntLimit,    \* the first number an int cannot have (2^31 in the code)
  Snapshots,   \* snapshots, with the blocks files beside them: see IsSnapshot
  Programs     \* what other programs are loaded as: see IsProgram

ASSUME SizeAssumption ==
  /\ Header \in Nat
  /\ WordSize \in Nat \ {0} /\ CountSize \in Nat \ {0}
  /\ IntLimit \in Nat /\ WordSize <= IntLimit

Types == {"code", "db", "ds", "dw"}
Block == [type : Types, count : Nat]
Countable == [type : Types, count : 0 .. CountSize - 1]
Token == [t : {"integer"}, v : Nat] \cup [t : {"name"}, s : Types \cup {"text"}]
         \cup [t : {"other"}, s : {"white", "plus", "minus", "mark"}] \cup [t : {"nl"}]

\* A snapshot's bytes, whether there is a blocks file, and the file's tokens.
IsSnapshot(s) ==
  /\ s.bytes \in Seq(0 .. 255)
  /\ s.found \in BOOLEAN
  /\ s.tokens \in Seq(Token)
ASSUME SnapshotAssumption == \A s \in Snapshots : IsSnapshot(s)

IsProgram(p) ==
  /\ p.org \in 0 .. WordSize - 1
  /\ p.memory \in Seq(0 .. 255)
  /\ p.mem_type \in Seq(Countable)
ASSUME ProgramAssumption == \A p \in Programs : IsProgram(p)

VARIABLES
  snapshot,              \* the files being read
  phase,                 \* "load", "origin", "blocks", or one of Ends
  pos,                   \* the token iter is at
  org, memory, mem_type  \* struct program

program == <<org, memory, mem_type>>
readVars == <<snapshot, phase, pos, program>>

Ends == {"loaded", "error", "undefined"}
Tokens == snapshot.tokens

-----------------------------------------------------------------------------
(* dump_blocks: the origin, then a line for every block. *)

Integer(v) == [t |-> "integer", v |-> v]
NewLine == [t |-> "nl"]

\* BlockTokens, were the counts printed before the types.
BlockTokensSwapped(origin, blocks) ==
  [i \in 1 .. 3 * Len(blocks) + 2 |->
     CASE i = 1 -> Integer(origin)
       [] i % 3 = 2 -> NewLine
       [] i % 3 = 0 -> Integer(blocks[i \div 3].count)
       [] OTHER -> [t |-> "name", s |-> blocks[i \div 3].type]]

BlockTokens(origin, blocks) ==
  [i \in 1 .. 3 * Len(blocks) + 2 |->
     CASE i = 1 -> Integer(origin)
       [] i % 3 = 2 -> NewLine
       [] i % 3 = 0 -> [t |-> "name", s |-> blocks[i \div 3].type]
       [] OTHER -> Integer(blocks[i \div 3].count)]

-----------------------------------------------------------------------------
(* read_sna. *)

\* The origin of a fresh program, 23296, is overwritten before it is read.
Init ==
  /\ snapshot \in Snapshots
  /\ phase = "load" /\ pos = 1
  /\ org = 0 /\ memory = <<>> /\ mem_type = <<>>

\* The memory is what follows the header.  A shorter file leaves a distance below
\* zero, which as a size_t is more than a vector can have.
AssignMemory ==
  /\ phase = "load"
  /\ IF Len(snapshot.bytes) < Header \/ ~snapshot.found
     THEN phase' = "error" /\ UNCHANGED memory
     ELSE phase' = "origin" /\ memory' = SubSeq(snapshot.bytes, Header + 1, Len(snapshot.bytes))
  /\ UNCHANGED <<snapshot, pos, org, mem_type>>

Other(s) == [t |-> "other", s |-> s]
White == {NewLine, Other("white")}
IsInteger(i) == i \in DOMAIN Tokens /\ Tokens[i].t = "integer"
IsFirstText(i) ==
  i \in DOMAIN Tokens /\ Tokens[i] \notin White /\ \A j \in 1 .. i - 1 : Tokens[j] \in White

\* The numbers atoi may find in the text from the first token on.  It passes over
\* white space and one sign; the zero bytes that follow a mapped file stop it, and so
\* does a blank after the sign, which is no token.
Leading(i) ==
  CASE IsInteger(i) -> {Tokens[i].v}
    [] Tokens[i] = Other("plus") /\ IsInteger(i + 1) -> {0, Tokens[i + 1].v}
    [] Tokens[i] = Other("minus") /\ IsInteger(i + 1) -> {0, -Tokens[i + 1].v}
    [] OTHER -> {0}
Numbers ==
  IF \E i \in DOMAIN Tokens : IsFirstText(i)
  THEN Leading(CHOOSE i \in DOMAIN Tokens : IsFirstText(i))
  ELSE {0}

\* Origins, were the number not masked.
OriginsWide(n) == {n}

\* The origins a number may become: masked to 16 bits, and anything if it is no int,
\* for which atoi is undefined.
Origins(n) == IF n \in -IntLimit .. IntLimit - 1 THEN {n % WordSize} ELSE 0 .. WordSize - 1

\* An iterator at the end has no state machine left to advance with.
ReadOrigin ==
  /\ phase = "origin"
  /\ \E n \in Numbers : org' \in Origins(n)
  /\ pos' = 2
  /\ phase' = IF Tokens = <<>> THEN "undefined" ELSE "blocks"
  /\ UNCHANGED <<snapshot, memory, mem_type>>

\* SkipNewLine, were the iterator left where it is.
SkipNewLineInPlace ==
  /\ phase = "blocks" /\ pos <= Len(Tokens) /\ Tokens[pos] = NewLine
  /\ UNCHANGED readVars

SkipNewLine ==
  /\ phase = "blocks" /\ pos <= Len(Tokens) /\ Tokens[pos] = NewLine
  /\ pos' = pos + 1
  /\ UNCHANGED <<snapshot, phase, program>>

TypeOf(token) ==
  IF token.t = "name" /\ token.s \in {"db", "ds", "dw"} THEN token.s ELSE "code"

\* from_chars of the token at i: zero is left where it fails.
CountAt(i) ==
  IF i <= Len(Tokens) /\ Tokens[i].t = "integer" /\ Tokens[i].v < CountSize
  THEN Tokens[i].v ELSE 0

\* ReadBlock, were a line end a type as well.
ReadBlockAny ==
  /\ phase = "blocks" /\ pos <= Len(Tokens)
  /\ mem_type' = Append(mem_type, [type |-> TypeOf(Tokens[pos]), count |-> CountAt(pos + 1)])
  /\ pos' = pos + 2
  /\ phase' = IF pos = Len(Tokens) THEN "undefined" ELSE "blocks"
  /\ UNCHANGED <<snapshot, org, memory>>

\* Any token that is not a line end is a type, any token after it a count.
ReadBlock ==
  /\ phase = "blocks" /\ pos <= Len(Tokens) /\ Tokens[pos] # NewLine
  /\ mem_type' = Append(mem_type, [type |-> TypeOf(Tokens[pos]), count |-> CountAt(pos + 1)])
  /\ pos' = pos + 2
  /\ phase' = IF pos = Len(Tokens) THEN "undefined" ELSE "blocks"
  /\ UNCHANGED <<snapshot, org, memory>>

EndBlocks ==
  /\ phase = "blocks" /\ pos > Len(Tokens)
  /\ phase' = "loaded"
  /\ UNCHANGED <<snapshot, pos, program>>

Read == AssignMemory \/ ReadOrigin \/ SkipNewLine \/ ReadBlock \/ EndBlocks

ReadEnded == phase \in Ends /\ UNCHANGED readVars

Next == Read \/ ReadEnded

Spec == Init /\ [][Next]_readVars /\ WF_readVars(Next)

-----------------------------------------------------------------------------
(* Properties. *)

ReadDataOK ==
  /\ IsSnapshot(snapshot)
  /\ pos \in Nat \ {0}
  /\ org \in 0 .. WordSize - 1
  /\ memory \in Seq(0 .. 255)
  /\ mem_type \in Seq(Block)

ReadTypeOK == ReadDataOK /\ phase \in {"load", "origin", "blocks"} \cup Ends

\* What dump_blocks printed of a program, read_sna reads back: the origin, and
\* the blocks with their counts, however many there are and empty ones included.
ReadsWhatIsPrinted ==
  \A p \in Programs : Tokens = BlockTokens(p.org, p.mem_type) =>
    /\ phase # "undefined"
    /\ phase = "loaded" => org = p.org /\ mem_type = p.mem_type

\* The iterator is advanced past the end, or the count read there, only when the
\* file does not end with a line end: whatever else is in it, it is read to its
\* end without leaving C++.
DefinedIfLineEnded ==
  phase = "undefined" => Tokens = <<>> \/ Tokens[Len(Tokens)] # NewLine

\* Reading ends.
ReadingEnds == <>(phase \in Ends)
=============================================================================
