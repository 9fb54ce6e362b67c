------------------------- MODULE Reassembly_proofs -------------------------
(***************************************************************************)
(* The walk of dump over blocks that fit their memory, as the assembler    *)
(* makes them: for memories and blocks of any length the count of bytes    *)
(* left in a block never wraps, nothing is read that is not there, and the *)
(* listing is complete.                                                    *)
(*                                                                         *)
(* What an instruction is, CaseAt says; that every instruction of the      *)
(* assembler is a case of the disassembler, of the same length, is asked   *)
(* of the tables by TLC, and is all that is assumed of them (MadeOf).      *)
(***************************************************************************)
EXTENDS Reassembly, Data_proofs

Block == [type : {"code", "db", "ds", "dw"}, count : Nat]

\* The blocks of the program listed fit its memory.
Fitting == \E starts : Fits(program, starts)

\* The programs listed are the assembler's.
FromAssembler == \A p \in Programs : \E starts : MadeOf(p, starts)

-----------------------------------------------------------------------------
(* The bytes of blocks. *)

LEMMA CountType ==
  ASSUME NEW blocks \in Seq(Block), NEW k \in 1 .. Len(blocks)
  PROVE  blocks[k].count \in Nat /\ DOMAIN blocks = 1 .. Len(blocks)
  <1> DEFINE B == Block
  <1> HIDE DEF B
  <1>1. blocks \in Seq(B)
    BY DEF B
  <1>2. blocks[k] \in B /\ DOMAIN blocks = 1 .. Len(blocks)
    BY <1>1
  <1>. QED
    BY <1>2 DEF B, Block

LEMMA CoveredIs ==
  ASSUME NEW blocks \in Seq(Block), NEW n \in 0 .. Len(blocks)
  PROVE  /\ Covered(blocks, 0) = 0
         /\ Covered(blocks, n) \in Nat
         /\ n > 0 => Covered(blocks, n) = Covered(blocks, n - 1) + blocks[n].count
  <1> DEFINE counts == [k \in DOMAIN blocks |-> blocks[k].count]
             L == Len(blocks)
  <1>1. L \in Nat /\ n \in Nat /\ n <= L
    OBVIOUS
  <1>2. \A k \in 1 .. L : counts[k] = blocks[k].count /\ counts[k] \in Nat
    BY CountType
  <1>3. \A k : Covered(blocks, k) = SumOf(counts, 1 .. k)
    BY DEF Covered, SumOf
  <1> HIDE DEF counts, L
  <1>4. Covered(blocks, 0) = 0
    <2>1. 1 .. 0 = {}
      OBVIOUS
    <2>. QED
      BY <1>3, <2>1, SumOfEmpty
  <1>5. Covered(blocks, n) \in Nat
    <2>1. \A k \in 1 .. n : counts[k] \in Nat
      BY <1>1, <1>2
    <2>. QED
      BY <1>1, <1>3, <2>1, SumToType
  <1>6. ASSUME n > 0
        PROVE  Covered(blocks, n) = Covered(blocks, n - 1) + blocks[n].count
    <2> DEFINE m == n - 1
    <2>1. m \in Nat /\ m + 1 = n /\ n \in 1 .. L
      BY <1>1, <1>6
    <2> HIDE DEF m
    <2>2. \A k \in 1 .. m + 1 : counts[k] \in Int
      BY <1>1, <1>2, <2>1
    <2>3. SumOf(counts, 1 .. m + 1) = SumOf(counts, 1 .. m) + counts[m + 1]
      BY <2>1, <2>2, SumToNext
    <2>. QED
      BY <1>2, <1>3, <2>1, <2>3 DEF m
  <1>. QED
    BY <1>4, <1>5, <1>6

\* The end of a block is not behind the end of the last.
LEMMA CoveredGrows ==
  ASSUME NEW blocks \in Seq(Block), NEW n \in 0 .. Len(blocks)
  PROVE  Covered(blocks, n) <= Covered(blocks, Len(blocks))
  <1> DEFINE L == Len(blocks)
             P == {k \in Nat : k <= L => Covered(blocks, n) <= Covered(blocks, k) \/ k < n}
  <1>1. L \in Nat /\ n \in Nat /\ n <= L
    OBVIOUS
  <1>2. \A k \in 0 .. L : Covered(blocks, k) \in Nat
    BY CoveredIs
  <1>3. 0 \in P
    BY <1>1, <1>2
  <1>4. ASSUME NEW k \in P PROVE k + 1 \in P
    <2> SUFFICES ASSUME k + 1 <= L, ~(k + 1 < n)
                 PROVE  Covered(blocks, n) <= Covered(blocks, k + 1)
      OBVIOUS
    <2>1. k \in Nat /\ k + 1 \in 0 .. L /\ k \in 0 .. L /\ (k + 1) - 1 = k
      BY <1>1
    <2>2. Covered(blocks, k + 1) = Covered(blocks, k) + blocks[k + 1].count
      BY <2>1, CoveredIs
    <2>3. blocks[k + 1].count \in Nat
      BY <2>1, CountType
    <2>4. Covered(blocks, k) \in Nat /\ Covered(blocks, n) \in Nat
      BY <1>1, <1>2, <2>1
    <2>5. CASE n = k + 1
      BY <2>4, <2>5, <2>2, <2>3
    <2>6. CASE n <= k
      <3>1. Covered(blocks, n) <= Covered(blocks, k)
        BY <1>1, <2>1, <2>6
      <3>. QED
        BY <2>2, <2>3, <2>4, <3>1
    <2>. QED
      BY <1>1, <2>1, <2>5, <2>6
  <1> HIDE DEF P
  <1>5. \A k \in Nat : k \in P
    BY <1>3, <1>4, NaturalInduction
  <1>. QED
    BY <1>1, <1>5 DEF P

-----------------------------------------------------------------------------
(* The invariant. *)

\* Where the program's instructions begin.
Begins == CHOOSE starts : Fits(program, starts)

\* What is left of a block is what count says, instructions begin where a line
\* of code does, and words are listed whole.
InStep ==
  /\ block \in 1 .. Len(Blocks) /\ first \in Nat /\ count \in Nat
  /\ first + count = Sum(block) /\ count <= Blocks[block].count
  /\ Blocks[block].type = "code" /\ count > 0 => first \in Begins
  /\ Blocks[block].type = "dw" => count % 2 = 0

WalkInv ==
  /\ program \in Programs
  /\ phase \in {"start", "listing", "done", "undefined"}
  /\ phase = "start" => first = 0
  /\ Fitting /\ ~Misfit =>
       /\ phase = "listing" => InStep
       /\ phase = "undefined" => Memory = <<>> \/ Blocks = <<>>
       /\ phase = "done" => first = Sum(Len(Blocks))

LEMMA ProgramType ==
  ASSUME program \in Programs
  PROVE  Memory \in Seq(Bytes) /\ Len(Memory) \in Nat /\ Blocks \in Seq(Block) /\ Len(Blocks) \in Nat
         /\ DOMAIN Blocks = 1 .. Len(Blocks)
  <1>1. IsProgram(program)
    BY ProgramAssumption
  <1>2. Memory \in Seq(Bytes) /\ Blocks \in Seq(Block)
    BY <1>1, Zenon DEF IsProgram, Memory, Blocks, Block
  <1>3. \A s \in Seq(Block) : Len(s) \in Nat /\ DOMAIN s = 1 .. Len(s)
    <2> HIDE DEF Block
    <2>. QED
      OBVIOUS
  <1>. QED
    BY <1>2, <1>3

LEMMA Made ==
  ASSUME Fitting, program \in Programs
  PROVE  /\ Sum(Len(Blocks)) <= Len(Memory)
         /\ \A k \in 1 .. Len(Blocks) : Blocks[k].type = "code" =>
              /\ Sum(k - 1) \in Begins
              /\ \A at \in Begins : at \in Sum(k - 1) .. Sum(k) - 1 =>
                   /\ CaseAt(Memory, at) # {}
                   /\ \A row \in CaseAt(Memory, at) :
                        /\ Len(row.bytes) \in 1 .. Sum(k) - at
                        /\ at + Len(row.bytes) \in Begins
  <1>1. Fits(program, Begins)
    BY DEF Fitting, Begins
  <1>2. DOMAIN Blocks = 1 .. Len(Blocks)
    BY ProgramType
  <1>. QED
    BY <1>1, <1>2 DEF Fits, Sum, Memory, Blocks

\* The ends of the blocks.
LEMMA Ends ==
  ASSUME Fitting, program \in Programs, NEW k \in 1 .. Len(Blocks)
  PROVE  /\ Sum(0) = 0 /\ Sum(k) \in Nat /\ Sum(k - 1) \in Nat /\ Blocks[k].count \in Nat
         /\ Sum(k) = Sum(k - 1) + Blocks[k].count
         /\ Sum(k) <= Sum(Len(Blocks)) /\ Sum(k) <= Len(Memory)
  <1>1. Blocks \in Seq(Block) /\ Len(Blocks) \in Nat /\ Len(Memory) \in Nat
    BY ProgramType
  <1>2. k \in 0 .. Len(Blocks) /\ k - 1 \in 0 .. Len(Blocks) /\ k > 0 /\ Len(Blocks) \in 0 .. Len(Blocks)
    BY <1>1
  <1>3. Sum(0) = 0 /\ Sum(k) \in Nat /\ Sum(k - 1) \in Nat /\ Sum(Len(Blocks)) \in Nat
        /\ Sum(k) = Sum(k - 1) + Blocks[k].count
    BY <1>1, <1>2, CoveredIs DEF Sum
  <1>4. Sum(k) <= Sum(Len(Blocks))
    BY <1>1, <1>2, CoveredGrows DEF Sum
  <1>5. Sum(k) <= Len(Memory)
    BY <1>1, <1>3, <1>4, Made
  <1>. QED
    BY <1>1, <1>3, <1>4, <1>5, CountType

-----------------------------------------------------------------------------
(* The lines. *)

\* What a line starts from.
LEMMA AtLine ==
  ASSUME Fitting, program \in Programs, ~Misfit, InStep, NextBlock <= Len(Blocks)
  PROVE  /\ NextBlock \in 1 .. Len(Blocks) /\ Left \in Nat /\ first \in Nat
         /\ first + Left = Sum(NextBlock) /\ Left <= Blocks[NextBlock].count
         /\ Blocks[NextBlock].type # "ds" => Left > 0
         /\ Blocks[NextBlock].type = "code" => first \in Begins
         /\ Blocks[NextBlock].type = "dw" => Left % 2 = 0
  <1>1. DOMAIN Blocks = 1 .. Len(Blocks) /\ Len(Blocks) \in Nat
    BY ProgramType
  <1>2. CASE count = 0
    <2>1. NextBlock = block + 1 /\ Left = Blocks[NextBlock].count
      BY <1>2 DEF NextBlock, Left
    <2>2. NextBlock \in 1 .. Len(Blocks) /\ NextBlock - 1 = block
      BY <1>1, <2>1 DEF InStep
    <2>3. /\ Sum(NextBlock) = Sum(block) + Left /\ Left \in Nat /\ first = Sum(block)
          /\ Sum(block) \in Nat
      BY <1>2, <2>1, <2>2, Ends DEF InStep
    <2>4. Blocks[NextBlock].type # "ds" => Left # 0
      BY <1>1, <2>1, <2>2 DEF Misfit, EmptyBlock
    <2>5. Blocks[NextBlock].type = "dw" => Left % 2 # 1
      BY <1>1, <2>1, <2>2 DEF Misfit, OddWords
    <2>6. Blocks[NextBlock].type = "code" => first \in Begins
      BY <2>2, <2>3, Made
    <2>. QED
      BY <2>1, <2>2, <2>3, <2>4, <2>5, <2>6
  <1>3. CASE count # 0
    BY <1>3 DEF NextBlock, Left, InStep
  <1>. QED
    BY <1>2, <1>3

\* A line about some of what is left.
LEMMA LineStep ==
  ASSUME Fitting, program \in Programs, ~Misfit, InStep, NextBlock <= Len(Blocks),
         program' = program, block' = NextBlock,
         NEW n \in Nat, n <= Left, first' = first + n, count' = Left - n,
         Blocks[NextBlock].type = "code" => first' \in Begins,
         Blocks[NextBlock].type = "dw" => n % 2 = 0
  PROVE  InStep'
  <1>1. Begins' = Begins /\ Blocks' = Blocks /\ Sum(block)' = Sum(NextBlock)
    BY DEF Begins, Blocks, Sum
  <1>2. /\ NextBlock \in 1 .. Len(Blocks) /\ Left \in Nat /\ first \in Nat
        /\ first + Left = Sum(NextBlock) /\ Left <= Blocks[NextBlock].count
        /\ Blocks[NextBlock].type = "dw" => Left % 2 = 0
    BY AtLine
  <1>3. Blocks[NextBlock].count \in Nat
    BY <1>2, Ends
  <1>4. first' \in Nat /\ count' \in Nat /\ first' + count' = Sum(NextBlock)
        /\ count' <= Blocks[NextBlock].count
    BY <1>2, <1>3
  <1>5. Blocks[NextBlock].type = "dw" => count' % 2 = 0
    BY <1>2
  <1>. QED
    BY <1>1, <1>2, <1>4, <1>5 DEF InStep

LEMMA ListCodeWalks ==
  ASSUME Fitting, program \in Programs, ~Misfit, InStep, ListCode
  PROVE  InStep' /\ phase' = "listing"
  <1>1. /\ phase = "listing" /\ NextBlock <= Len(Blocks) /\ Blocks[NextBlock].type = "code"
        /\ block' = NextBlock
    BY DEF ListCode, InBlock
  <1>2. /\ NextBlock \in 1 .. Len(Blocks) /\ Left \in Nat /\ first \in Nat
        /\ first + Left = Sum(NextBlock) /\ Left <= Blocks[NextBlock].count
        /\ Left > 0 /\ first \in Begins
    BY <1>1, AtLine
  <1>3. /\ Sum(NextBlock) \in Nat /\ Sum(NextBlock - 1) \in Nat /\ Blocks[NextBlock].count \in Nat
        /\ Sum(NextBlock) = Sum(NextBlock - 1) + Blocks[NextBlock].count
        /\ Sum(NextBlock) <= Len(Memory)
    BY <1>2, Ends
  <1>4. first \in Sum(NextBlock - 1) .. Sum(NextBlock) - 1
    BY <1>2, <1>3
  <1>5. /\ CaseAt(Memory, first) # {}
        /\ \A row \in CaseAt(Memory, first) :
             /\ Len(row.bytes) \in 1 .. Sum(NextBlock) - first
             /\ first + Len(row.bytes) \in Begins
    BY <1>1, <1>2, <1>4, Made
  <1>6. \A row \in CaseAt(Memory, first) : ~(first + Len(row.bytes) > Len(Memory))
    <2> SUFFICES ASSUME NEW row \in CaseAt(Memory, first)
                 PROVE  ~(first + Len(row.bytes) > Len(Memory))
      OBVIOUS
    <2> DEFINE n == Len(row.bytes)
    <2>1. n \in 1 .. Sum(NextBlock) - first
      BY <1>5
    <2> HIDE DEF n
    <2>2. ~(first + n > Len(Memory))
      BY <1>2, <1>3, <2>1, ProgramType
    <2>. QED
      BY <2>2 DEF n
  <1>7. PICK row \in CaseAt(Memory, first) :
          /\ first' = first + Len(row.bytes) /\ count' = Left - Len(row.bytes)
          /\ UNCHANGED <<input, phase>>
    BY <1>5, <1>6 DEF ListCode, PrintLine
  <1> DEFINE n == Len(row.bytes)
  <1>8. n \in 1 .. Sum(NextBlock) - first /\ first + n \in Begins
        /\ first' = first + n /\ count' = Left - n
    BY <1>5, <1>7
  <1> HIDE DEF n
  <1>9. n \in Nat /\ n <= Left
    BY <1>2, <1>3, <1>8
  <1>. QED
    BY <1>1, <1>7, <1>8, <1>9, LineStep DEF input

LEMMA ListDsWalks ==
  ASSUME Fitting, program \in Programs, ~Misfit, InStep, ListDs
  PROVE  InStep' /\ phase' = "listing"
  <1>1. /\ phase = "listing" /\ NextBlock <= Len(Blocks) /\ Blocks[NextBlock].type = "ds"
        /\ block' = NextBlock
    BY DEF ListDs, InBlock
  <1>2. NextBlock \in 1 .. Len(Blocks) /\ Left \in Nat /\ first \in Nat /\ first + Left = Sum(NextBlock)
    BY <1>1, AtLine
  <1>3. ~(first + Left > Len(Memory))
    BY <1>2, Ends, ProgramType
  <1>4. first' = first + Left /\ count' = 0 /\ UNCHANGED <<input, phase>>
    BY <1>3 DEF ListDs, PrintLine
  <1>5. count' = Left - Left
    BY <1>2, <1>4
  <1>. QED
    BY <1>1, <1>2, <1>4, <1>5, LineStep DEF input

LEMMA ListDbWalks ==
  ASSUME Fitting, program \in Programs, ~Misfit, InStep, ListDb
  PROVE  InStep' /\ phase' = "listing"
  <1> DEFINE size == IF Left \in 1 .. 4 THEN Left ELSE 4
  <1>1. /\ phase = "listing" /\ NextBlock <= Len(Blocks) /\ Blocks[NextBlock].type = "db"
        /\ block' = NextBlock
    BY DEF ListDb, InBlock
  <1>2. NextBlock \in 1 .. Len(Blocks) /\ Left \in Nat /\ first \in Nat /\ first + Left = Sum(NextBlock)
        /\ Left > 0
    BY <1>1, AtLine
  <1>3. size \in Nat /\ size <= Left
    BY <1>2
  <1>4. ~(first + size > Len(Memory))
    <2> HIDE DEF size
    <2>. QED
      BY <1>2, <1>3, Ends, ProgramType
  <1>5. first' = first + size /\ count' = Left - size /\ UNCHANGED <<input, phase>>
    BY <1>4 DEF ListDb, PrintLine
  <1> HIDE DEF size
  <1>. QED
    BY <1>1, <1>2, <1>3, <1>5, LineStep DEF input

LEMMA ListDwWalks ==
  ASSUME Fitting, program \in Programs, ~Misfit, InStep, ListDw
  PROVE  InStep' /\ phase' = "listing"
  <1> DEFINE size == IF Left = 2 THEN 2 ELSE 4
  <1>1. /\ phase = "listing" /\ NextBlock <= Len(Blocks) /\ Blocks[NextBlock].type = "dw"
        /\ block' = NextBlock
    BY DEF ListDw, InBlock
  <1>2. NextBlock \in 1 .. Len(Blocks) /\ Left \in Nat /\ first \in Nat /\ first + Left = Sum(NextBlock)
        /\ Left > 0 /\ Left % 2 = 0
    BY <1>1, AtLine
  <1>3. size \in Nat /\ size <= Left /\ size % 2 = 0
    BY <1>2
  <1>4. ~(first + size > Len(Memory))
    <2> HIDE DEF size
    <2>. QED
      BY <1>2, <1>3, Ends, ProgramType
  <1>5. first' = first + size /\ count' = Left - size /\ UNCHANGED <<input, phase>>
    BY <1>4 DEF ListDw, PrintLine
  <1> HIDE DEF size
  <1>. QED
    BY <1>1, <1>2, <1>3, <1>5, LineStep DEF input

-----------------------------------------------------------------------------
(* The other steps, and the theorems. *)

LEMMA StartWalks ==
  ASSUME Fitting, program \in Programs, ~Misfit, first = 0, Start
  PROVE  /\ phase' \in {"listing", "undefined"}
         /\ phase' = "listing" => InStep'
         /\ phase' = "undefined" => Memory = <<>> \/ Blocks = <<>>
  <1>1. CASE Memory = <<>> \/ Blocks = <<>>
    BY <1>1 DEF Start
  <1>2. CASE ~(Memory = <<>> \/ Blocks = <<>>)
    <2>1. phase' = "listing" /\ block' = 1 /\ count' = Blocks[1].count /\ UNCHANGED <<input, first>>
      BY <1>2 DEF Start
    <2>2. 1 \in 1 .. Len(Blocks)
      <3> DEFINE B == Block
      <3> HIDE DEF B
      <3>1. Blocks \in Seq(B)
        BY ProgramType DEF B
      <3>. QED
        BY <1>2, <3>1
    <2>3. Sum(1) = Blocks[1].count /\ Blocks[1].count \in Nat
      <3>1. Sum(1) = Sum(1 - 1) + Blocks[1].count /\ Sum(0) = 0 /\ Blocks[1].count \in Nat
        BY <2>2, Ends
      <3>. QED
        BY <3>1
    <2>4. /\ Begins' = Begins /\ Blocks' = Blocks /\ Sum(block)' = Sum(1)
          /\ first' = 0
      BY <2>1 DEF Begins, Blocks, Sum, input
    <2>5. Blocks[1].type = "code" => 0 \in Begins
      <3>1. Blocks[1].type = "code" => Sum(1 - 1) \in Begins
        BY <2>2, Made
      <3>2. Sum(0) = 0
        BY <2>2, Ends
      <3>. QED
        BY <3>1, <3>2
    <2>6. Blocks[1].type = "dw" => Blocks[1].count % 2 = 0
      BY <2>2, <2>3, ProgramType DEF Misfit, OddWords
    <2>7. InStep'
      BY <2>1, <2>2, <2>3, <2>4, <2>5, <2>6 DEF InStep
    <2>. QED
      BY <2>1, <2>7
  <1>. QED
    BY <1>1, <1>2

LEMMA FinishWalks ==
  ASSUME Fitting, program \in Programs, ~Misfit, InStep, Finish
  PROVE  phase' = "done" /\ first' = Sum(Len(Blocks))
  <1>1. phase' = "done" /\ first' = first /\ (first >= Len(Memory) \/ NextBlock > Len(Blocks))
    BY DEF Finish
  <1>2. /\ block \in 1 .. Len(Blocks) /\ first \in Nat /\ count \in Nat
        /\ first + count = Sum(block)
    BY DEF InStep
  <1>3. /\ Sum(block) \in Nat /\ Sum(Len(Blocks)) \in Nat
        /\ Sum(block) <= Sum(Len(Blocks)) /\ Sum(Len(Blocks)) <= Len(Memory)
        /\ Len(Blocks) \in Nat /\ Len(Memory) \in Nat
    <2>1. Len(Blocks) \in Nat /\ Len(Memory) \in Nat
      BY ProgramType
    <2>2. Len(Blocks) \in 1 .. Len(Blocks)
      BY <1>2, <2>1
    <2>. QED
      BY <1>2, <2>1, <2>2, Ends
  <1>4. CASE first >= Len(Memory)
    BY <1>1, <1>2, <1>3, <1>4
  <1>5. CASE NextBlock > Len(Blocks)
    <2>1. count = 0 /\ block = Len(Blocks)
      BY <1>2, <1>3, <1>5 DEF NextBlock
    <2>. QED
      BY <1>1, <1>2, <2>1
  <1>. QED
    BY <1>1, <1>4, <1>5

LEMMA WalkStep ==
  ASSUME WalkInv, [Next]_vars
  PROVE  WalkInv'
  <1>1. program' = program /\ program \in Programs
    BY DEF WalkInv, Next, Start, ListCode, ListDs, ListDb, ListDw, PrintLine, ReadPast, Finish,
       Ended, InBlock, input, vars
  <1>2. Memory' = Memory /\ Blocks' = Blocks /\ (Misfit' <=> Misfit) /\ (Fitting' <=> Fitting)
        /\ Sum(Len(Blocks))' = Sum(Len(Blocks))
    BY <1>1 DEF Memory, Blocks, Misfit, EmptyBlock, OddWords, Sum, Fitting
  <1>3. phase' \in {"start", "listing", "done", "undefined"} /\ (phase' = "start" => first' = 0)
    BY DEF WalkInv, Next, Start, ListCode, ListDs, ListDb, ListDw, PrintLine, ReadPast, Finish,
       Ended, InBlock, input, vars
  <1>4. ASSUME Fitting, ~Misfit
        PROVE  /\ phase' = "listing" => InStep'
               /\ phase' = "undefined" => Memory = <<>> \/ Blocks = <<>>
               /\ phase' = "done" => first' = Sum(Len(Blocks))
    <2>1. CASE Start
      <3>1. first = 0
        BY <2>1 DEF Start, WalkInv
      <3>. QED
        BY <1>1, <1>4, <2>1, <3>1, StartWalks
    <2>2. CASE ListCode \/ ListDs \/ ListDb \/ ListDw
      <3>1. InStep
        BY <1>4, <2>2 DEF WalkInv, ListCode, ListDs, ListDb, ListDw, InBlock
      <3>. QED
        BY <1>1, <1>4, <2>2, <3>1, ListCodeWalks, ListDsWalks, ListDbWalks, ListDwWalks
    <2>3. CASE Finish
      <3>1. InStep
        BY <1>4, <2>3 DEF WalkInv, Finish
      <3>. QED
        BY <1>1, <1>4, <2>3, <3>1, FinishWalks
    <2>4. CASE UNCHANGED vars
      <3>1. phase' = phase /\ first' = first
        BY <2>4 DEF vars
      <3>2. InStep' <=> InStep
        BY <2>4 DEF vars, InStep, Blocks, Begins, Sum
      <3>. QED
        BY <1>4, <3>1, <3>2 DEF WalkInv
    <2>. QED
      BY <2>1, <2>2, <2>3, <2>4 DEF Next, Ended
  <1>. QED
    BY <1>1, <1>2, <1>3, <1>4 DEF WalkInv

LEMMA WalkInvariance == Spec => []WalkInv
  <1>1. Init => WalkInv
    BY DEF Init, WalkInv
  <1>2. WalkInv /\ [Next]_vars => WalkInv'
    BY WalkStep
  <1>. QED
    BY <1>1, <1>2, PTL DEF Spec

\* Any program whose blocks fit its memory, from wherever it is loaded and however
\* long it is: the listing goes to the end of the last block and no further.
THEOREM FittingListed == Spec => []FittingBlocksListed
  <1>1. WalkInv => FittingBlocksListed
    <2> SUFFICES ASSUME WalkInv, Fits(program, Starts(program)), ~Misfit
                 PROVE  /\ phase = "listing" => first + count = Sum(block) /\ count >= 0
                        /\ phase = "undefined" => Memory = <<>> \/ Blocks = <<>>
                        /\ phase = "done" => first = Sum(Len(Blocks))
      BY DEF FittingBlocksListed
    <2>1. Fitting
      BY DEF Fitting
    <2>. QED
      BY <2>1 DEF WalkInv, InStep
  <1>. QED
    BY <1>1, WalkInvariance, PTL

LEMMA AssemblerFits ==
  ASSUME FromAssembler, program \in Programs
  PROVE  Fitting /\ \A i \in Sum(Len(Blocks)) + 1 .. Len(Memory) : Memory[i] = 0
  BY DEF FromAssembler, Fitting, MadeOf, Sum, Memory, Blocks

\* A program of the assembler, of any length: between two lines the count is
\* what is left of the block, so no line straddles two blocks.
THEOREM CountsLeft ==
  ASSUME FromAssembler
  PROVE  Spec => []CountIsLeft
  <1>1. WalkInv => CountIsLeft
    BY AssemblerFits DEF WalkInv, InStep, CountIsLeft
  <1>. QED
    BY <1>1, WalkInvariance, PTL

\* dump reads what is not there only for a program without bytes or with a block
\* that does not fit.
THEOREM DefinedUnlessMisfit ==
  ASSUME FromAssembler
  PROVE  Spec => []UndefinedOnlyOnMisfit
  <1>1. WalkInv => UndefinedOnlyOnMisfit
    BY AssemblerFits DEF WalkInv, UndefinedOnlyOnMisfit
  <1>. QED
    BY <1>1, WalkInvariance, PTL

\* The listing goes to the end of the last statement.
THEOREM ListingComplete ==
  ASSUME FromAssembler
  PROVE  Spec => []CompleteListing
  <1>1. WalkInv => CompleteListing
    BY AssemblerFits DEF WalkInv, CompleteListing
  <1>. QED
    BY <1>1, WalkInvariance, PTL
=============================================================================
