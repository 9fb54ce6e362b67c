------------------------ MODULE AssemblerRefinement ------------------------
(***************************************************************************)
(* The assembler against what it promises: one memory image, made in one   *)
(* step.                                                                   *)
(***************************************************************************)
EXTENDS Assembler, SequencesExt

\* wexpr is told how far into the instruction the lexer has come, so that $ is
\* the instruction's own address.  Reassembly checks this of the opcode table.
ASSUME DollarAssumption ==
  \A s \in Sources : \A i \in 1 .. Len(s) :
    s[i].body.k = "opcode" =>
      \A o \in DOMAIN s[i].body.form.word : s[i].body.form.word[o].back = o + 2

\* The kind of every byte, as the blocks tell it.
Expand(blocks) ==
  FlattenSeq([i \in DOMAIN blocks |-> [j \in 1 .. blocks[i].count |-> blocks[i].type]])

Abstract == INSTANCE TwoPass WITH
  status <- IF phase \in Terminal THEN phase ELSE "running",
  image <- IF phase = "done"
           THEN {[org |-> org, memory |-> memory, kinds |-> Expand(mem_type)]} ELSE {}

\* The one pass with its deferred patches gives the image of the two passes:
\* forward references, labels before a late ORG, $ and EQUs included.
ImplementsTwoPass == Abstract!Spec

\* The blocks add up to what has been accounted for, and between two lines
\* nothing is left out: dump walks the blocks over the memory without a check.
BlocksTile ==
  /\ Len(Expand(mem_type)) = last_size
  /\ last_size <= Size
  /\ \/ phase \in {"equ", "check", "done"} \cup Patching
     \/ phase = "line" /\ item = 0
     => last_size = Size
=============================================================================
