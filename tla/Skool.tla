-------------------------------- MODULE Skool --------------------------------
(***************************************************************************)
(* parse_skool: a skool file gives every line an address.  The loader      *)
(* brings the end of the memory to that address and hands the rest of the  *)
(* line to data::parse; the assembler does with it what it does with a     *)
(* line of a source text, on the same data.                                *)
(*                                                                         *)
(* Lines the loader's lexer skips, and characters before an address, are   *)
(* left out.  An address of 0 stands for those that read as 0 too: five    *)
(* digits over 65535, or six digits in a row.                              *)
(***************************************************************************)
EXTENDS Assembler, SequencesExt

CONSTANT Files   \* skool files: a text and the address of each of its lines

VARIABLES
  address,   \* the addresses of the lines of source
  handed     \* the line has been given to data::parse

skool == <<address, handed>>
skoolVars == <<vars, skool>>

IsFile(f) ==
  /\ f.text \in Sources
  /\ f.address \in Seq(Word)
  /\ Len(f.address) = Len(f.text)
ASSUME FileAssumption == \A f \in Files : IsFile(f)

\* main patches a skool file in absolute mode only.
SkoolInit ==
  /\ \E f \in Files : source = f.text /\ address = f.address
  /\ relative = "absolute"
  /\ Fresh(0)
  /\ handed = FALSE

-----------------------------------------------------------------------------
AtAddress == phase = "line" /\ ~handed /\ line <= Len(source)

\* The loop is left neither by an exception nor by taking the next line.
SkipLine ==
  /\ AtAddress /\ address[line] = 0
  /\ UNCHANGED skoolVars

\* FirstLine, were an ORG after it still allowed.
FirstLineUnset ==
  /\ AtAddress /\ address[line] # 0 /\ org = 0
  /\ org' = address[line] /\ handed' = TRUE
  /\ UNCHANGED <<input, phase, line, item, todo, evaluation, org_set, last_size, memory,
                 mem_type, symbols, fixups, address>>

\* The first address is the origin.
FirstLine ==
  /\ AtAddress /\ address[line] # 0 /\ org = 0
  /\ org' = address[line] /\ org_set' = TRUE
  /\ handed' = TRUE
  /\ UNCHANGED <<input, phase, line, item, todo, evaluation, last_size, memory, mem_type,
                 symbols, fixups, address>>

\* NewSize, were the end of the memory counted without the origin.
NewSizeWithoutOrg(addr) == Size + addr - (Size % WordSize)

\* The size the memory has once it ends at an address.
NewSize(addr) == Size + addr - ((org + Size) % WordSize)

Resized(size) == [i \in 1 .. size |-> IF i <= Size THEN memory[i] ELSE 0]

\* PlaceLine, were the line not handed over.
PlaceLineForever ==
  /\ AtAddress /\ address[line] # 0 /\ org # 0
  /\ UNCHANGED skoolVars

\* Any other line.  The size is a size_t: below zero it is more than a vector can have.
PlaceLine ==
  /\ AtAddress /\ address[line] # 0 /\ org # 0
  /\ \/ /\ org + Size = address[line]
        /\ handed' = TRUE
        /\ UNCHANGED <<phase, line, item, todo, evaluation, memory>>
     \/ /\ org + Size # address[line] /\ NewSize(address[line]) >= 0
        /\ memory' = Resized(NewSize(address[line]))
        /\ handed' = TRUE
        /\ UNCHANGED <<phase, line, item, todo, evaluation>>
     \/ /\ org + Size # address[line] /\ NewSize(address[line]) < 0
        /\ Fail
        /\ UNCHANGED <<memory, handed>>
  /\ UNCHANGED <<input, org, org_set, last_size, mem_type, symbols, fixups, address>>

\* data::parse on the line handed over, and all that follows the last one.
AssembleLine ==
  /\ ~AtAddress
  /\ Next
  /\ handed' = (handed /\ line' = line)
  /\ UNCHANGED address

SkoolNext == SkipLine \/ FirstLine \/ PlaceLine \/ AssembleLine

SkoolSpec == SkoolInit /\ [][SkoolNext]_skoolVars /\ WF_skoolVars(SkoolNext)
=============================================================================
