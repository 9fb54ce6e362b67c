# A TLA+ model of z80_assembler

z80_assembler is a one-pass assembler and a disassembler for the Z80. This
directory holds a model of it in TLA+, the TLC runs that check the model and
theorems about it that the TLA+ proof system checks. Line numbers refer to the
sources one directory up, under `src/`; `PROJECT.json` names, for each
definition, the lines it models.

## The system

One thread, one object (`struct data`, data.hpp) and no input after the start.
What is hard is not concurrency but *deferral*: the grammar actions push bytes
with zeros where operands will go, record the text of each operand with the
address of its placeholder, and only when the whole source is read does
`fixup_addresses` evaluate the texts and patch the bytes. Between the two lie
every definition, redefinition and origin of the rest of the source. The other
hard part is *files*: a program saved into a snapshot and listed from there
passes through four runs and two file formats, whose readers and writers share
no code.

| Component | State | Operations | Talks to |
| --- | --- | --- | --- |
| Statements and symbols (parsers.cpp 22-210, data.cpp) | `_label`, `_equ`, `_program` (`_org`, `_org_set`, `_last_size`, `_memory`, `_mem_type`), the maps `_rel_addr`, `_byte_expr`, `_word_expr` | one grammar action per kind of line and of list element; `rel_label`, `bexpr`, `wexpr` | called back by the parser's reductions in `data::parse`; calls `parse_expr` for an EQU |
| Expressions (data.cpp 165-197, parsers.cpp 2718-2943) | the stack `_acc`, `_integer` | one action per reduction | called by EQU and by `fixup_addresses`; reads labels, EQUs and the origin |
| Patching (data.cpp 199-248) | `_memory` | three loops over the maps | called by `main` once the text is read |
| Instruction set (parsers.cpp 211-2443) | `_r`, `_r2`, `_dd`, ... while a line is read | some 270 productions | `push_byte`, `push_word`, the three recorders above |
| Disassembler (disassem.cpp) | a pointer into the memory, a block and what is left of it | `dump`, `fetch_opcode` and the switches under it | reads `_memory`, `_mem_type`, `_org` |
| Skool files (skool.cpp) | the origin and the size of the memory | pads the memory and calls `data::parse` per line | the statements |
| Literals and strings (parsers.cpp 2469-2586, 162-200) | `_integer`; a string being edited | the conversions of each kind of literal; the loop that takes backslashes out | the statements and expressions |
| Snapshots and block files (sna.cpp, dump.cpp) | memory and blocks from two files, an iterator over tokens | `read_sna`, `dump_blocks` | the command line, the disassembler |
| Command line (main.cpp) | the switches, the pathnames, the snapshot being patched | the choice of loader and output, the memory limit, `save` | everything |
| Lexer and LALR tables | - | generated at the start by lexertl and parsertl, which are not in the repository | calls the actions |

What makes each correct:

* statements and symbols: a byte stands where the statements before it end; a
  name has one meaning; the blocks cover the memory without a gap;
* expressions: what an evaluation pushes it pops; nothing but a division, or a
  `$` the grammar of expressions does not have, makes it fail other than by an
  exception;
* patching: each placeholder is written once and nothing else is; a relative
  jump lands on its target or the text is refused; the image is that of a
  textbook two-pass assembler;
* instruction set and disassembler: what is listed assembles to what was listed,
  and the list is complete;
* literals: a literal has the value it is written as, and its own;
* the loaders: what they leave satisfies what the rest assumes, and a blocks file
  is read as what was printed;
* the command line: an error changes no file; a snapshot that is written is the
  one that was read with the program copied over it, and is listed again as the
  program was.

## Modules

    Source            integers, expressions, texts, opcode templates
      Assembler         the state machine of parsers.cpp, data.cpp and main
        AssemblerRefinement   ... implements TwoPass; the blocks tile the memory
          MCAssembler           lines and texts for TLC
        Skool                 the loader of skool files over the assembler's actions
          SkoolImage            ... gives the image of the text a file stands for
            MCSkool               files for TLC
      TwoPass           what an assembler promises: one image, made in one step
    Opcodes           the rows of the instruction set: text, bytes, operands
      Mnemonics         the rows of the disassembler's switches
        Dump              the state machine of dump
          Reassembly          the listing given back to the assembler
            MCListing           programs for TLC; rows are templates of Source
    Snapshot          read_sna and dump_blocks
      MCSnapshot        blocks files for TLC
      Driver            main and save
        Session           several runs of main over one disk, with Reassembly's dump as
                          the listing
          MCSession         command lines, disks and sessions for TLC
    Literals          the values of literals
      MCLiterals        literals for TLC
    Strings           the escapes of strings
      MCStrings         strings for TLC

and their theorems:

    Data_proofs       induction over data: sums, FlattenSeq, recursive functions
      Assembler_proofs  types, the fixup maps, the symbols, the order of the patches,
                        the stack, the relative jumps
        AssemblerRefinement_proofs   the assembler implements TwoPass; the blocks
          SkoolImage_proofs            ascending skool files
      Reassembly_proofs the walk of dump over what the assembler makes
      Literals_proofs   the values of literals
      Strings_proofs    what a string pushes
      Driver_proofs     read_sna, dump_blocks, main and save, sessions

### Assembler

A *text* is a sequence of lines, and a line is what the grammar actions
receive: a label or none, and a body. An expression is the sequence of its
tokens in the order of the parser's reductions (postfix), so precedence and
parentheses are gone and each reduction is one step. That every operator finds
its operands in that order, and one value is left, is what any grammar of
expressions gives (`Expr`); what the *code* does to the stack with it, and with
the reductions that never come because a `$` stopped the parser, is what the
properties ask. An opcode is a template:
the bytes its action pushes and, by offset, what it passes to `rel_label`,
`bexpr` and `wexpr`. `MCListing` checks that every row of `Opcodes` makes such
a template (`TemplateAssumption`).

| Action | Code |
| --- | --- |
| `DefineLabel` | `label: Name` |
| `CallEqu`, `ReturnEqu` | `Name EQU full_expr`, before and after its call of `parse_expr` |
| `SetOrg` | `ORG integer` |
| `PushOpcode`, `AccountCode` | an opcode action; then the reduction that closes its bytes into a block |
| `PushDbItem`, `AccountDb`, `PushDwItem`, `AccountDw`, `ReserveDs` | DB, DW and DS, an element at a time |
| `EmptyLine`, `RejectLine` | a line without a body; one the grammar or an operand check refuses |
| `StartFixups`, `PatchRel`, `PatchByte`, `PatchWord`, `NextLoop` | `fixup_addresses` |
| `PushNumber`, `PushName`, `Negate`, `BinaryOp`, `SyntaxError`, `ReturnNothing` | `parse_expr` |
| `CheckLimit` | the limit in `main` |

`phase` says where the program is: in a line, in a call of `parse_expr` by an
EQU or by one of the three loops, or at one of three ends. "done" and "error"
are `main` going on to its output or reporting an exception. "undefined" is
where the program leaves C++: `top()` of an empty stack, a division that traps.
Keys of the maps are addresses; what the code computes as `size() - 1` after
pushing is `size + offset` before it, and the action pushes and records in one
step because nothing can come between.

Integers have the widths of the code up to scale: a byte has `ByteSize` values,
a word `ByteSize^2`, an int `ByteSize^4`. The code's are 256, 65536 and 2^32;
TLC runs with 4, 16 and 256, the proofs hold for any even `ByteSize`. A signed
overflow of an int is undefined in C++; the compilers of the Makefile and of the
project file wrap, and so does `Wrap`.

### TwoPass

The abstract specification has no maps, no stack, no patches: it computes where
every line starts, what every name means to every line, and from that the image,
in one step. It states the rules the code follows, which a user can rely on:

* a label is the final origin plus its offset, cut to a word, when it is used in an
  operand, but the origin *so far* plus its offset when it is used in an EQU;
* `$` is the address of the statement, counted from the origin so far; in a DW
  that of the element;
* an operand that names an EQU sees its last value, also if it comes before it;
* in offset mode the operand of a relative jump is cut to a signed byte, so the
  range check cannot refuse it; in absolute mode it must be in reach;
* byte operands are cut to a byte without a message;
* DS, ORG and bit numbers are taken modulo 2^16.

The refinement maps `phase` to the status and, at the end, the memory, the
origin and the kinds of the bytes to the image. Nothing is promised where a
`$` reaches `parse_expr` or where an expression traps before its first unknown
name: the code is undefined there.

### Skool

`parse_skool` works on the same data as a source text, so `Skool` extends
`Assembler` with two variables: the address of each line, and whether the line
has been handed to `data::parse`. `FirstLine` sets the origin, `PlaceLine`
resizes the memory, `AssembleLine` is any step of `Assembler` on a line handed
over. `SkipLine` is the `continue` of line 42: it changes nothing, the iterator
included, and so is a step a file with an address of 0 takes for ever.

A line whose address lies before the end of the memory shrinks it. The maps may
then name bytes past the end; what `fixup_addresses` writes there goes to the
spare capacity of the vector, which never gets smaller, and is lost: an EXCEPT
outside the domain, which is what TLC warns of in this run. Properties are
stated of ascending files; nothing is promised of the others but that loading
ends.

`SkoolImage` spells a file out as a text, with an ORG and a DS for every gap
(`Spelled`), and instantiates `TwoPass` (`Text`) and `Assembler` (`Asm`) with it:
the loader's line i is line 2i of that text once it is handed over, and line 2i - 1
before (`Place`). Only the kinds of the bytes differ: a gap belongs to the block of
the next statement, so that a gap before code is listed as NOPs, and an odd one
before a DW shifts the words of the listing by a byte and makes the count of `dump`
miss zero. The assembler has closed the gaps into blocks of their own, so `Asm`
takes the sizes and the blocks of the lines before its place (`ClosedSize`,
`ClosedBlocks`) for what the loader has in `_last_size` and `_mem_type`; nothing
that is pushed, recorded, evaluated or patched reads those two.

### Opcodes, Mnemonics

A row of `Opcodes` is a production with its registers and numbers chosen; a row
of `Mnemonics` is a case of a switch. The texts of both are written alike
("n" for a byte operand, "nn" for a word, "e" for a relative jump, "(IX+d)"), so
that a row of one can be looked up in the other. They describe the code as it
is, oddities included: `LD H,IXH` pushes the code of `LD IXH,IXH`; the default
after DD or FD prints the second byte only; ED 4E is listed as `IM 0/1`; RST
takes 0, 8, ..., 56 (the comment at parsers.cpp 2134 says 0-7, the test tables
agree with the code).

### Dump

One action per line of the listing and kind of block, `Start` for what is read
before the loop and `Finish` for its end. `count` is a `size_t`; a value below
zero stands for the same value plus 2^64. "undefined" is a read outside the
memory or of a block that is not there.

A line is what the assembler would read: a text and numbers, each with the sign
before it and the `uint16_t` that `parse_expr` makes of it. That makes the
conversions part of the model: `sbto_string` prints -128 as `--128`, which
evaluates to 128 and still stores the right byte.

### Snapshot

A blocks file is the tokens `read_sna`'s lexer makes of it: integers, names,
line ends, and characters no rule matches, of which white space and signs matter.
`AssignMemory` takes the bytes after
the 27 of the header; a shorter file gives a negative distance, which as a
`size_t` is an exception of the vector. `ReadOrigin` is the `atoi` of line 59,
which reads the text and not the token: white space before the number is passed
over, line ends and the tabs no rule matches alike, and a sign is taken unless a
blank follows it (`Numbers`, `Leading`; blanks are no tokens, so both are possible).
The number is masked, so that `-5` is 65531; one that is no int may become
anything (`Origins`). `ReadBlock` advances
the iterator twice, once inside and once by the loop, which is `SkipNewLine` on
line ends. "undefined" is an iterator advanced past its end. `BlockTokens` is
what `dump_blocks` prints.

### Driver, Session

`Driver` is one run of `main`. `ReadArgument` is one turn of the loop over
`argv`; `CheckArguments` maps the file and tests the number of pathnames;
`LoadText` stands for `data::parse` or `parse_skool` with `fixup_addresses` and
gives an error or any of `Programs` (that these may trap or not end is shown
where they are modelled); `LoadSnapshot` is a step of `Snapshot`; `CheckLimit` is
the limit and the choice of the output; `PatchSnapshot` and `WriteSnapshot` are
`save` up to its `fopen` and from it. A disk has files, paths that cannot be
opened for writing, and may be full: `fwrite` then writes any part, and `save`
does not notice. `memory_file` cannot map an empty file, so that one is a missing
one.

`Session` runs `main` several times: `NextRun` ends a process and starts the
next one on the disk it left, with the printed blocks, if any, redirected into
the blocks file. Where `main` calls `dump`, the actions of `Dump` take over. A
text is loaded as the same program every time in the same mode (`TextKey`).

### Literals, Strings

`Literals` has an action for each rule of the lexer that `integer` has a
production for, and one for the default of the switch on escapes, which leaves
`_integer` as it is. The lexer's facts it relies on are in `IsLiteral`: its rules
do not look at case, so `'\N'` is a character, and `'\x'` is one even without
digits. A `char` is signed. `Strings` is the loop on the text between the quotes
of a DB string, one backslash a step.

## Runs

| Run | Question | States |
| --- | --- | --- |
| symbols | do deferral, clashes, a late ORG and the blocks give the two-pass image? | 50,000 |
| expressions | does the stack machine evaluate, and fail, as promised, wherever an expression stands? | 278,000 |
| listing | does what the assembler makes, gaps of skool files included, list completely and assemble back? | 173,000 |
| snapshots | does what any bytes list as assemble and list the same, and are blocks that fit them listed to their end? | 72,000 |
| skool | is loading an ascending file assembling the text it stands for, and does it end? | 765,000 |
| blockfiles | is a printed blocks file read back, and what can another one do? | 368,000 |
| session | which bytes does a run write to which file, and is a saved program listed again? | 312,000 |
| literals | which literals have the value they are written as? | 52,000 |
| strings | which characters does a string push? | 39,000 |
| bits | does each bit instruction refuse a number past 7? (no: a finding) | |
| hexadecimal | does the hexadecimal listing assemble back? (no: a finding) | |
| destination | is the file written the second of the pathnames? (no: a finding) | |

*Bounds.* symbols takes every text of one to three lines out of fourteen. Three
are needed: a use, a definition and a redefinition or an ORG, in any order; a
fourth adds no new pair of events. Words have 16 values and the lines reserve
3 or 20 bytes or start at 29 modulo 16, so that labels, `$` and the limit all
wrap. expressions takes two lines, which lets one evaluation leave something for
the next, with every operator, operands that overflow an int of 256 values, a
divisor that is a label, and `$` in every place. Both run in both relative modes.
listing takes every row of `Opcodes` at the default origin with operand bytes
0, 1, 127, 128 and 254, the relative jumps with more bytes at origins where the
target wraps, and every sequence of up to three statements out of eleven (more
than one line of DB and DW, an empty DB, DS of 0 and of more than a byte); two
DS that fill the address space, and one byte less; and skool files of up to three lines with gaps of even and odd length before each
kind of statement.
skool takes every file of up to three out of eight lines at six addresses, so
that lines fit, leave gaps, overlap, go back, pass the end or have no address.
snapshots takes every first and every second byte, and all pairs of blocks of 0
to 4 bytes over six bytes of memory: blocks that fit, that end short of the memory,
that reach past it and that cut an instruction in two. Both bases and both relative modes.
blockfiles takes every file of up to four of twelve tokens (numbers past each type,
names that are types and one that is none, a line end, and the characters no rule
matches: white space, either sign and another), which is two blocks and a way to cut each of them off, and the files
printed of up to three blocks. session has a header of 2 bytes and a memory of
12 at the end of the address space, so that programs begin before, at and inside
the snapshot and end before, at and past it. It takes all command lines of up to
three further arguments over the two pathnames and the switches that matter to
files, and of up to two over all switches, on seven disks: whole, full, locked,
without a blocks file, with a short or an unfinished one, without a destination.
The programs are of one kind of statement, or of several with an empty block, a pair
of words or, as a skool file makes it, an odd gap before one.
The longer sessions list a text, save it, print its blocks and list the snapshot,
as it is or after printing its own blocks again, on a disk that is full or has
no blocks file yet. literals takes every sequence of up to three of 33 literals, at the
ends of their types; 200,000 and 5,000,000 stand for the first number that is
no int and no long (TLC's integers are ints themselves), and are far enough from
each other and from 65,536 for every order to occur. strings takes every string
of up to eight characters, which has room for runs of four backslashes on either
side of a character.

*Properties.*

* `HolesSound`, `FixupsWriteOnce`: the unchecked writes of `fixup_addresses` are
  safe, and its three loops never undo each other or a byte of the text.
* `SymbolsDisjoint`: labels and EQUs exclude each other in both orders.
* `BlocksTile`: what `dump` walks adds up to the memory.
* `RelativeLandsOnTarget`: stated of the final bytes, not of the computation.
* `ImplementsTwoPass`: the one pass is the two passes.
* `OperandsOnStack`: no reduction pops a value that is not there, nor one that an
  earlier evaluation left.
* `NoDollarDeferred`, `AccBalanced`, `UndefinedOnlyFrom`: the only texts that
  can leave something on the stack, or leave C++, are those with a `$` in an EQU
  or a relative jump, and divisions.
* `FaithfulListing`: every line of the decimal listing of an assembled program
  assembles, at its place, to its bytes. There are two exceptions: an absolute
  address that `rel_addr` wraps and `fixup_addresses` does not (`Wraps`), and zeros
  that fill the whole address space (`WholeSpace`), as two DS make them: they are
  merged and listed as `DS 65536`, a number that is 0 in the 16 bits of a literal,
  so that the line assembles to nothing.
* `StableListing`: the same for any bytes, up to the copies of instructions
  after ED and to `IM 0/1` and DB lines. It is about lines only, and asks nothing
  of blocks that do not add up to the memory: `FittingBlocksListed` does.
* `CountIsLeft`, `UndefinedOnlyOnMisfit`, `CompleteListing`: the walk stays in
  step with the blocks, reads outside only for a program without bytes or a
  `Misfit`, and leaves nothing out but the zeros of a last gap. A misfit is an
  empty block, as `DB ""` makes it, or an odd gap before a DW: these two go wrong
  in the code, and the properties say that nothing else does.
* `FittingBlocksListed`: the same without an assembler, for any memory and any
  blocks a file may give. They need not add up to the memory. If they stay in it
  and cut no instruction in two (`Fits`, over the offsets `Starts` where instructions
  begin), and none is a misfit, they are listed to the end of the last one and no
  byte past it. Over any other blocks the walk may go wrong, but it ends.
* `DollarAtInstruction`: the number each action passes to `wexpr` is its length.
* `AscendingAssembles`, `AscendingHolesSound`, `AscendingBlocksCover`: what the
  rest of the program relies on holds after a skool file whose addresses ascend.
* `AscendingRefines`: more than the image; every step of the loader on such a file
  is a step of the assembler on the text, with the same bytes, symbols, fixups and
  errors, so that a gap is a DS to everything but the listing.
* `ReadsWhatIsPrinted`: `read_sna` undoes `dump_blocks`.
* `DefinedIfLineEnded`: `read_sna` leaves C++ only for a file that is empty or
  cut off before its last line end, whatever else is in it.
* `PatchedAsNamed`: stated of the bytes a reader of the new snapshot finds at
  each address, not of the copy.
* `RefusedUnchanged`: the order in `save` and `main` is such that nothing fails
  once a file has been opened for writing.
* `SavesInside`: `save` does not test where it copies. The limit tested in `main`
  is enough for every program but an empty one and one that begins below the
  snapshot, and for every snapshot that is not cut off.
* `ListedAgain`: list a text, save it, print its blocks, list the snapshot, and the
  lines are the same. On a full disk, of which `save` does not learn, the listing may
  be cut short or leave C++, but at every step it is a beginning of the text's: no
  stale byte of an earlier snapshot, no line of what is missing. Each of the
  conditions is needed. The program must begin at 16384, since a snapshot's memory is
  taken to begin at the origin its blocks file has. The blocks must be `Listable`: none empty but
  those of a DS, since an empty one makes `dump` read on into what follows the
  program, which in a snapshot is something else; the last one not empty, since a DS
  of nothing at the end of the text is not listed, while in a snapshot bytes follow
  and it is; and those of a DW of even length, since an odd one (the gap of a skool
  file before it) leaves a count that has wrapped, and the walk goes on to the end of
  the memory, which is not the same place in the two.
* `ValueAsWritten`: which literals have the value they are written as, in both
  directions (see below). `CharacterInByte`, `ValueIsOwn`: what holds all the same
  where a literal is cut to a byte, and of the `_integer` all literals share.
* `PushesUnescaped`: exactly the escaping backslashes are lost.
* `ReadingEnds`, `UnescapingEnds`: the loops of `read_sna` and of strings come to
  an end.
* `SkoolEnds`: only an address that reads as 0 can keep the loader from ending.
* `Termination`, twice: `parse_expr` and the loops of `fixup_addresses` come to
  an end; so does the walk of `dump`, whatever the blocks are (run snapshots). A
  session has no other loop; that it does not stop before its last run, but for an
  error, is the deadlock check of run session.

*Fairness.* Every specification with a liveness property assumes weak fairness of
its `Next` and nothing else: there is one thread, it waits for nobody, and it takes
a step as long as it has one. The
stuttering step `Ended` stands for the ended process, so deadlock is checked
everywhere: a state with no step is an error of the model or of the code.

## Theorems

The modules named `..._proofs` prove, for every value of the constants that
satisfies the named assumptions of the module proved about:

| Module | Theorem | States |
| --- | --- | --- |
| Assembler_proofs | `Invariance` | `Spec => []IInv` |
| | `TypeCorrect` | `Spec => []TypeOK` |
| | `FixupsSound` | `Spec => []HolesSound` |
| | `SymbolsApart` | `Spec => []SymbolsDisjoint` |
| | `WriteOnce` | `Spec => FixupsWriteOnce` |
| | `DollarsResolved` | `Spec => []NoDollarDeferred` |
| | `OperandsThere` | `Spec => []OperandsOnStack` |
| | `AccEmptied` | `Spec => []AccBalanced` |
| | `UndefinedSources` | `Spec => []UndefinedOnlyFrom` |
| | `JumpsLand` | `Spec => []RelativeLandsOnTarget` |
| AssemblerRefinement_proofs | `Refinement` | `Spec => ImplementsTwoPass` |
| | `Tiles` | `Spec => []BlocksTile` |
| SkoolImage_proofs | `PaddingSound` | `SkoolSpec => []AscendingHolesSound` |
| | `PaddingCovered` | `SkoolSpec => []AscendingBlocksCover` |
| | `AscendingIsAssembled` | `SkoolSpec => []AscendingAssembles` |
| | `AscendingIsAssembly` | `SkoolSpec => AscendingRefines` |
| Reassembly_proofs | `CountsLeft` | `FromAssembler` implies `Spec => []CountIsLeft` |
| | `DefinedUnlessMisfit` | `FromAssembler` implies `Spec => []UndefinedOnlyOnMisfit` |
| | `ListingComplete` | `FromAssembler` implies `Spec => []CompleteListing` |
| | `FittingListed` | `Spec => []FittingBlocksListed` |
| Driver_proofs | `ReadTypeCorrect` | `Spec => []ReadTypeOK` |
| | `LineEndedIsDefined` | `Spec => []DefinedIfLineEnded` |
| | `PrintedIsRead` | `Spec => []ReadsWhatIsPrinted` |
| | `SaveStaysInside` | `DriverSpec => []SavesInside` |
| | `RefusalsChangeNothing` | `DriverSpec => []RefusedUnchanged` |
| | `SaveIsPatch` | `DriverSpec => []PatchedAsNamed` |
| | `SessionsSaveAsRuns` | `SessionSpec => [](SavesInside /\ PatchedAsNamed /\ RefusedUnchanged)` |
| | `ListedAgainAsText` | `FromAssembler` and `OneCase` imply `SessionSpec => []ListedAgain` |
| Literals_proofs | `Typed` | `Spec => []TypeOK` |
| | `Written` | `Spec => []ValueAsWritten` |
| | `ValuesOwn` | `Spec => []ValueIsOwn` |
| | `CharactersInBytes` | `Spec => []CharacterInByte` |
| Strings_proofs | `Unescaped` | `Spec => []PushesUnescaped` |

The assumptions are about the widths (`WidthAssumption`: a byte has an even number
of values, a word that many times as many; `SizeAssumption`), about where an origin
may start (`OrgAssumption`), and about the shape of what comes in
(`NameAssumption`, `SourceAssumption`, `FileAssumption`, `BitAssumption`,
`SnapshotAssumption`, `ProgramAssumption`, `DriverAssumption`, `SessionAssumption`,
`LiteralAssumption`, `StringAssumption`). None of them bounds the length of a text,
a file, a program, a session or a literal. Two hypotheses are about tables, and TLC
evaluates them. `FromAssembler` says of the programs what the assembler makes of any
text (see *Listings* below); `MadeAssumption` is that of every program of the runs
listing and session. `OneCase` says that no two cases of the disassembler's switches
have the same label, which C++ requires of a switch; `CaseAssumption` is that of the
tables of `Mnemonics`. `DollarAssumption`, which the refinement needs, is
about the instructions: each passes to `wexpr` the distance by which `$` has to be
put back to the instruction's own address. TLC evaluates it for every text of the
runs of the assembler, and checks it of every row of `Opcodes` as
`DollarAtInstruction` in run listing. `Literals` asks for bytes of at least eight bits,
since the codes of the escapes are numbers below 256.

*Induction over data.* The induction theorems of the library take a predicate,
which the provers cannot instantiate. Those of `Data_proofs` take a set instead:
to show P of every number, `NaturalInduction` is given the subset of Nat where
P holds, and `SubsetInduction` the finite subsets. They rest on the library's
theorem that the finite subsets of a set are well ordered by inclusion.
`Recursion` is from them: a recursive function that the definition only CHOOSEs
does exist. From `Recursion` follow the facts about sums over a finite set, whose
order of addition is a CHOOSE of the library, and about `FlattenSeq`, on which the
blocks, the lengths of DB items and the blocks of a listing rest.

*Assembler.* The inductive invariant `IInv` is `TypeOK /\ HolesSound /\ TodoPending /\
EquOnItsLine /\ Accounted`. `HolesSound` alone is not inductive: a patching step
writes at an address taken from `todo`, so `todo` must be known to be part of
the map of the current loop (`TodoPending`); evaluating an EQU reads the body of
the current line, which must be an EQU (`EquOnItsLine`); and that a block's count
is a natural number needs `_last_size` not to exceed the size (`Accounted`).
The step of each action is a lemma. The heart of it is `PushOpcode`: the new
holes lie in the bytes it pushes, the old ones below them, so no two meet. The
lemmas about arithmetic show that `Wrap`, `CDiv` and `Apply` return an int and
that `ReplaceDollar` returns an expression without `$`.
`SymbolsDisjoint` and `NoDollarDeferred` are proved from `TypeOK` by inductions
of their own; `FixupsWriteOnce` from `IInv` and the order of the three loops.

*Stack.* `AccMatches` compares `_acc` with `Height(e)[pos]`, the height that the
reductions done so far make of an empty stack. They are equal as long as no `$`
can reach `parse_expr`; where one can, the stack may be higher by what an earlier
evaluation left, and that is enough for the operands to be there.
`EntriesFromSource` carries two facts about the text to the maps, that it
divides nowhere and has no `$` where the parser stops at one, since `wexpr` puts
numbers for the `$` of what it records. `AccBalanced` and `UndefinedOnlyFrom`
follow.

*Jumps.* `Landed` says that the displacements stored so far lead to their
labels: those no longer in `todo` in the first loop, all of them after it. It
needs to know what `parse_expr` returns, which `Evaluated` says of an operand
that is one name. Three things are left to show: a distance in reach survives
being cut to a byte and read as a signed one; the rest of the first loop writes
other bytes; and, by `HolesSound`, so do the other two.

*Blocks.* `Expand(mem_type)` is a flattened sequence of runs; a block appended
makes it longer by its count (`ExpandAppend`). `Tiled` says that its length is
`_last_size`, and that between two lines `_last_size` is the size.

*Refinement.* Step for step the program stutters in `TwoPass` until it ends, so
everything is in the invariant that says what the end will be. It has three parts,
one for each way in which the program is not two passes.

`Read` relates the tables to the lines read so far. Every line starts where
`Start` says (`Extent`), its bytes stand there (`Laid`) with the kinds of its block
(`Classified`), the origin, the labels and the EQUs are those of the lines above
(`Origin`, `Labels`, `Equs`), every operand of those lines is in the map for its
kind and nothing else is in the maps (`Recorded`, `Sourced`), and nothing above
would have been refused (`Unrejected`). It holds for every text, whether
`TwoPass` promises anything of it or not.

`Sound` relates values. As long as an expression is reduced, `_acc` is the only
member of `Stacks`, the stacks that the second pass has after as many reductions
(`Stacked`); there is one because nothing traps and no name read so far is without
a meaning. Its top, at the end, is the value (`StackedStep`, `Returned`). That an
EQU has the value `Meanings` gives to its last definition (`EquValues`) is what
makes the next expression's stack right, so both are in the same invariant.

`Patched` relates the patches. Once the text is read, the cells of an operand are
still to be written (`Unwritten`: the keys of the maps whose loop has not been
there) or hold what `Stored` says, for good (`Stands`). By `HolesSound` a step
writes the cells of one operand (`HeldOnce`) and no byte of another. The
same step shows that the operand has no unknown name and its jump is in reach, so
that a text that comes through the loops is not refused by `TwoPass` either, and
the steps that end in an error are each a reason to refuse (`EndsRefused`).

When main has checked the limit the loops are over, so every operand stands; with
`Laid` for the bytes between them, the memory is `FlattenSeq` of the lines'
`Bytes` (`MemoryIs`), and by `Classified` the blocks are their `Kinds` (`KindsAre`).

*Skool.* `SkoolInv` asks nothing of a file that goes back. For the others,
`LineByLine` says where in a line the loader and the assembler are together;
`Placed`, that the end of the memory is the line's address and what has been
pushed of it; `Counted`, that what has been accounted for is the size, or a gap
short of it after a line without bytes. `Placed` is what keeps `resize` from
shrinking the memory: the end of the line before is not past the address of this
one, because the file ascends by at least the length of each line
(`NewSizeGrows`). With it `IInv` survives padding (`PaddingInv`), and the steps of
the assembler keep it by the lemmas of `Assembler_proofs`.

*Files are texts.* Nothing of the refinement is proved again for files: the loader
is shown to be the assembler on the spelled-out text, and what is proved of that is
taken over. `P` is `AssemblerRefinement_proofs` itself, instantiated with that text,
with every lemma and theorem of it; its assumptions are shown to hold of the text
(`TextAssumptions`: a line of a file is one of a text, and a gap is a number because
the file ascends). Each action of the loader has a lemma that makes it an action
of `P` (`DefineLabelSimulates` to `LoaderSimulates`), at the place the text is then
at. The work is in the lines that end: there the loader has counted a gap and the
statement in one block, or nothing at all, and `P` closes the blocks line by line
(`ClosesLine`, `Blocked`). `FirstLine` is the ORG: it sets the same origin, and an ORG
later in the file is refused as a second one is in the text. `PlaceLine` is the DS,
whose length is the gap by `Placed` (`SizeAtPlace`); it takes the 16 bits of an
address to the 16 bits of a length. `FileInv` is `SkoolInv` and, for an ascending
file, the invariant of the refinement of the text, and `LoaderSimulates` makes it
inductive; at the ends it says what `AscendingAssembles` says. `AscendingIsAssembly`
states the simulation itself.

*Listings.* `dump` relies on what the assembler has made, and the theorems say on
what: `FromAssembler`, that every program is `MadeOf` some set of offsets. In a block
of code an instruction begins at the block's first byte and at the end of every
instruction in it, the disassembler has a case for each, and none is longer than
what is left of the block; no block reaches past the memory, and what follows the
last one is zeros. TLC checks that of every program of run listing, built from
every row of `Opcodes` and from skool files (`MadeAssumption`); it is a question to
two tables. Of that, the walk needs only `Fits`, without the zeros: `Begins` is some
set of offsets the blocks fit, and for a program that has one (`Fitting`), whoever
made it, `InStep` is inductive at any length: what is left
of the current block is its end minus the position, an instruction begins at the
position, and what is left of a block of words is even. Where the count is not
zero there is a byte to read, and when the walk stops it is at the end of the last
block. `FittingListed` says so of any memory and blocks; the theorems about programs
of the assembler are that with `AssemblerFits`.

*Snapshot.* What was printed is read back because the iterator and the blocks
read move in step: `ReadSoFar(p, k)` says that after k blocks of the program p the
iterator is at the line end after the k-th line or past it. `BlockTokens` is a
function of the position, so its tokens at 3k + 2, 3k + 3 and 3k + 4 are known
for every k.

*Driver.* `Staged` says what each phase may assume: the limit holds when `save`
starts, and the files are bytes. With it, `SavesInside` is arithmetic. For
`PatchedAsNamed`, `InOrder` relates the pathnames to `argv` as long as no switch
has come before one, and `Saving` says what the buffer and then the file hold.

*Sessions.* `RunsOK` is what every run may assume of the disk the runs before it
left, and of its own arguments: `Staged` and `Saving` of the current run, with
`Stages` for what the phases of a session add. It is inductive without hypotheses,
and gives the properties of single runs for each run of a session. `ListedAgain`
relates the lines of two listings that may be any number of runs apart. They are
compared with a third thing: the walk of `dump` as a function of the program, the
base and the mode. `NextState` is its step, `Walked` says that a state is on it,
and there is only one way to its end (`WalkedOnce`). What is listed need not be the
program p itself. It is enough that the blocks are p's and the memory is p's wherever
it has both (`Agrees`): a snapshot has more behind the program, and one written to a
full disk may end inside it (`Cut`). Each instruction of p that is all there is the
same instruction, for the disassembler looks at no byte past it (`CaseExtends`) and has
one case for it (`OneCase`, `OneRow`), and a line of data ends with its block (`StepAt`,
`Follows`). So a line is the next one of p's walk, or the memory is cut off in it
(`Proceeds`, `Stops`), and `Walking`: the listing of whatever agrees with p is on p's
walk, and its end is the end of that unless p is cut off. A walk never takes back a
line (`WalkGrows`, `WalkedBefore`), which is what a full disk needs besides.
`Recorded` says what the runs have left: the lines of a text are the whole walk of
its program (`TextsListed`), the blocks file has the blocks of the last run that
printed (`PrintedLast`), and a snapshot holds the program of the last run that saved
(`SavedLast`, with what `PatchedAsNamed` says of one run). `Reloaded` puts them
together: what `read_sna` makes of that disk agrees with p, and is not cut off
unless the disk is full, by the same argument as in
*Snapshot*.

*Literals.* `ConvertedAlone`: the value of a literal whose action assigns
`_integer` is a function of the literal, whatever was read before. The rest is
that function. `NumberIs` gives the recursive `Number` its equations for digits of
any length; `ConvertedAsWritten` compares what each action makes of a literal with
what its digits write, in both directions: the limits of `int` and `long` for
numbers, the three times repeated digit of an octal escape, the factor ten of a
hexadecimal one. `CharactersInBytes` adds that a word's width is a multiple of a
byte's.

*Strings.* `Unescapes`: after n erasures, what has been erased and kept of the
string up to some position is its escaping backslashes and its other characters,
and the next search begins where the rest of the string does (`Kept`, `LooksAt`).
The definition counts runs of backslashes and the loop does not; `EscapingNext`
says in its terms what the loop does: a backslash escapes unless the one before
it does.

Left to TLC:

* `FaithfulListing`, `StableListing` and `DollarAtInstruction` compare two tables
  row by row; a proof would be the same enumeration. `MadeOf` and `OneCase` are what
  the walk needs of the tables.
* Liveness (`Termination`, `SkoolEnds`, `ReadingEnds`,
  `UnescapingEnds`), which is out of this prover's reach.

## Findings

1. `SET n,(IX+d)` accepts n from 32768 on (parsers.cpp 1862): the one bit
   instruction whose number is an `int16_t`. Run bits.
2. The hexadecimal listing prints every byte operand as `0h` (disassem.cpp 15),
   which the test program's comparison (test/main.cpp 165) reports. Run
   hexadecimal.
3. `save` is passed `argv[2]` and `argv[3]` whatever they are (main.cpp 138), while
   the number of pathnames is counted without the switches: with a switch among
   them, the file written is named like the switch, and not the one the usage
   line calls the destination. Run destination.

Three things the runs show have no text in the repository to disagree with: an
octal escape is its first digit three times, a hexadecimal one counts its first
digit ten times, and an escape in capitals has the value of the literal before it
(`ValueAsWritten`, `ValueIsOwn`).

## What is not modelled

* The lexer and the LALR tables: they are generated by libraries that are not in
  the repository. A text enters the model as what the actions receive. That a
  production's `_r`, `_dd`, `_integer` and `_plus_minus` are those of its own
  line is therefore assumed; reading the productions, each of those its action
  uses is set by a reduction of its own right-hand side.
* What the lexer makes of characters: that `a&1` is a name and the hexadecimal
  number `&1`, or that a name of letters a to f may be read as a number, are
  questions about its rules. So is which strings and character literals it takes.
* The layout of the listing (`dump_mode::full` prints address and bytes before
  each line) and the wording of messages, line numbers included.
* Which characters of a skool file's line are its address: the model starts
  from the address. An address of six digits, or past 65535, reads as 0.
* In `Driver`, how a text becomes a program: that is `Assembler` and `Skool`, and
  joining them to sessions would multiply their states and show nothing new, since
  `main` passes on the program alone.
* The test program, but for its question. Its tables are data.

## Plan

Everything the source has state for is modelled, and every invariant and action
property that a run checks is proved, but for the comparisons of tables and liveness
named under *Left to TLC*. What can be added is data: more rows if the instruction
set grows, which the runs listing and snapshots and the two hypotheses about tables
then check again.
