-------------------------------- MODULE Driver --------------------------------
(***************************************************************************)
(* main.cpp: the arguments, the loader they choose, the size limit, and    *)
(* the output they choose.  save, which copies the program into a          *)
(* snapshot, is here; read_sna is Snapshot's, and phase is shared with it. *)
(* What a text is loaded as (Assembler, Skool) is one of Programs; the     *)
(* listing (Dump) begins at "list".                                        *)
(***************************************************************************)
EXTENDS Snapshot

CONSTANTS
  RamStart,       \* the address of a snapshot's first byte of memory (16384 in the code)
  Kind,           \* by path, the kind its ending gives: "assembly", "skool" or "sna"
  CommandLines,   \* arguments: argv without the program's own name
  Disks           \* what is on the disk: see IsDisk

VARIABLES
  argv, disk,                            \* the arguments, and the disk at the start
  files,                                 \* the bytes of the files, by path
  arg,                                   \* i, an index into argv
  blocks, base, relative, pathnames,     \* main's, set by the arguments
  buffer                                 \* sna, in save

arguments == <<arg, blocks, base, relative, pathnames>>
driverVars == <<readVars, argv, disk, files, arguments, buffer>>

Paths == DOMAIN Kind
Switches == {"--blocks", "--dec", "--hex", "--jr_offset", "--jr_address"}

\* files, by path; locked, the paths that cannot be opened for writing; full, a
\* disk on which a write may be cut short; the blocks file beside the first file.
IsDisk(d) ==
  /\ DOMAIN d = {"files", "locked", "full", "found", "tokens"}
  /\ DOMAIN d.files \subseteq Paths
  /\ \A p \in DOMAIN d.files : d.files[p] \in Seq(0 .. 255)
  /\ d.locked \subseteq Paths
  /\ d.full \in BOOLEAN /\ d.found \in BOOLEAN
  /\ d.tokens \in Seq(Token)

ASSUME DriverAssumption ==
  /\ RamStart \in 0 .. WordSize
  /\ \A a \in CommandLines : a \in Seq(Paths \cup Switches) /\ (a # <<>> => a[1] \in Paths)
  /\ \A d \in Disks : IsDisk(d)

\* What memory_file maps: an empty file cannot be mapped any more than a missing one.
Bytes(fs, path) == IF path \in DOMAIN fs THEN fs[path] ELSE <<>>

\* A run begins, with the command line argv.
Begin ==
  /\ files = disk.files
  /\ snapshot = [bytes |-> IF argv = <<>> THEN <<>> ELSE Bytes(files, argv[1]),
                 found |-> disk.found, tokens |-> disk.tokens]
  /\ phase = "arguments" /\ pos = 1
  /\ org = 0 /\ memory = <<>> /\ mem_type = <<>>
  /\ arg = 2 /\ blocks = FALSE /\ base = "decimal" /\ relative = "absolute" /\ pathnames = <<>>
  /\ buffer = <<>>

DriverInit == argv \in CommandLines /\ disk \in Disks /\ Begin

-----------------------------------------------------------------------------
(* The arguments. *)

Usage ==
  /\ phase = "arguments" /\ argv = <<>>
  /\ phase' = "error"
  /\ UNCHANGED <<snapshot, pos, program, argv, disk, files, arguments, buffer>>

\* A switch may stand anywhere; of two for the same thing the last one holds.
ReadArgument ==
  LET a == argv[arg] IN
  /\ phase = "arguments" /\ argv # <<>> /\ arg <= Len(argv)
  /\ arg' = arg + 1
  /\ blocks' = (blocks \/ a = "--blocks")
  /\ base' = CASE a = "--dec" -> "decimal" [] a = "--hex" -> "hexadecimal" [] OTHER -> base
  /\ relative' = CASE a = "--jr_offset" -> "offset" [] a = "--jr_address" -> "absolute"
                   [] OTHER -> relative
  /\ pathnames' = IF a \in Switches THEN pathnames ELSE Append(pathnames, a)
  /\ UNCHANGED <<readVars, argv, disk, files, buffer>>

CheckArguments ==
  /\ phase = "arguments" /\ argv # <<>> /\ arg > Len(argv)
  /\ phase' = IF Bytes(files, argv[1]) = <<>> \/ Len(pathnames) \notin {0, 2} THEN "error"
              ELSE IF Kind[argv[1]] = "sna" THEN "load" ELSE "text"
  /\ UNCHANGED <<snapshot, pos, program, argv, disk, files, arguments, buffer>>

-----------------------------------------------------------------------------
(* Loading, and what is done with the program. *)

\* data::parse or parse_skool, then fixup_addresses.  That they may trap, or not
\* end, is shown where they are modelled (UndefinedOnlyFrom, SkoolEnds).
LoadText ==
  /\ phase = "text"
  /\ \/ /\ phase' = "error"
        /\ UNCHANGED program
     \/ \E p \in Programs :
          /\ org' = p.org /\ memory' = p.memory /\ mem_type' = p.mem_type
          /\ phase' = "loaded"
  /\ UNCHANGED <<snapshot, pos, argv, disk, files, arguments, buffer>>

LoadSnapshot == Read /\ UNCHANGED <<argv, disk, files, arguments, buffer>>

Output == IF Len(pathnames) = 2 THEN "save" ELSE IF blocks THEN "print" ELSE "list"

\* CheckLimit, were the comparison off by one.
CheckLimitLate ==
  /\ phase = "loaded"
  /\ phase' = IF org + Len(memory) \in 1 .. WordSize + 1 THEN Output ELSE "error"
  /\ UNCHANGED <<snapshot, pos, program, argv, disk, files, arguments, buffer>>

\* org + size - 1 > 65535, a size_t: nothing at 0 is past the limit as well.
CheckLimit ==
  /\ phase = "loaded"
  /\ phase' = IF org + Len(memory) \in 1 .. WordSize THEN Output ELSE "error"
  /\ UNCHANGED <<snapshot, pos, program, argv, disk, files, arguments, buffer>>

\* --blocks: the program is printed as BlockTokens.
PrintBlocks ==
  /\ phase = "print"
  /\ phase' = "done"
  /\ UNCHANGED <<snapshot, pos, program, argv, disk, files, arguments, buffer>>

\* ptr, as an offset into a snapshot.
Start == Header + org - RamStart

\* Patched, were the header of the file forgotten.
PatchedNoHeader(sna) ==
  [k \in DOMAIN sna |->
     IF k - (Start - Header) \in DOMAIN memory THEN memory[k - (Start - Header)] ELSE sna[k]]

\* sna after the memcpy.
Patched(sna) ==
  [k \in DOMAIN sna |-> IF k - Start \in DOMAIN memory THEN memory[k - Start] ELSE sna[k]]

\* save, to the memcpy: front() of the memory, and no test of where it is copied.
PatchSnapshot ==
  LET sna == Bytes(files, argv[2]) IN
  /\ phase = "save"
  /\ \/ /\ sna = <<>>
        /\ phase' = "error" /\ UNCHANGED buffer
     \/ /\ sna # <<>>
        /\ memory = <<>> \/ Start < 0 \/ Start + Len(memory) > Len(sna)
        /\ phase' = "undefined" /\ UNCHANGED buffer
     \/ /\ sna # <<>> /\ memory # <<>> /\ Start >= 0 /\ Start + Len(memory) <= Len(sna)
        /\ phase' = "write" /\ buffer' = Patched(sna)
  /\ UNCHANGED <<snapshot, pos, program, argv, disk, files, arguments>>

\* The bytes a path holds once it has been opened for writing and written.
Written(path, bytes) ==
  [p \in DOMAIN files \cup {path} |-> IF p = path THEN bytes ELSE files[p]]

\* WriteSnapshot, were the file opened before it is known that it can be written.
WriteSnapshotFirst ==
  /\ phase = "write"
  /\ files' = Written(argv[3], buffer)
  /\ phase' = IF argv[3] \in disk.locked THEN "error" ELSE "done"
  /\ UNCHANGED <<snapshot, pos, program, argv, disk, arguments, buffer>>

\* save, from the fopen: that fwrite may write less is not looked at.
WriteSnapshot ==
  /\ phase = "write"
  /\ \/ /\ argv[3] \in disk.locked
        /\ phase' = "error" /\ UNCHANGED files
     \/ /\ argv[3] \notin disk.locked
        /\ phase' = "done"
        /\ \E n \in 0 .. Len(buffer) :
             /\ n = Len(buffer) \/ disk.full
             /\ files' = Written(argv[3], SubSeq(buffer, 1, n))
  /\ UNCHANGED <<snapshot, pos, program, argv, disk, arguments, buffer>>

Finished == {"list", "done", "error", "undefined"}
Ended == phase \in Finished /\ UNCHANGED driverVars

DriverNext ==
  \/ Usage \/ ReadArgument \/ CheckArguments \/ LoadText \/ LoadSnapshot \/ CheckLimit
  \/ PrintBlocks \/ PatchSnapshot \/ WriteSnapshot \/ Ended

DriverSpec == DriverInit /\ [][DriverNext]_driverVars /\ WF_driverVars(DriverNext)

-----------------------------------------------------------------------------
(* Properties. *)

\* The usage line puts the pathnames before the switches.
UsageOrder ==
  \A i, j \in 2 .. Len(argv) : argv[i] \in Switches /\ argv[j] \notin Switches => j < i

Saved == phase = "done" /\ Len(pathnames) = 2

\* The byte a snapshot has at an address.
Cell(sna, address) == sna[Header + 1 + address - RamStart]

\* A program saved from a command line in the order of the usage line: only the
\* second pathname's file is written, and what a reader of that snapshot finds
\* at an address is the program's byte there, or else the first pathname's; the
\* registers are kept unless the program begins below the snapshot's memory.
PatchedAsNamed ==
  Saved /\ UsageOrder =>
    LET sna == disk.files[pathnames[1]]
        patched == files[pathnames[2]]
    IN /\ \A p \in DOMAIN files \ {pathnames[2]} : files[p] = disk.files[p]
       /\ Len(patched) = Len(sna) \/ (disk.full /\ Len(patched) < Len(sna))
       /\ \A a \in RamStart .. RamStart + Len(patched) - Header - 1 :
            Cell(patched, a) = IF a \in org .. org + Len(memory) - 1 THEN memory[a - org + 1]
                               ELSE Cell(sna, a)
       /\ org >= RamStart => \A k \in 1 .. Header : k <= Len(patched) => patched[k] = sna[k]

\* A run that ends with an error message has changed no file.
RefusedUnchanged == phase = "error" => files = disk.files

ReadPastBlocks == Kind[argv[1]] = "sna" /\ (Tokens = <<>> \/ Tokens[Len(Tokens)] # NewLine)

\* What the missing test in save can meet: an empty program, one that begins
\* below the snapshot, or a snapshot that is cut off.  The limit on the program,
\* tested elsewhere, keeps any other one inside a whole snapshot.
SavesInside ==
  phase = "undefined" =>
    \/ ReadPastBlocks
    \/ memory = <<>> \/ org < RamStart - Header
    \/ Len(Bytes(files, argv[2])) < Header + WordSize - RamStart


\* The file written is the second of the pathnames, as the usage line says.
DestinationNamed ==
  [][\A p \in DOMAIN files' :
       (p \in DOMAIN files /\ files'[p] = files[p]) \/ p = pathnames[2]]_driverVars
=============================================================================
