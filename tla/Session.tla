------------------------------- MODULE Session -------------------------------
(***************************************************************************)
(* The program run several times over one disk: a program saved into a     *)
(* snapshot, its blocks printed into the file beside it, and the snapshot  *)
(* listed.  Each run is main as Driver has it; where main calls dump, the  *)
(* actions of Dump take over.                                              *)
(***************************************************************************)
EXTENDS Driver

CONSTANTS
  Literals,   \* Opcodes' literals
  Sessions    \* command lines, one for each run, and the disk they find

VARIABLES
  rest,                          \* the command lines still to come
  texts,                         \* what the texts read so far have been loaded as
  runs,                          \* what the runs before this one did
  walk,                          \* the phase of dump
  first, block, count, lines     \* dump's

\* Only the first run of a session may have no argument.
ASSUME SessionAssumption ==
  \A s \in Sessions :
    /\ s.disk \in Disks
    /\ s.commands \in Seq(CommandLines) /\ s.commands # <<>>
    /\ \A i \in 2 .. Len(s.commands) : s.commands[i] # <<>>

Program == [org |-> org, memory |-> memory, mem_type |-> mem_type]
Listing == INSTANCE Reassembly WITH program <- Program, phase <- walk

walkVars == <<walk, first, block, count, lines>>
sessionVars == <<driverVars, rest, texts, runs, walkVars>>

Unlisted == walk = "start" /\ first = 0 /\ block = 0 /\ count = 0 /\ lines = <<>>

SessionInit ==
  /\ \E s \in Sessions : disk = s.disk /\ argv = Head(s.commands) /\ rest = Tail(s.commands)
  /\ Begin
  /\ texts = [t \in {} |-> <<>>]
  /\ runs = <<>>
  /\ Unlisted

-----------------------------------------------------------------------------
(* A run. *)

RunMain ==
  /\ \/ Usage \/ ReadArgument \/ CheckArguments \/ LoadSnapshot \/ CheckLimit
     \/ PrintBlocks \/ PatchSnapshot \/ WriteSnapshot
  /\ UNCHANGED <<rest, texts, runs, walkVars>>

\* What a text is loaded as depends on nothing but the text, the kind of its file
\* and the mode of its relative jumps, which is fixed for a skool file.
TextKey ==
  <<Bytes(files, argv[1]), Kind[argv[1]], IF Kind[argv[1]] = "skool" THEN "absolute" ELSE relative>>

RunLoader ==
  /\ LoadText
  /\ IF TextKey \in DOMAIN texts
     THEN texts[TextKey] = <<phase', program'>> /\ UNCHANGED texts
     ELSE texts' = [t \in DOMAIN texts \cup {TextKey} |->
                      IF t = TextKey THEN <<phase', program'>> ELSE texts[t]]
  /\ UNCHANGED <<rest, runs, walkVars>>

\* dump, to which main passes the program, the base and the mode.
RunDump ==
  /\ phase = "list"
  /\ UNCHANGED <<driverVars, rest, texts, runs>>
  /\ \/ Listing!Start \/ Listing!ListCode \/ Listing!ListDs \/ Listing!ListDb
     \/ Listing!ListDw \/ Listing!Finish

-----------------------------------------------------------------------------
(* From one run to the next. *)

Succeeded == phase = "done" \/ (phase = "list" /\ walk = "done")

\* What main printed with --blocks is in the blocks file before the next run.
NextRun ==
  /\ Succeeded /\ rest # <<>>
  /\ argv' = Head(rest) /\ rest' = Tail(rest)
  /\ disk' = IF Output = "print"
             THEN [disk EXCEPT !.found = TRUE, !.tokens = BlockTokens(org, mem_type)]
             ELSE [disk EXCEPT !.files = files]
  /\ runs' = Append(runs, [argv |-> argv, base |-> base, relative |-> relative, output |-> Output,
                           lines |-> lines, program |-> Program])
  /\ files' = disk'.files
  /\ snapshot' = [bytes |-> Bytes(files', argv'[1]), found |-> disk'.found, tokens |-> disk'.tokens]
  /\ phase' = "arguments" /\ pos' = 1
  /\ org' = 0 /\ memory' = <<>> /\ mem_type' = <<>>
  /\ arg' = 2 /\ blocks' = FALSE /\ base' = "decimal" /\ relative' = "absolute" /\ pathnames' = <<>>
  /\ buffer' = <<>>
  /\ walk' = "start" /\ first' = 0 /\ block' = 0 /\ count' = 0 /\ lines' = <<>>
  /\ UNCHANGED texts

Over == phase \in {"error", "undefined"} \/ walk = "undefined" \/ (Succeeded /\ rest = <<>>)
SessionOver == Over /\ UNCHANGED sessionVars

SessionNext == RunMain \/ RunLoader \/ RunDump \/ NextRun \/ SessionOver

SessionSpec == SessionInit /\ [][SessionNext]_sessionVars /\ WF_sessionVars(SessionNext)

-----------------------------------------------------------------------------
(* Properties. *)

Latest(output) ==
  {i \in DOMAIN runs : /\ runs[i].output = output
                       /\ \A j \in i + 1 .. Len(runs) : runs[j].output # output}

\* The snapshot being listed is the last one saved and the blocks beside it are
\* the last ones printed, both of the program p.
Reloads(p) ==
  /\ phase = "list" /\ Kind[argv[1]] = "sna"
  /\ \E i \in Latest("save") : runs[i].argv[3] = argv[1] /\ runs[i].program = p
  /\ \E i \in Latest("print") : runs[i].program = p

\* The last block has bytes, no other block than a DS has none, and those of a DW
\* come in pairs.
Listable(b) ==
  /\ b # <<>> /\ b[Len(b)].count > 0
  /\ \A k \in DOMAIN b : /\ b[k].count = 0 => b[k].type = "ds"
                         /\ b[k].type = "dw" => b[k].count % 2 = 0

\* The snapshot being listed is of a program that an earlier run listed from its
\* text, in the same way.
Relists(run) ==
  /\ run.output = "list" /\ Kind[run.argv[1]] # "sna" /\ Reloads(run.program)
  /\ run.base = base /\ run.relative = relative
  /\ run.program.org = RamStart /\ Listable(run.program.mem_type)

\* A program that begins where the memory of a snapshot does, saved into one and
\* loaded from there with the blocks printed of it, is listed as it was from its
\* text, line for line: what follows it in the snapshot is not listed, and no
\* file, block or byte is lost on the way.  On a full disk fwrite may have written
\* any part of the snapshot, and no run learns of it: the listing may stop early
\* then, or leave C++, but what it shows are the first lines of the text's.
ListedAgain ==
  \A i \in DOMAIN runs : Relists(runs[i]) =>
    /\ Listing!IsPrefix(lines, runs[i].lines)
    /\ ~disk.full => walk # "undefined" /\ (walk = "done" => lines = runs[i].lines)
=============================================================================
