------------------------------ MODULE MCSession ------------------------------
(* Single runs with any command line, and sessions that save and reload.  The *)
(* memory of a snapshot is the last twelve bytes of the address space.        *)
EXTENDS Session, SequencesExt

Ram == 65524

MCKind == [p \in {"p.asm", "p.skool", "p.sna", "src.sna", "dst.sna"} |->
             CASE p = "p.asm" -> "assembly" [] p = "p.skool" -> "skool" [] OTHER -> "sna"]

UpTo(n, S) == UNION {[1 .. k -> S] : k \in 0 .. n}
Named == {"src.sna", "dst.sna"}
Pair == UpTo(2, Named \cup Switches)
Triple == UpTo(3, Named \cup {"--blocks", "--hex"})
SingleRuns ==
  {<<>>, <<"src.sna", "src.sna", "src.sna">>, <<"dst.sna">>}
  \cup {<<p>> \o rst : p \in {"p.asm", "p.sna"}, rst \in Pair \cup Triple}
  \cup {<<"p.skool">> \o rst : rst \in UpTo(3, Named)}

\* A text is listed, saved and its blocks printed; the snapshot is listed, as a
\* whole or after its own blocks have been printed again.
SaveOf(p) == <<p, "src.sna", "dst.sna">>
PrintOf(p) == <<p, "--blocks">>
Reloading ==
  {<<<<p>> \o o, SaveOf(p), PrintOf(p), <<"dst.sna">> \o o>> :
     p \in {"p.asm", "p.skool"}, o \in {<<>>, <<"--hex">>, <<"--jr_offset">>}}
  \cup {<<PrintOf("p.asm"), <<"p.asm">>, SaveOf("p.asm"), PrintOf("dst.sna"), <<"dst.sna">>>>}
\* Origins before, at and past the first byte of a snapshot's memory.
Plain ==
  {[org |-> Ram - 4 + o, memory |-> [k \in 1 .. n |-> 100 + k],
    mem_type |-> <<[type |-> "db", count |-> n]>>] :
     o \in {0, 2, 3, 4, 7, 15}, n \in {0, 1, 9, 12}}
Mixed ==
  {[org |-> o, memory |-> <<24, 254, 221, 54, 1, 7, 1, 2, 0, 0>>, mem_type |-> b] :
     o \in {Ram, Ram - 1, Ram + 1},
     b \in {<<[type |-> "code", count |-> 6], [type |-> "dw", count |-> 4]>>,
            <<[type |-> "code", count |-> 6], [type |-> "ds", count |-> 0],
              [type |-> "db", count |-> 2]>>,
            <<[type |-> "db", count |-> 10], [type |-> "db", count |-> 0]>>}}
\* A skool file's gap of one byte before a DW, and a statement after it.
Odd ==
  {[org |-> Ram, memory |-> <<0, 0, 1, 2, 7>>,
    mem_type |-> <<[type |-> "code", count |-> 1], [type |-> "dw", count |-> 3],
                   [type |-> "db", count |-> 1]>>]}
MCPrograms == Plain \cup Mixed \cup Odd
\* They are the assembler's, with the offsets where their instructions begin.
ASSUME CaseAssumption == Listing!OneCase
ASSUME MadeAssumption ==
  \A p \in MCPrograms : \E starts \in {{0, 1}, {0, 2, 6}} : Listing!MadeOf(p, starts)

Snapshot48(n) == [k \in 1 .. n |-> k]
WholeFiles ==
  [p \in {"p.asm", "p.skool", "p.sna", "src.sna"} |->
     IF p = "src.sna" THEN Snapshot48(14) ELSE Snapshot48(5)]
Disk(fs, locked, full, found, tokens) ==
  [files |-> fs, locked |-> locked, full |-> full, found |-> found, tokens |-> tokens]

Tokens48 == BlockTokens(Ram, <<[type |-> "code", count |-> 3]>>)
MCDisks ==
  {Disk(WholeFiles, {}, FALSE, TRUE, Tokens48), Disk(WholeFiles, {}, TRUE, TRUE, Tokens48),
   Disk(WholeFiles, {"dst.sna"}, FALSE, TRUE, Tokens48), Disk(WholeFiles, {}, FALSE, FALSE, <<>>),
   Disk(WholeFiles, {}, FALSE, TRUE, BlockTokens(Ram + 10, <<>>)),
   Disk(WholeFiles, {}, FALSE, TRUE, <<Integer(Ram - 2), [t |-> "name", s |-> "db"]>>),
   Disk([p \in {"src.sna", "p.asm", "p.skool"} |-> Snapshot48(7)], {}, FALSE, TRUE, <<>>)}

MCSessions ==
  {[commands |-> <<c>>, disk |-> d] : c \in SingleRuns, d \in MCDisks}
  \cup {[commands |-> s, disk |-> d] : s \in Reloading, d \in {d \in MCDisks : ~d.found \/ d.full}}
MCCommandLines == SingleRuns \cup UNION {ToSet(s) : s \in Reloading}
=============================================================================
