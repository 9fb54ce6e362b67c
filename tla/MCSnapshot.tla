----------------------------- MODULE MCSnapshot -----------------------------
(* Blocks files: what dump_blocks prints, and any other tokens. *)
EXTENDS Snapshot

Memories == {<<>>, <<1>>, <<1, 2, 3>>, <<1, 2, 3, 4, 5>>}

UpTo(n, S) == UNION {[1 .. k -> S] : k \in 0 .. n}

PrintedBlocks ==
  UpTo(2, [type : Types, count : {0, 3}]) \cup UpTo(3, [type : {"code", "dw"}, count : {1}])
PrintedPrograms ==
  {[org |-> o, memory |-> <<>>, mem_type |-> b] : o \in {0, 15}, b \in PrintedBlocks}

\* 20 is past a uint16_t, 40 past an int, 70 past a size_t.
AnyTokens ==
  {Integer(v) : v \in {2, 20, 40, 70}} \cup {[t |-> "name", s |-> n] : n \in {"code", "dw", "text"}}
  \cup {NewLine} \cup {Other(s) : s \in {"white", "plus", "minus", "mark"}}

File(bytes, found, tokens) == [bytes |-> bytes, found |-> found, tokens |-> tokens]
BlockFiles ==
  {File(<<9, 9, 1>>, TRUE, BlockTokens(p.org, p.mem_type)) : p \in PrintedPrograms}
  \cup {File(<<9, 9, 1>>, TRUE, t) : t \in UpTo(4, AnyTokens)}
  \cup {File(bytes, found, <<Integer(5)>>) : bytes \in Memories, found \in BOOLEAN}
=============================================================================
