------------------------------ MODULE TwoPass ------------------------------
(***************************************************************************)
(* What the assembler promises, with no tables of fixups and no order of   *)
(* evaluation: a source text has a memory image, in which                  *)
(*   - every statement's bytes stand where the statements before it end;   *)
(*   - a label is the origin plus its offset, wherever it is used, also    *)
(*     before its definition and before the ORG;                           *)
(*   - the $ of a 16 bit operand is the address of its own statement;      *)
(*   - an EQU sees what precedes it, and a use of its name sees the last   *)
(*     EQU of that name;                                                   *)
(* or it is refused.  Assembling is one step.  Nothing is promised of a    *)
(* text whose evaluation divides by zero or that has a $ where the         *)
(* expression parser cannot take one.                                      *)
(***************************************************************************)
EXTENDS Source, SequencesExt, FiniteSetsExt

VARIABLES
  source, relative,
  status,   \* "running", then "done" or "error"
  image     \* the image, in a set that is empty until it is made

Lines == 1 .. Len(source)
Body(i) == source[i].body
Is(k) == {i \in Lines : Body(i).k = k}
The(S) == CHOOSE x \in S : TRUE

-----------------------------------------------------------------------------
(* First pass: where everything stands. *)

SumOver(f, S) == MapThenSumSet(LAMBDA i : f[i], S)

ItemLength(x) == IF x.k = "string" THEN Len(x.str) ELSE 1
ItemLengths(items) == [j \in DOMAIN items |-> ItemLength(items[j])]

Length(i) ==
  LET b == Body(i) IN
  CASE b.k = "opcode" -> Len(b.form.bytes)
    [] b.k = "db" -> SumOver(ItemLengths(b.items), DOMAIN b.items)
    [] b.k = "ds" -> b.literal % WordSize
    [] b.k = "dw" -> 2 * Len(b.items)
    [] OTHER -> 0

Start(i) == SumOver([j \in Lines |-> Length(j)], 1 .. i - 1)

\* The origin as the lines before line i have set it.
OrgAt(i) ==
  LET orgs == {j \in Is("org") : j < i}
  IN IF orgs = {} THEN DefaultOrg ELSE Body(The(orgs)).literal % WordSize
Org == OrgAt(Len(source) + 1)

LabelLines(n) == {i \in Lines : source[i].label = n}
EquLines(n) == {i \in Is("equ") : Body(i).name = n}

-----------------------------------------------------------------------------
(* Second pass: values.  A name or an expression has one value or none. *)

Reduce(stacks, t, meaning) ==
  CASE t.t = "num" -> {Append(s, t.v) : s \in stacks}
    [] t.t = "name" -> {Append(s, v) : s \in stacks, v \in meaning[t.n]}
    [] t.t = "neg" -> {Append(Front(s), Wrap(-Last(s))) : s \in stacks}
    [] OTHER -> {Append(Front(Front(s)), Apply(t.t, Last(Front(s)), Last(s))) :
                   s \in {s \in stacks : ~Traps(t.t, Last(Front(s)), Last(s))}}

\* What can be on the stack after the first k reductions of e: nothing where a
\* name has no meaning or a division traps.
Stacks(e, meaning) ==
  LET stacks[k \in 0 .. Len(e)] ==
        IF k = 0 THEN {<<>>} ELSE Reduce(stacks[k - 1], e[k], meaning)
  IN stacks

Values(e, meaning) == {Last(s) % WordSize : s \in Stacks(e, meaning)[Len(e)]}

\* Meanings[i]: what names mean to an EQU on line i.  Past the last line, what
\* they mean to every operand.
Meanings[i \in 1 .. Len(source) + 1] ==
  [n \in Names |->
     LET labels == {j \in LabelLines(n) : j < i}
         equs == {j \in EquLines(n) : j < i}
     IN IF labels # {} THEN {OrgAt(i) + (Start(The(labels)) % WordSize)}
        ELSE IF equs # {} THEN Values(Body(Max(equs)).expr, Meanings[Max(equs)])
        ELSE {}]
Final == Meanings[Len(source) + 1]

\* The operands of line i: what is evaluated, what it knows as $, how far into
\* the line it stands and how it is stored.
Operands(i) ==
  LET b == Body(i)
      f == b.form
      Address(o) == (OrgAt(i) + Start(i) + o) % WordSize
      Operand(e, o, how) == [expr |-> e, at |-> o, how |-> how]
  IN CASE b.k = "opcode" ->
            {Operand(f.rel[o], o, "rel") : o \in DOMAIN f.rel}
            \cup {Operand(f.byte[o].expr, o, f.byte[o].op) : o \in DOMAIN f.byte}
            \cup {Operand(ReplaceDollar(f.word[o].expr, Address(0)), o, "word") :
                    o \in DOMAIN f.word}
       [] b.k = "db" ->
            {Operand(b.items[j].expr, SumOver(ItemLengths(b.items), 1 .. j - 1), "+") :
               j \in {j \in DOMAIN b.items : b.items[j].k = "expr"}}
       [] b.k = "dw" ->
            {Operand(ReplaceDollar(b.items[j], Address(2 * (j - 1))), 2 * (j - 1), "word") :
               j \in DOMAIN b.items}
       [] OTHER -> {}

Value(x) == The(Values(x.expr, Final))

\* The distance a JR or DJNZ on line i has to cover to reach an address.
Distance(i, x) == Value(x) - (Org + Start(i) + x.at + 1)

Stored(i, x) ==
  CASE x.how = "rel" ->
         <<(IF relative = "absolute" THEN Distance(i, x) ELSE Value(x)) % ByteSize>>
    [] x.how = "+" -> <<Value(x) % ByteSize>>
    [] x.how = "-" -> <<(-Value(x)) % ByteSize>>
    [] OTHER -> <<Value(x) % ByteSize, Value(x) \div ByteSize>>

-----------------------------------------------------------------------------
(* The image. *)

\* Line i before its operands are known.
Skeleton(i) ==
  LET b == Body(i) IN
  CASE b.k = "opcode" -> b.form.bytes
    [] b.k = "db" -> FlattenSeq([j \in DOMAIN b.items |->
                       IF b.items[j].k = "string" THEN b.items[j].str ELSE <<0>>])
    [] OTHER -> [j \in 1 .. Length(i) |-> 0]

Bytes(i) ==
  [j \in 1 .. Length(i) |->
     LET here == {x \in Operands(i) : j - 1 \in x.at .. x.at + Len(Stored(i, x)) - 1}
     IN IF here = {} THEN Skeleton(i)[j]
        ELSE LET x == The(here) IN Stored(i, x)[j - x.at]]

Kinds(i) == [j \in 1 .. Length(i) |-> IF Body(i).k = "opcode" THEN "code" ELSE Body(i).k]

Image == [org |-> Org,
          memory |-> FlattenSeq([i \in Lines |-> Bytes(i)]),
          kinds |-> FlattenSeq([i \in Lines |-> Kinds(i)])]

-----------------------------------------------------------------------------
(* What is refused, and what is promised nothing. *)

KnownAt(i) == {n \in Names : \E j \in LabelLines(n) \cup EquLines(n) : j < i}
Unknown(t, i) == t.t = "name" /\ t.n \notin KnownAt(i)
UsesUnknown(e, i) == \E j \in DOMAIN e : Unknown(e[j], i)

Clash ==
  \/ Cardinality(Is("org")) > 1
  \/ \E n \in Names : \/ Cardinality(LabelLines(n)) > 1
                      \/ LabelLines(n) # {} /\ EquLines(n) # {}

Unreadable ==
  \/ Is("rejected") # {}
  \/ Clash
  \/ \E i \in Is("equ") : UsesUnknown(Body(i).expr, i)
  \/ \E i \in Lines : \E x \in Operands(i) : x.how \in {"+", "-"} /\ HasDollar(x.expr)

Refused ==
  \/ Unreadable
  \/ \E i \in Lines : \E x \in Operands(i) :
       \/ UsesUnknown(x.expr, Len(source) + 1)
       \/ x.how = "rel" /\ relative = "absolute" /\ ~InReach(Distance(i, x))
  \/ Org + Start(Len(source) + 1) \notin 1 .. WordSize

\* Nothing in e traps before the first name line i does not know.
Evaluates(e, i) ==
  /\ ~HasDollar(e)
  /\ \A k \in DOMAIN e : \/ Stacks(e, Meanings[i])[k] # {}
                         \/ \E j \in 1 .. k : Unknown(e[j], i)

Promised ==
  /\ \A i \in Is("equ") : Evaluates(Body(i).expr, i)
  /\ Unreadable \/ \A i \in Lines : \A x \in Operands(i) : Evaluates(x.expr, Len(source) + 1)

-----------------------------------------------------------------------------
Init ==
  /\ source \in Sources
  /\ relative \in {"offset", "absolute"}
  /\ status = "running" /\ image = {}

Assemble ==
  /\ status = "running"
  /\ Promised => IF Refused THEN status' = "error" /\ image' = {}
                 ELSE status' = "done" /\ image' = {Image}
  /\ UNCHANGED <<source, relative>>

Spec == Init /\ [][Assemble]_<<source, relative, status, image>>
=============================================================================
