------------------------------ MODULE MCSkool ------------------------------
(* Skool files over the lines of MCAssembler. *)
EXTENDS SkoolImage, MCAssembler

SkoolLines == {
  At("a", Code(Nop)), Line(Code(JrTo(A))), Line(Code(LdN(<<Num(2)>>))), Line(Code(Jp(<<Here>>))),
  Line(Dw(<<A>>)), Line(Equ("a", <<Num(1)>>)), Line(OrgIs(3)), Line(Nothing)}
Addresses == {0, 5, 6, 8, 11, 14}

\* No line, or one to three, each at any of the addresses.
SkoolFiles ==
  {[text |-> [i \in DOMAIN f |-> f[i][1]], address |-> [i \in DOMAIN f |-> f[i][2]]] :
     f \in {<<>>} \cup UpTo(3, SkoolLines \X Addresses)}
SkoolSources == {<<>>} \cup UpTo(3, SkoolLines)
=============================================================================
