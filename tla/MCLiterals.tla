----------------------------- MODULE MCLiterals -----------------------------
(* Literals of every kind, at the ends of their ranges. *)
EXTENDS Literals

Digits(t, d) == [t |-> t, digits |-> d]
MCLiterals ==
  {Digits("binary", <<1, 0, 0, 0, 0, 0, 0, 1>>), Digits("binary", [k \in 1 .. 8 |-> 1])}
  \cup {Digits("hex", d) : d \in {<<15>>, <<15, 15, 15, 15>>, <<1, 0, 0, 0, 2>>, [k \in 1 .. 6 |-> 9]}}
  \cup {Digits("integer", d) : d \in {<<0>>, <<6, 5, 5, 3, 8>>, <<2, 0, 0, 0, 0, 1>>, <<9, 9, 9, 9, 9, 9, 9>>}}
  \cup {[t |-> "char", code |-> c] : c \in {32, 127, 128, 255}}
  \cup {[t |-> "self", code |-> 92], [t |-> "capital"], [t |-> "lone x"]}
  \cup {[t |-> "letter", letter |-> x] : x \in {"a", "e", "v"}}
  \cup {Digits("number", d) :
          d \in {<<0, 0, 0>>, <<0, 1, 0>>, <<1, 0, 1>>, <<1, 1, 1>>, <<7, 7, 7>>, <<7, 7, 6>>, <<9, 9, 9>>}}
  \cup {[t |-> "x", codes |-> c] :
          c \in {<<48, 57>>, <<48, 70>>, <<48, 97>>, <<49, 48>>, <<65, 70>>, <<102, 102>>}}
=============================================================================
