----------------------------- MODULE MCStrings -----------------------------
(* Every string of up to eight characters, backslashes and two others. *)
EXTENDS Strings

MCStrings == UNION {[1 .. n -> {92, 97, 98}] : n \in 0 .. 8}
=============================================================================
