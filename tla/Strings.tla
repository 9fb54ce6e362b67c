------------------------------- MODULE Strings -------------------------------
(***************************************************************************)
(* The string of a DB: the loop of parsers.cpp (twice, for the first       *)
(* element of a list and for the others) that takes the backslashes out.   *)
(* It erases the one find has found and looks for the next one past the    *)
(* character after it, so that this one stays even if it is a backslash.   *)
(***************************************************************************)
EXTENDS Integers, Sequences, FiniteSets

CONSTANTS Strings,   \* the characters between the quotes
          Backslash

ASSUME StringAssumption == Strings \subseteq Seq(Int) /\ Backslash \in Int

VARIABLES
  string,   \* what was between the quotes
  str,      \* what is left of it
  from,     \* where find looks next, from 1
  phase     \* "unescape", or "push" once str is pushed byte by byte
vars == <<string, str, from, phase>>

Init == string \in Strings /\ str = string /\ from = 1 /\ phase = "unescape"

\* Where find finds a backslash.
Found(i) ==
  /\ i \in from .. Len(str) /\ str[i] = Backslash
  /\ \A j \in from .. i - 1 : str[j] # Backslash

\* str.erase(i, 1)
Erased(s, i) == SubSeq(s, 1, i - 1) \o SubSeq(s, i + 1, Len(s))

\* Erase, were the next backslash looked for where this one was.
EraseAgain ==
  /\ phase = "unescape"
  /\ \E i \in from .. Len(str) :
       /\ Found(i)
       /\ str' = Erased(str, i)
       /\ from' = i
  /\ UNCHANGED <<string, phase>>

\* Erase, were the backslash only looked for.
EraseNothing == phase = "unescape" /\ (\E i \in from .. Len(str) : Found(i)) /\ UNCHANGED vars

Erase ==
  /\ phase = "unescape"
  /\ \E i \in from .. Len(str) :
       /\ Found(i)
       /\ str' = Erased(str, i)
       /\ from' = i + 1
  /\ UNCHANGED <<string, phase>>

\* find has found nothing; a backslash at the very end leaves from past the end.
Push ==
  /\ phase = "unescape" /\ \A i \in from .. Len(str) : str[i] # Backslash
  /\ phase' = "push"
  /\ UNCHANGED <<string, str, from>>

Ended == phase = "push" /\ UNCHANGED vars

Next == Erase \/ Push \/ Ended

Spec == Init /\ [][Next]_vars /\ WF_vars(Next)

-----------------------------------------------------------------------------
(* Properties. *)

\* The backslashes that escape: those that end an odd run of them.
Escaping(k) ==
  /\ string[k] = Backslash
  /\ \E n \in 1 .. k :
       /\ n % 2 = 1
       /\ \A j \in k - n + 1 .. k : string[j] = Backslash
       /\ k = n \/ string[k - n] # Backslash

Escapes(i, j) == Cardinality({k \in i .. j : Escaping(k)})

\* What is pushed is the string without the backslashes that escape, whatever
\* they stand before: nothing else is lost, and the order is kept.
PushesUnescaped ==
  phase = "push" =>
    /\ Len(str) = Len(string) - Escapes(1, Len(string))
    /\ \A k \in DOMAIN string : ~Escaping(k) => str[k - Escapes(1, k)] = string[k]

\* The loop ends.
UnescapingEnds == <>(phase = "push")
=============================================================================
