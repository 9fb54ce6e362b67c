---------------------------- MODULE Strings_proofs ----------------------------
(***************************************************************************)
(* For every set of strings: what a DB pushes of a string is the string    *)
(* without the backslashes that escape.  The loop never counts a run of    *)
(* backslashes; that it takes out every second one of them follows from    *)
(* what it does with the character after the one it erases.                *)
(***************************************************************************)
EXTENDS Strings, Data_proofs

-----------------------------------------------------------------------------
(* Escapes. *)

\* A run of backslashes has a first one.
LEMMA RunStarts ==
  ASSUME string \in Seq(Int), NEW k \in 1 .. Len(string), string[k] = Backslash
  PROVE  \E n \in 1 .. k : /\ \A j \in k - n + 1 .. k : string[j] = Backslash
                           /\ k = n \/ string[k - n] # Backslash
  <1> DEFINE T == {n \in 1 .. k : k = n \/ string[k - n] # Backslash}
  <1>1. k \in Nat /\ k \in T /\ T \subseteq Nat
    OBVIOUS
  <1>2. PICK n \in T : \A m \in T : n <= m
    <2> HIDE DEF T
    <2>. QED
      BY <1>1, LeastNatural
  <1>3. ASSUME NEW j \in k - n + 1 .. k
        PROVE  string[j] = Backslash
    <2>1. CASE j = k
      BY <2>1
    <2>2. CASE j # k
      <3> DEFINE m == k - j
      <3>1. m \in 1 .. k /\ m < n /\ m # k /\ j = k - m
        BY <1>1, <1>2, <2>2
      <3> HIDE DEF m
      <3>2. m \notin T
        BY <1>1, <1>2, <3>1
      <3>. QED
        BY <3>1, <3>2
    <2>. QED
      BY <2>1, <2>2
  <1>. QED
    BY <1>2, <1>3

\* A backslash escapes unless the character before it does.
LEMMA EscapingNext ==
  ASSUME string \in Seq(Int), NEW k \in 1 .. Len(string)
  PROVE  Escaping(k) <=> string[k] = Backslash /\ (k = 1 \/ ~Escaping(k - 1))
  <1>1. k \in Nat /\ k >= 1
    OBVIOUS
  <1>2. ASSUME Escaping(k), k # 1, Escaping(k - 1)
        PROVE  FALSE
    <2>1. PICK n \in 1 .. k :
            /\ n % 2 = 1
            /\ \A j \in k - n + 1 .. k : string[j] = Backslash
            /\ k = n \/ string[k - n] # Backslash
      BY <1>2 DEF Escaping
    <2>2. PICK m \in 1 .. k - 1 :
            /\ m % 2 = 1
            /\ \A j \in (k - 1) - m + 1 .. k - 1 : string[j] = Backslash
            /\ k - 1 = m \/ string[(k - 1) - m] # Backslash
      BY <1>2 DEF Escaping
    <2>3. m + 1 # n
      BY <2>1, <2>2
    <2>4. CASE m + 1 < n
      <3>1. (k - 1) - m \in k - n + 1 .. k /\ k - 1 # m
        BY <1>1, <2>4
      <3>. QED
        BY <2>1, <2>2, <3>1
    <2>5. CASE m + 1 > n
      <3>1. k - n \in (k - 1) - m + 1 .. k - 1 /\ k # n
        BY <1>1, <2>5
      <3>. QED
        BY <2>1, <2>2, <3>1
    <2>. QED
      BY <1>1, <2>3, <2>4, <2>5
  <1>3. ASSUME string[k] = Backslash, k = 1 \/ ~Escaping(k - 1)
        PROVE  Escaping(k)
    <2>1. CASE k = 1 \/ string[k - 1] # Backslash
      <3>1. 1 \in 1 .. k /\ 1 % 2 = 1 /\ \A j \in k - 1 + 1 .. k : j = k
        BY <1>1
      <3>. QED
        BY <1>3, <2>1, <3>1 DEF Escaping
    <2>2. CASE k # 1 /\ string[k - 1] = Backslash
      <3> DEFINE h == k - 1
      <3>1. h \in 1 .. Len(string) /\ string[h] = Backslash /\ h = k - 1
        BY <1>1, <2>2
      <3> HIDE DEF h
      <3>2. PICK m \in 1 .. h : /\ \A j \in h - m + 1 .. h : string[j] = Backslash
                                /\ h = m \/ string[h - m] # Backslash
        BY <3>1, RunStarts
      <3>3. m % 2 # 1
        BY <1>3, <2>2, <3>1, <3>2 DEF Escaping
      <3> DEFINE n == m + 1
      <3>4. n \in 1 .. k /\ n % 2 = 1 /\ k - n = h - m /\ (k = n <=> h = m)
        BY <1>1, <3>1, <3>3
      <3> HIDE DEF n
      <3>5. \A j \in k - n + 1 .. k : j = k \/ j \in h - m + 1 .. h
        BY <1>1, <3>1, <3>4
      <3>. QED
        BY <1>3, <3>2, <3>4, <3>5 DEF Escaping
    <2>. QED
      BY <2>1, <2>2
  <1>4. Escaping(k) => string[k] = Backslash
    BY DEF Escaping
  <1>. QED
    BY <1>2, <1>3, <1>4

LEMMA EscapesType ==
  ASSUME NEW d \in Nat
  PROVE  Escapes(1, d) \in 0 .. d
  <1> DEFINE E == {k \in 1 .. d : Escaping(k)}
  <1>1. IsFiniteSet(1 .. d) /\ Cardinality(1 .. d) = d /\ E \subseteq 1 .. d
    BY FS_Interval
  <1>2. IsFiniteSet(E) /\ Cardinality(E) \in Nat /\ Cardinality(E) <= d
    <2> HIDE DEF E
    <2>. QED
      BY <1>1, FS_Subset, FS_CardinalityType
  <1>. QED
    BY <1>2 DEF Escapes

\* Characters that do not escape add nothing.
LEMMA EscapesSame ==
  ASSUME NEW d \in Nat, NEW e \in Nat, d <= e, \A k \in d + 1 .. e : ~Escaping(k)
  PROVE  Escapes(1, e) = Escapes(1, d)
  <1>1. {k \in 1 .. d : Escaping(k)} = {k \in 1 .. e : Escaping(k)}
    OBVIOUS
  <1>. QED
    BY <1>1 DEF Escapes

\* The next one that does adds one.
LEMMA EscapesOneMore ==
  ASSUME NEW d \in Nat, NEW p \in Nat, d < p, \A k \in d + 1 .. p - 1 : ~Escaping(k), Escaping(p)
  PROVE  Escapes(1, p) = Escapes(1, d) + 1
  <1> DEFINE E == {k \in 1 .. d : Escaping(k)}
             F == {k \in 1 .. p : Escaping(k)}
  <1>1. F = E \cup {p} /\ p \notin E /\ E \subseteq 1 .. d
    OBVIOUS
  <1>2. IsFiniteSet(1 .. d)
    BY FS_Interval
  <1>3. Cardinality(F) = Cardinality(E) + 1
    <2> HIDE DEF E, F
    <2>1. IsFiniteSet(E)
      BY <1>1, <1>2, FS_Subset
    <2>. QED
      BY <1>1, <2>1, FS_AddElement
  <1>. QED
    BY <1>3 DEF Escapes

-----------------------------------------------------------------------------
(* The loop. *)

LEMMA Suffix ==
  ASSUME NEW s \in Seq(Int), NEW i \in 1 .. Len(s)
  PROVE  /\ SubSeq(s, i + 1, Len(s)) \in Seq(Int)
         /\ Len(SubSeq(s, i + 1, Len(s))) = Len(s) - i
         /\ \A k \in 1 .. Len(s) - i : SubSeq(s, i + 1, Len(s))[k] = s[k + i]
  <1> DEFINE n == Len(s)
             t == [k \in 1 .. n - i |-> s[k + i]]
  <1>1. n \in Nat /\ i \in Nat /\ 1 <= i /\ i <= n /\ n - i \in Nat
    OBVIOUS
  <1>2. SubSeq(s, i + 1, n) = t
    <2>1. SubSeq(s, i + 1, n) = [k \in 1 .. n - (i + 1) + 1 |-> s[i + 1 + k - 1]]
      BY <1>1
    <2>2. n - (i + 1) + 1 = n - i /\ \A k \in 1 .. n - i : i + 1 + k - 1 = k + i
      BY <1>1
    <2>. QED
      BY <2>1, <2>2
  <1>3. \A k \in 1 .. n - i : s[k + i] \in Int
    <2> SUFFICES ASSUME NEW k \in 1 .. n - i PROVE s[k + i] \in Int
      OBVIOUS
    <2>1. k + i \in 1 .. Len(s)
      BY <1>1
    <2>. QED
      BY <2>1
  <1>4. t \in [1 .. n - i -> Int]
    BY <1>3
  <1>5. t \in Seq(Int) /\ Len(t) = n - i
    <2>1. t \in Seq(Int)
      BY <1>1, <1>4
    <2>. QED
      BY <1>1, <1>4, <2>1
  <1>. QED
    BY <1>2, <1>5

\* The sequences one after the other, character by character.
LEMMA Joined ==
  ASSUME NEW a \in Seq(Int), NEW b \in Seq(Int)
  PROVE  /\ a \o b \in Seq(Int) /\ Len(a \o b) = Len(a) + Len(b)
         /\ \A k \in 1 .. Len(a) : (a \o b)[k] = a[k]
         /\ \A k \in 1 .. Len(b) : (a \o b)[Len(a) + k] = b[k]
  OBVIOUS

LEMMA ErasedIs ==
  ASSUME NEW s \in Seq(Int), NEW i \in 1 .. Len(s)
  PROVE  /\ Erased(s, i) \in Seq(Int) /\ Len(Erased(s, i)) = Len(s) - 1
         /\ \A k \in 1 .. Len(s) - 1 : Erased(s, i)[k] = IF k < i THEN s[k] ELSE s[k + 1]
  <1> DEFINE a == SubSeq(s, 1, i - 1)
             b == SubSeq(s, i + 1, Len(s))
             n == Len(s)
             c == a \o b
  <1>1. n \in Nat /\ i \in Nat /\ 1 <= i /\ i <= n
    OBVIOUS
  <1>2. a \in Seq(Int) /\ Len(a) = i - 1 /\ \A k \in 1 .. i - 1 : a[k] = s[k]
    <2>1. i - 1 \in 0 .. Len(s)
      BY <1>1
    <2>. QED
      BY <2>1, FirstPart
  <1>3. b \in Seq(Int) /\ Len(b) = n - i /\ \A k \in 1 .. n - i : b[k] = s[k + i]
    BY Suffix
  <1>4. Erased(s, i) = c
    BY DEF Erased
  <1> HIDE DEF a, b, n
  <1>5. /\ c \in Seq(Int) /\ Len(c) = Len(a) + Len(b)
        /\ \A k \in 1 .. Len(a) : c[k] = a[k]
        /\ \A k \in 1 .. Len(b) : c[Len(a) + k] = b[k]
    BY <1>2, <1>3, Joined
  <1> HIDE DEF c
  <1>6. ASSUME NEW k \in 1 .. n - 1
        PROVE  c[k] = IF k < i THEN s[k] ELSE s[k + 1]
    <2>1. CASE k < i
      <3>1. k \in 1 .. Len(a) /\ k \in 1 .. i - 1
        BY <1>1, <1>2, <2>1
      <3>. QED
        BY <1>2, <1>5, <2>1, <3>1
    <2>2. CASE ~(k < i)
      <3> DEFINE j == k - (i - 1)
      <3>1. j \in 1 .. n - i /\ j \in 1 .. Len(b) /\ j + i = k + 1 /\ k = Len(a) + j
        BY <1>1, <1>2, <1>3, <2>2
      <3> HIDE DEF j
      <3>2. c[Len(a) + j] = b[j]
        BY <1>5, <3>1
      <3>. QED
        BY <1>3, <2>2, <3>1, <3>2
    <2>. QED
      BY <2>1, <2>2
  <1>7. c \in Seq(Int) /\ Len(c) = n - 1
    BY <1>1, <1>2, <1>3, <1>5
  <1>. QED
    BY <1>4, <1>6, <1>7 DEF n

\* s is the string without the n backslashes that escape among its first d
\* characters; the character after the last of them has been passed over.
Kept(s, n, d) ==
  /\ d \in 0 .. Len(string) /\ n = Escapes(1, d)
  /\ s \in Seq(Int) /\ Len(s) = Len(string) - n
  /\ \A k \in d + 1 .. Len(string) : s[k - n] = string[k]
  /\ \A k \in 1 .. d : ~Escaping(k) =>
       /\ k - Escapes(1, k) \in 1 .. d - n
       /\ s[k - Escapes(1, k)] = string[k]
  /\ d # 0 /\ d < Len(string) => ~Escaping(d)

\* d characters of the string have been looked at where find looks next at f.
LooksAt(s, f, n, d) ==
  /\ f \in Nat /\ f >= 1
  /\ IF f > Len(s) THEN d = Len(string) ELSE d = f - 1 + n

Unescapes ==
  /\ string \in Seq(Int)
  /\ \E n, d : Kept(str, n, d) /\ LooksAt(str, from, n, d)
  /\ PushesUnescaped

\* One erasure.
LEMMA ErasesOne ==
  ASSUME string \in Seq(Int), NEW n, NEW d, Kept(str, n, d), LooksAt(str, from, n, d),
         NEW i \in from .. Len(str), Found(i)
  PROVE  \E e : Kept(Erased(str, i), n + 1, e) /\ LooksAt(Erased(str, i), i + 1, n + 1, e)
  <1> DEFINE L == Len(string)
             p == i + n
             e == IF p < L THEN p + 1 ELSE p
             s == Erased(str, i)
  <1>1. /\ L \in Nat /\ d \in Nat /\ d <= L /\ n \in Nat /\ n <= d
        /\ str \in Seq(Int) /\ Len(str) = L - n /\ from \in Nat /\ from >= 1
    BY EscapesType DEF Kept, LooksAt
  <1>2. d = from - 1 + n /\ i \in Nat /\ from <= i /\ i <= L - n
    BY <1>1 DEF LooksAt
  <1>3. p \in Nat /\ d < p /\ p <= L /\ p \in 1 .. L
    BY <1>1, <1>2
  <1>4. /\ s \in Seq(Int) /\ Len(s) = L - n - 1
        /\ \A k \in 1 .. L - n - 1 : s[k] = IF k < i THEN str[k] ELSE str[k + 1]
    <2>1. i \in 1 .. Len(str)
      BY <1>1, <1>2
    <2>. QED
      BY <1>1, <2>1, ErasedIs
  <1>5. \A k \in d + 1 .. L : str[k - n] = string[k]
    BY DEF Kept
  <1>6. \A k \in d + 1 .. p - 1 : string[k] # Backslash /\ ~Escaping(k)
    <2> SUFFICES ASSUME NEW k \in d + 1 .. p - 1
                 PROVE  string[k] # Backslash /\ ~Escaping(k)
      OBVIOUS
    <2>1. k - n \in from .. i - 1 /\ k \in d + 1 .. L
      BY <1>1, <1>2, <1>3
    <2>2. string[k] # Backslash
      BY <1>5, <2>1 DEF Found
    <2>. QED
      BY <2>2 DEF Escaping
  <1>7. Escaping(p)
    <2>1. string[p] = Backslash
      <3>1. p \in d + 1 .. L /\ p - n = i
        BY <1>1, <1>2, <1>3
      <3>. QED
        BY <1>5, <3>1 DEF Found
    <2>2. p # 1 => ~Escaping(p - 1)
      <3>1. CASE p - 1 = d /\ p # 1
        <4>1. d # 0 /\ d < L
          BY <1>1, <1>3, <3>1
        <4>. QED
          BY <3>1, <4>1 DEF Kept
      <3>2. CASE p - 1 # d /\ p # 1
        <4>1. p - 1 \in d + 1 .. p - 1
          BY <1>1, <1>3, <3>2
        <4>. QED
          BY <1>6, <4>1
      <3>. QED
        BY <3>1, <3>2
    <2> HIDE DEF p
    <2>. QED
      BY <1>3, <2>1, <2>2, EscapingNext
  <1>8. p < L => ~Escaping(p + 1)
    <2> SUFFICES ASSUME p < L PROVE ~Escaping(p + 1)
      OBVIOUS
    <2> DEFINE q == p + 1
    <2>1. q \in 1 .. L /\ q # 1 /\ q - 1 = p
      BY <1>1, <1>3
    <2> HIDE DEF q, p
    <2>2. ~Escaping(q)
      BY <1>7, <2>1, EscapingNext
    <2>. QED
      BY <2>2 DEF q
  <1>9. n = Escapes(1, d)
    BY DEF Kept
  <1>10. Escapes(1, p) = n + 1
    <2> HIDE DEF p
    <2>. QED
      BY <1>1, <1>3, <1>6, <1>7, <1>9, EscapesOneMore
  <1> HIDE DEF p, s, L
  <1>11. e \in 0 .. L /\ e \in Nat /\ p <= e /\ e <= p + 1 /\ (e = p \/ e = p + 1)
         /\ (e < L => e = p + 1)
    BY <1>1, <1>3
  <1>12. Escapes(1, e) = n + 1
    <2>1. \A k \in p + 1 .. e : ~Escaping(k)
      BY <1>3, <1>8, <1>11
    <2> HIDE DEF e
    <2>. QED
      BY <1>3, <1>10, <1>11, <2>1, EscapesSame
  <1>13. ASSUME NEW k \in e + 1 .. L
         PROVE  s[k - (n + 1)] = string[k]
    <2>1. e = p + 1
      BY <1>1, <1>11
    <2> DEFINE j == k - (n + 1)
    <2>2. j \in 1 .. L - n - 1 /\ ~(j < i) /\ j + 1 = k - n /\ k \in d + 1 .. L
      BY <1>1, <1>2, <1>3, <2>1 DEF p
    <2> HIDE DEF j
    <2>3. s[j] = str[k - n]
      BY <1>4, <2>2
    <2>. QED
      BY <1>5, <2>2, <2>3 DEF j
  <1>14. ASSUME NEW k \in 1 .. e, ~Escaping(k)
         PROVE  /\ k - Escapes(1, k) \in 1 .. e - (n + 1)
                /\ s[k - Escapes(1, k)] = string[k]
    <2>1. CASE k \in 1 .. d
      <3> DEFINE j == k - Escapes(1, k)
      <3>1. j \in 1 .. d - n /\ str[j] = string[k]
        BY <1>14, <2>1 DEF Kept
      <3>2. j < i /\ j \in 1 .. L - n - 1 /\ j \in 1 .. e - (n + 1)
        BY <1>1, <1>2, <1>3, <1>11, <3>1 DEF p
      <3> HIDE DEF j, e
      <3>3. s[j] = string[k]
        BY <1>4, <3>1, <3>2
      <3>. QED
        BY <3>2, <3>3 DEF j
    <2>2. CASE k \in d + 1 .. p - 1
      <3>1. Escapes(1, k) = n
        <4>1. k \in Nat /\ d <= k /\ \A j \in d + 1 .. k : j \in d + 1 .. p - 1
          BY <1>1, <1>3, <2>2
        <4>2. \A j \in d + 1 .. k : ~Escaping(j)
          BY <1>6, <4>1
        <4>. QED
          BY <1>1, <1>9, <4>1, <4>2, EscapesSame
      <3> DEFINE j == k - n
      <3>2. j < i /\ j \in 1 .. L - n - 1 /\ j \in 1 .. e - (n + 1) /\ k \in d + 1 .. L
        BY <1>1, <1>2, <1>3, <1>11, <2>2 DEF p
      <3>3. str[j] = string[k]
        BY <1>5, <3>2
      <3> HIDE DEF j, e
      <3>4. s[j] = string[k]
        BY <1>4, <3>2, <3>3
      <3>. QED
        BY <3>1, <3>2, <3>4 DEF j
    <2>3. CASE k = p + 1
      <3>1. e = p + 1 /\ p + 1 <= L
        BY <1>3, <1>11, <2>3
      <3>2. Escapes(1, k) = n + 1
        BY <1>12, <2>3, <3>1
      <3>3. k - (n + 1) = i /\ i \in 1 .. L - n - 1 /\ i \in 1 .. e - (n + 1)
            /\ i + 1 = k - n /\ k \in d + 1 .. L /\ ~(i < i)
        BY <1>1, <1>2, <1>3, <2>3, <3>1 DEF p
      <3>4. s[i] = str[i + 1] /\ str[k - n] = string[k]
        BY <1>4, <1>5, <3>3
      <3>. QED
        BY <3>2, <3>3, <3>4
    <2>4. k # p
      BY <1>7, <1>14
    <2>. QED
      BY <1>1, <1>3, <1>11, <2>1, <2>2, <2>3, <2>4
  <1>15. e # 0 /\ e < L => ~Escaping(e)
    BY <1>8, <1>11
  <1>16. Len(s) = L - (n + 1)
    BY <1>1, <1>4
  <1>17. Kept(s, n + 1, e)
    <2> HIDE DEF e
    <2>. QED
      BY <1>4, <1>11, <1>12, <1>13, <1>14, <1>15, <1>16 DEF Kept, L
  <1>18. LooksAt(s, i + 1, n + 1, e)
    <2>1. CASE i + 1 > Len(s)
      <3>1. e = L
        BY <1>1, <1>2, <1>3, <1>16, <2>1 DEF p
      <3>. QED
        BY <1>2, <2>1, <3>1 DEF LooksAt, L
    <2>2. CASE ~(i + 1 > Len(s))
      <3>1. e = (i + 1) - 1 + (n + 1)
        BY <1>1, <1>2, <1>3, <1>16, <2>2 DEF p
      <3>. QED
        BY <1>2, <2>2, <3>1 DEF LooksAt
    <2>. QED
      BY <2>1, <2>2
  <1>. QED
    BY <1>17, <1>18 DEF s

\* Where no backslash is left, what is left is what is to be pushed.
LEMMA NoneLeft ==
  ASSUME string \in Seq(Int), NEW n, NEW d, Kept(str, n, d), LooksAt(str, from, n, d),
         \A i \in from .. Len(str) : str[i] # Backslash
  PROVE  /\ Len(str) = Len(string) - Escapes(1, Len(string))
         /\ \A k \in DOMAIN string : ~Escaping(k) => str[k - Escapes(1, k)] = string[k]
  <1> DEFINE L == Len(string)
  <1>1. /\ L \in Nat /\ d \in Nat /\ d <= L /\ n \in Nat /\ n <= d /\ DOMAIN string = 1 .. L
        /\ str \in Seq(Int) /\ Len(str) = L - n /\ from \in Nat /\ from >= 1
        /\ n = Escapes(1, d)
    BY EscapesType DEF Kept, LooksAt
  <1>2. \A k \in d + 1 .. L : str[k - n] = string[k] /\ ~Escaping(k)
    <2> SUFFICES ASSUME NEW k \in d + 1 .. L
                 PROVE  str[k - n] = string[k] /\ ~Escaping(k)
      OBVIOUS
    <2>1. str[k - n] = string[k]
      BY DEF Kept
    <2>2. k - n \in from .. Len(str)
      <3>1. CASE from > Len(str)
        <4>1. d = L
          BY <3>1 DEF LooksAt
        <4>. QED
          BY <1>1, <4>1
      <3>2. CASE ~(from > Len(str))
        <4>1. d = from - 1 + n
          BY <3>2 DEF LooksAt
        <4> DEFINE u == Len(str)
        <4>2. /\ L \in Nat /\ d \in Nat /\ n \in Nat /\ from \in Nat
              /\ u = L - n /\ k \in Int /\ d + 1 <= k /\ k <= L
          BY <1>1
        <4> HIDE DEF u, L
        <4>3. k - n \in from .. u
          BY <4>1, <4>2
        <4>. QED
          BY <4>3 DEF u
      <3>. QED
        BY <3>1, <3>2
    <2>. QED
      BY <2>1, <2>2 DEF Escaping
  <1>3. ASSUME NEW e \in d .. L
        PROVE  Escapes(1, e) = n
    <2>1. e \in Nat /\ d <= e /\ \A k \in d + 1 .. e : k \in d + 1 .. L
      BY <1>1
    <2>2. \A k \in d + 1 .. e : ~Escaping(k)
      BY <1>2, <2>1
    <2>. QED
      BY <1>1, <2>1, <2>2, EscapesSame
  <1>4. Escapes(1, L) = n
    <2>1. L \in d .. L
      BY <1>1
    <2>. QED
      BY <1>3, <2>1
  <1>5. ASSUME NEW k \in 1 .. L, ~Escaping(k)
        PROVE  str[k - Escapes(1, k)] = string[k]
    <2>1. CASE k \in 1 .. d
      BY <1>5, <2>1 DEF Kept
    <2>2. CASE k \in d + 1 .. L
      <3>1. k \in d .. L
        BY <1>1, <2>2
      <3>. QED
        BY <1>2, <1>3, <2>2, <3>1
    <2>. QED
      BY <1>1, <2>1, <2>2
  <1>. QED
    BY <1>1, <1>4, <1>5

-----------------------------------------------------------------------------
(* The theorem. *)

LEMMA UnescapesInit == Init => Unescapes
  <1> SUFFICES ASSUME Init PROVE Unescapes
    OBVIOUS
  <1>1. string \in Seq(Int) /\ str = string /\ from = 1 /\ phase = "unescape"
    BY StringAssumption DEF Init
  <1>2. Escapes(1, 0) = 0
    <2>1. Escapes(1, 0) \in 0 .. 0
      BY EscapesType
    <2>. QED
      BY <2>1
  <1>3. Len(string) \in Nat
    BY <1>1
  <1>4. Kept(str, 0, 0)
    BY <1>1, <1>2, <1>3 DEF Kept
  <1>5. LooksAt(str, from, 0, 0)
    BY <1>1, <1>3 DEF LooksAt
  <1>. QED
    BY <1>1, <1>4, <1>5 DEF Unescapes, PushesUnescaped

LEMMA UnescapesStep == Unescapes /\ [Next]_vars => Unescapes'
  <1> SUFFICES ASSUME Unescapes, [Next]_vars PROVE Unescapes'
    OBVIOUS
  <1>1. PICK n, d : Kept(str, n, d) /\ LooksAt(str, from, n, d)
    BY DEF Unescapes
  <1>2. string' = string /\ string \in Seq(Int)
    BY DEF Unescapes, Next, Erase, Push, Ended, vars
  <1>3. \A k : Escaping(k)' <=> Escaping(k)
    BY <1>2 DEF Escaping
  <1>4. \A k : Escapes(1, k)' = Escapes(1, k)
    BY <1>3 DEF Escapes
  <1>5. CASE Erase
    <2>1. PICK i \in from .. Len(str) :
            Found(i) /\ str' = Erased(str, i) /\ from' = i + 1
      BY <1>5 DEF Erase
    <2>2. PICK e : Kept(str', n + 1, e) /\ LooksAt(str', from', n + 1, e)
      BY <1>1, <1>2, <2>1, ErasesOne
    <2>3. Kept(str, n + 1, e)' /\ LooksAt(str, from, n + 1, e)'
      BY <1>2, <1>3, <1>4, <2>2 DEF Kept, LooksAt
    <2>4. phase' # "push"
      BY <1>5 DEF Erase
    <2>. QED
      BY <1>2, <2>3, <2>4 DEF Unescapes, PushesUnescaped
  <1>6. CASE Push
    <2>1. str' = str /\ from' = from
      BY <1>6 DEF Push
    <2>2. Kept(str, n, d)' /\ LooksAt(str, from, n, d)'
      BY <1>1, <1>2, <1>3, <1>4, <2>1 DEF Kept, LooksAt
    <2>3. /\ Len(str) = Len(string) - Escapes(1, Len(string))
          /\ \A k \in DOMAIN string : ~Escaping(k) => str[k - Escapes(1, k)] = string[k]
      BY <1>1, <1>2, <1>6, NoneLeft DEF Push
    <2>4. PushesUnescaped'
      BY <1>2, <1>3, <1>4, <2>1, <2>3 DEF PushesUnescaped
    <2>. QED
      BY <1>2, <2>2, <2>4 DEF Unescapes
  <1>7. CASE UNCHANGED vars
    <2>1. str' = str /\ from' = from /\ phase' = phase
      BY <1>7 DEF vars
    <2>2. Kept(str, n, d)' /\ LooksAt(str, from, n, d)'
      BY <1>1, <1>2, <1>3, <1>4, <2>1 DEF Kept, LooksAt
    <2>3. PushesUnescaped'
      BY <1>2, <1>3, <1>4, <2>1 DEF PushesUnescaped, Unescapes
    <2>. QED
      BY <1>2, <2>2, <2>3 DEF Unescapes
  <1>. QED
    BY <1>5, <1>6, <1>7 DEF Next, Ended

\* What is pushed is the string without the backslashes that escape, in order,
\* for a run of backslashes of any length and one at the very end.
THEOREM Unescaped == Spec => []PushesUnescaped
  <1>1. Unescapes => PushesUnescaped
    BY DEF Unescapes
  <1>. QED
    BY <1>1, UnescapesInit, UnescapesStep, PTL DEF Spec
=============================================================================
