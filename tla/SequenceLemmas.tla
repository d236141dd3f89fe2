--------------------------- MODULE SequenceLemmas ---------------------------
(***************************************************************************)
(* What the proofs use of sequences and of counting, for any elements:     *)
(* induction up to a number, as a fact of a set; a function defined by     *)
(* recursion up to a number; the elements of a sequence that is cut,       *)
(* lengthened or joined.                                                   *)
(***************************************************************************)
EXTENDS Integers, SequencesExt, SequenceTheorems, WellFoundedInduction, TLAPS

\* Induction up to n, of a set.
LEMMA CountedUpTo ==
  ASSUME NEW n \in Nat, NEW S, 0 \in S, \A i \in 0 .. n - 1 : i \in S => i + 1 \in S
  PROVE  0 .. n \subseteq S
  <1>. DEFINE T == (0 .. n) \ S
              before == OpToRel(<, Nat)
  <1>1. \A i, j \in Nat : i < j => <<i, j>> \in before
    BY DEF OpToRel
  <1>2. IsWellFoundedOn(before, Nat)
    BY NatLessThanWellFounded
  <1>3. T \subseteq Nat
    OBVIOUS
  <1>. HIDE DEF before
  <1>4. ASSUME T # {} PROVE FALSE
    <2>1. PICK i \in T : \A j \in T : ~(<<j, i>> \in before)
      BY <1>2, <1>3, <1>4, WFMin
    <2>2. i \in 1 .. n /\ i - 1 \in 0 .. n - 1 /\ i - 1 \in Nat /\ i \in Nat
      OBVIOUS
    <2>3. <<i - 1, i>> \in before
      BY <1>1, <2>2
    <2>4. i - 1 \notin T
      BY <2>1, <2>3
    <2>5. i - 1 \in S
      BY <2>2, <2>4
    <2>6. (i - 1) + 1 \in S
      BY <2>2, <2>5
    <2>. QED
      BY <2>2, <2>6
  <1>. QED
    BY <1>4

\* A function by recursion up to n, from a step that is a function too.
Iterates(f, n, x, next) == f[0] = x /\ \A i \in 1 .. n : f[i] = next[i][f[i - 1]]

LEMMA DefinedUpTo ==
  ASSUME NEW n \in Nat, NEW X, NEW x \in X, NEW next \in [1 .. n -> [X -> X]]
  PROVE  \E f \in [0 .. n -> X] : Iterates(f, n, x, next)
  <1>. DEFINE Is(f, k) == f[0] = x /\ \A i \in 1 .. k : f[i] = next[i][f[i - 1]]
              S == {k \in 0 .. n : \E f \in [0 .. k -> X] : Is(f, k)}
  <1>1. 0 \in S
    <2>1. [i \in 0 .. 0 |-> x] \in [0 .. 0 -> X] /\ Is([i \in 0 .. 0 |-> x], 0)
      OBVIOUS
    <2>2. 0 \in 0 .. n
      OBVIOUS
    <2>. HIDE DEF Is
    <2>3. \E f \in [0 .. 0 -> X] : Is(f, 0)
      BY <2>1
    <2>. QED
      BY <2>2, <2>3
  <1>2. ASSUME NEW k \in 0 .. n - 1, k \in S PROVE k + 1 \in S
    <2>1. PICK f \in [0 .. k -> X] : Is(f, k)
      BY <1>2
    <2>. DEFINE g == [i \in 0 .. k + 1 |-> IF i = k + 1 THEN next[k + 1][f[k]] ELSE f[i]]
    <2>2. k + 1 \in 1 .. n /\ f[k] \in X
      OBVIOUS
    <2>3. next[k + 1][f[k]] \in X
      BY <2>2
    <2>4. g \in [0 .. k + 1 -> X]
      BY <2>3
    <2>5. g[0] = x
      BY <2>1
    <2>6. ASSUME NEW i \in 1 .. k + 1 PROVE g[i] = next[i][g[i - 1]]
      <3>1. CASE i = k + 1
        BY <3>1
      <3>2. CASE i \in 1 .. k
        BY <2>1, <3>2
      <3>. QED
        BY <3>1, <3>2
    <2>7. Is(g, k + 1)
      BY <2>5, <2>6
    <2>. HIDE DEF g, Is
    <2>. QED
      BY <2>2, <2>4, <2>7
  <1>3. n \in S
    <2>. HIDE DEF S
    <2>1. 0 .. n \subseteq S
      BY <1>1, <1>2, CountedUpTo
    <2>. QED
      BY <2>1
  <1>. QED
    BY <1>3 DEF Iterates

\* The elements of a sequence, one shorter at its head or one longer at its end.
LEMMA TailElements ==
  ASSUME NEW S, NEW s \in Seq(S), s # <<>>
  PROVE  /\ Tail(s) \in Seq(S) /\ Head(s) = s[1] /\ Head(s) \in S /\ 1 \in DOMAIN s
         /\ Len(Tail(s)) = Len(s) - 1
         /\ \A i \in DOMAIN Tail(s) : i \in Nat /\ i + 1 \in DOMAIN s /\ Tail(s)[i] = s[i + 1]
         /\ \A i \in DOMAIN s : i # 1 => i - 1 \in DOMAIN Tail(s) /\ s[i] = Tail(s)[i - 1]
  BY HeadTailProperties, LenProperties

LEMMA AppendElements ==
  ASSUME NEW S, NEW s \in Seq(S), NEW e \in S
  PROVE  /\ Append(s, e) \in Seq(S) /\ Len(Append(s, e)) = Len(s) + 1
         /\ DOMAIN Append(s, e) = DOMAIN s \cup {Len(s) + 1}
         /\ Append(s, e)[Len(s) + 1] = e
         /\ \A i \in DOMAIN s : Append(s, e)[i] = s[i] /\ i < Len(s) + 1 /\ i \in Nat
         /\ Append(s, e) # <<>>
  BY AppendProperties, LenProperties

LEMMA ConcatElements ==
  ASSUME NEW S, NEW s \in Seq(S), NEW t \in Seq(S)
  PROVE  /\ s \o t \in Seq(S) /\ Len(s \o t) = Len(s) + Len(t)
         /\ \A i \in DOMAIN s : i \in DOMAIN (s \o t) /\ (s \o t)[i] = s[i]
         /\ \A i \in DOMAIN t : i \in Nat /\ Len(s) + i \in DOMAIN (s \o t) /\ (s \o t)[Len(s) + i] = t[i]
         /\ \A i \in DOMAIN (s \o t) : i \in DOMAIN s \/ (i - Len(s) \in DOMAIN t /\ i > Len(s))
  BY ConcatProperties, LenProperties

LEMMA ConcatSecond ==
  ASSUME NEW S, NEW s \in Seq(S), NEW t \in Seq(S), NEW i \in DOMAIN t
  PROVE  i \in Nat /\ Len(s) + i \in DOMAIN (s \o t) /\ (s \o t)[Len(s) + i] = t[i]
  BY ConcatElements

LEMMA LeastElement ==
  ASSUME NEW T, T \subseteq Nat, T # {}
  PROVE  \E i \in T : \A j \in T : i <= j
  <1>. DEFINE before == OpToRel(<, Nat)
  <1>1. \A i, j \in Nat : i < j => <<i, j>> \in before
    BY DEF OpToRel
  <1>2. IsWellFoundedOn(before, Nat)
    BY NatLessThanWellFounded
  <1>. HIDE DEF before
  <1>3. PICK i \in T : \A j \in T : ~(<<j, i>> \in before)
    BY <1>2, WFMin
  <1>4. \A j \in T : i <= j
    <2>1. SUFFICES ASSUME NEW j \in T, ~(i <= j) PROVE FALSE
      OBVIOUS
    <2>2. i \in Nat /\ j \in Nat /\ j < i
      BY <2>1
    <2>. QED
      BY <1>1, <1>3, <2>2
  <1>. QED
    BY <1>4

\* A sequence that is cut after n, and two that are joined.
LEMMA CutElements ==
  ASSUME NEW S, NEW s \in Seq(S), NEW n \in 0 .. Len(s)
  PROVE  /\ SubSeq(s, 1, n) \in Seq(S) /\ SubSeq(s, n + 1, Len(s)) \in Seq(S)
         /\ Len(SubSeq(s, 1, n)) = n /\ Len(SubSeq(s, n + 1, Len(s))) = Len(s) - n
         /\ \A i \in DOMAIN SubSeq(s, 1, n) : i \in DOMAIN s /\ i <= n /\ SubSeq(s, 1, n)[i] = s[i]
         /\ \A i \in DOMAIN SubSeq(s, n + 1, Len(s)) : n + i \in DOMAIN s /\ i \in Nat /\ i > 0
                                                        /\ SubSeq(s, n + 1, Len(s))[i] = s[n + i]
         /\ ToSet(s) = ToSet(SubSeq(s, 1, n)) \cup ToSet(SubSeq(s, n + 1, Len(s)))
  <1>. DEFINE p == SubSeq(s, 1, n)
              r == SubSeq(s, n + 1, Len(s))
  <1>1. Len(s) \in Nat /\ DOMAIN s = 1 .. Len(s) /\ \A i \in 1 .. Len(s) : s[i] \in S
    BY LenProperties
  <1>2. p \in Seq(S) /\ Len(p) = n /\ \A i \in 1 .. n : p[i] = s[i]
    <2>1. \A i \in 1 .. n : s[i] \in S
      BY <1>1
    <2>2. p \in Seq(S) /\ Len(p) = (IF 1 <= n THEN n - 1 + 1 ELSE 0) /\ \A i \in 1 .. n - 1 + 1 : p[i] = s[1 + i - 1]
      <3>. HIDE DEF p
      <3>. QED
        BY <1>1, <2>1, SubSeqProperties DEF p
    <2>. HIDE DEF p
    <2>. QED
      BY <1>1, <2>2
  <1>3. r \in Seq(S) /\ Len(r) = Len(s) - n /\ \A i \in 1 .. Len(s) - n : r[i] = s[n + i]
    <2>1. \A i \in n + 1 .. Len(s) : s[i] \in S
      BY <1>1
    <2>2. /\ r \in Seq(S) /\ Len(r) = (IF n + 1 <= Len(s) THEN Len(s) - (n + 1) + 1 ELSE 0)
          /\ \A i \in 1 .. Len(s) - (n + 1) + 1 : r[i] = s[(n + 1) + i - 1]
      BY <1>1, <2>1, SubSeqProperties
    <2>. HIDE DEF r
    <2>3. Len(s) - (n + 1) + 1 = Len(s) - n /\ \A i \in Nat : (n + 1) + i - 1 = n + i
      <3>1. Len(s) \in Nat /\ n \in Nat
        BY <1>1
      <3>. QED
        BY <3>1
    <2>4. Len(r) = Len(s) - n
      <3>1. Len(s) \in Nat /\ n \in Nat /\ n <= Len(s)
        BY <1>1
      <3>2. CASE n = Len(s)
        BY <2>2, <3>1, <3>2
      <3>3. CASE n < Len(s)
        <4>1. n + 1 <= Len(s)
          BY <3>1, <3>3
        <4>2. Len(r) = Len(s) - (n + 1) + 1
          BY <2>2, <4>1
        <4>. QED
          BY <2>3, <4>2
      <3>. QED
        BY <3>1, <3>2, <3>3
    <2>5. \A i \in 1 .. Len(s) - n : r[i] = s[n + i]
      <3>1. \A i \in 1 .. Len(s) - n : r[i] = s[(n + 1) + i - 1]
        BY <2>2, <2>3
      <3>. QED
        BY <1>1, <2>3, <3>1
    <2>. QED
      BY <2>2, <2>4, <2>5
  <1>. HIDE DEF p, r
  <1>4. DOMAIN p = 1 .. n /\ DOMAIN r = 1 .. Len(s) - n
    BY <1>2, <1>3, LenProperties
  <1>5. \A i \in DOMAIN p : i \in DOMAIN s /\ i <= n /\ p[i] = s[i]
    BY <1>1, <1>2, <1>4
  <1>6. \A i \in DOMAIN r : n + i \in DOMAIN s /\ i \in Nat /\ i > 0 /\ r[i] = s[n + i]
    BY <1>1, <1>3, <1>4
  <1>7. ASSUME NEW x \in ToSet(s) PROVE x \in ToSet(p) \cup ToSet(r)
    <2>1. PICK i \in 1 .. Len(s) : x = s[i]
      BY <1>1 DEF ToSet
    <2>2. CASE i <= n
      <3>1. i \in DOMAIN p /\ p[i] = x
        BY <1>2, <1>4, <2>1, <2>2
      <3>. QED
        BY <3>1 DEF ToSet
    <2>3. CASE i > n
      <3>1. i - n \in 1 .. Len(s) - n /\ n + (i - n) = i
        BY <1>1, <2>3
      <3>2. i - n \in DOMAIN r /\ r[i - n] = x
        BY <1>3, <1>4, <2>1, <3>1
      <3>. QED
        BY <3>2 DEF ToSet
    <2>. QED
      BY <1>1, <2>2, <2>3
  <1>8. ASSUME NEW x \in ToSet(p) \cup ToSet(r) PROVE x \in ToSet(s)
    BY <1>5, <1>6 DEF ToSet
  <1>9. ToSet(s) = ToSet(p) \cup ToSet(r)
    BY <1>7, <1>8
  <1>. QED
    BY <1>2, <1>3, <1>5, <1>6, <1>9 DEF p, r

LEMMA ConcatSet ==
  ASSUME NEW S, NEW s \in Seq(S), NEW t \in Seq(S)
  PROVE  s \o t \in Seq(S) /\ ToSet(s \o t) = ToSet(s) \cup ToSet(t)
  <1>1. ASSUME NEW x \in ToSet(s \o t) PROVE x \in ToSet(s) \cup ToSet(t)
    <2>1. PICK i \in DOMAIN (s \o t) : x = (s \o t)[i]
      BY DEF ToSet
    <2>2. CASE i \in DOMAIN s
      BY <2>1, <2>2, ConcatElements DEF ToSet
    <2>3. CASE i - Len(s) \in DOMAIN t /\ i > Len(s)
      <3>1. Len(s) \in Nat /\ i \in Nat
        BY <2>1, ConcatElements, LenProperties
      <3>2. (s \o t)[Len(s) + (i - Len(s))] = t[i - Len(s)] /\ Len(s) + (i - Len(s)) = i
        BY <2>3, <3>1, ConcatSecond
      <3>. QED
        BY <2>1, <2>3, <3>2 DEF ToSet
    <2>. QED
      BY <2>1, <2>2, <2>3, ConcatElements
  <1>2. ASSUME NEW x \in ToSet(s) PROVE x \in ToSet(s \o t)
    BY ConcatElements DEF ToSet
  <1>3. ASSUME NEW x \in ToSet(t) PROVE x \in ToSet(s \o t)
    <2>1. PICK i \in DOMAIN t : x = t[i]
      BY DEF ToSet
    <2>2. Len(s) + i \in DOMAIN (s \o t) /\ (s \o t)[Len(s) + i] = t[i]
      BY ConcatSecond
    <2>. QED
      BY <2>1, <2>2 DEF ToSet
  <1>4. s \o t \in Seq(S)
    BY ConcatProperties
  <1>. QED
    BY <1>1, <1>2, <1>3, <1>4

LEMMA SetOfSeq ==
  ASSUME NEW S, NEW s \in Seq(S)
  PROVE  ToSet(s) \subseteq S
  BY LenProperties DEF ToSet

\* A set of numbers up to n has its greatest.
LEMMA GreatestElement ==
  ASSUME NEW n \in Nat, NEW T, T \subseteq 0 .. n, T # {}
  PROVE  /\ Max(T) \in T /\ \A j \in T : j <= Max(T)
  <1>. DEFINE R == {n - i : i \in T}
  <1>1. R \subseteq Nat /\ R # {}
    <2>1. \A i \in T : i \in Nat /\ i <= n
      OBVIOUS
    <2>2. \A i \in T : n - i \in Nat
      BY <2>1
    <2>. QED
      BY <2>2
  <1>. HIDE DEF R
  <1>2. PICK r \in R : \A k \in R : r <= k
    BY <1>1, LeastElement
  <1>3. PICK i \in T : r = n - i
    BY <1>2 DEF R
  <1>4. \A j \in T : i >= j
    <2>1. ASSUME NEW j \in T PROVE i >= j
      <3>1. n - j \in R
        BY DEF R
      <3>2. n - i <= n - j
        BY <1>2, <1>3, <3>1
      <3>3. i \in Nat /\ j \in Nat
        OBVIOUS
      <3>. QED
        BY <3>2, <3>3
    <2>. QED
      BY <2>1
  <1>5. Max(T) \in T /\ \A j \in T : Max(T) >= j
    BY <1>4 DEF Max
  <1>6. \A j \in T : j \in Nat
    OBVIOUS
  <1>. QED
    BY <1>5, <1>6
=============================================================================
