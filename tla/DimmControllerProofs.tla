-------------------------- MODULE DimmControllerProofs --------------------------
(***************************************************************************)
(* The DIMM controller, for every number of channels, banks, slots and     *)
(* credits: where the code words of the commands are.                      *)
(***************************************************************************)
EXTENDS DimmBench, FiniteSetTheorems, SequenceTheorems, TLAPS

(***************************************************************************)
(* Numbers and recursion.                                                  *)
(***************************************************************************)
\* Every nonempty set of natural numbers has a least element.
LEMMA LeastExists ==
  ASSUME NEW S \in SUBSET Nat, S # {}
  PROVE  \E x \in S : \A y \in S : x <= y
<1>. DEFINE R == OpToRel(<, Nat)
<1>1. IsWellFoundedOn(R, Nat)
  BY NatLessThanWellFounded
<1>2. \A x, y \in Nat : y < x => <<y, x>> \in R
  BY DEF OpToRel
<1>. HIDE DEF R
<1>3. PICK x \in S : \A y \in S : ~(<<y, x>> \in R)
  BY <1>1, WFMin
<1>4. ASSUME NEW y \in S
      PROVE  x <= y
  <2>1. ~(y < x)
    BY <1>2, <1>3
  <2>. QED
    BY <2>1
<1>. QED
  BY <1>4

\* f is the function on 0 .. N that starts with x and goes on by Step.
Recurs(f, x, Step, N) == f = [n \in 0 .. N |-> IF n = 0 THEN x ELSE Step[f[n - 1]]]

\* A function on 0 .. N may be defined by recursion.
LEMMA RecursionExists ==
  ASSUME NEW T, NEW x \in T, NEW Step \in [T -> T], NEW N \in Nat
  PROVE  \E f \in [0 .. N -> T] : Recurs(f, x, Step, N)
<1>. USE DEF Recurs
<1>. DEFINE Has(n) == \E f \in [0 .. n -> T] :
                        f = [i \in 0 .. n |-> IF i = 0 THEN x ELSE Step[f[i - 1]]]
            Bad == {n \in Nat : ~Has(n)}
<1>1. Has(0)
  <2>. DEFINE f == [i \in 0 .. 0 |-> x]
  <2>1. f \in [0 .. 0 -> T]
    OBVIOUS
  <2>2. f = [i \in 0 .. 0 |-> IF i = 0 THEN x ELSE Step[f[i - 1]]]
    OBVIOUS
  <2>. QED
    BY <2>1, <2>2
<1>2. ASSUME NEW n \in Nat, Has(n) PROVE Has(n + 1)
  <2>. PICK f \in [0 .. n -> T] :
         f = [i \in 0 .. n |-> IF i = 0 THEN x ELSE Step[f[i - 1]]]
    BY <1>2
  <2>. DEFINE g == [i \in 0 .. n + 1 |-> IF i = n + 1 THEN Step[f[n]] ELSE f[i]]
  <2>1. g \in [0 .. n + 1 -> T]
    OBVIOUS
  <2>2. ASSUME NEW i \in 0 .. n + 1
        PROVE  g[i] = IF i = 0 THEN x ELSE Step[g[i - 1]]
    <3>1. CASE i = n + 1
      BY <3>1
    <3>2. CASE i \in 0 .. n
      <4>1. f[i] = IF i = 0 THEN x ELSE Step[f[i - 1]]
        BY <3>2
      <4>2. i # 0 => i - 1 \in 0 .. n
        BY <3>2
      <4>. QED
        BY <3>2, <4>1, <4>2
    <3>. QED
      BY <3>1, <3>2
  <2>3. g = [i \in 0 .. n + 1 |-> IF i = 0 THEN x ELSE Step[g[i - 1]]]
    BY <2>2
  <2>. QED
    BY <2>1, <2>3
<1>. HIDE DEF Has
<1>3. SUFFICES ASSUME Bad # {} PROVE FALSE
  BY DEF Has
<1>4. PICK n \in Bad : \A y \in Bad : n <= y
  BY <1>3, LeastExists
<1>5. n # 0 /\ n - 1 \in Nat
  BY <1>1
<1>6. Has(n - 1)
  BY <1>4, <1>5
<1>. QED
  BY <1>2, <1>5, <1>6

(***************************************************************************)
(* Sequences that list the elements of a set.                              *)
(***************************************************************************)
\* q lists the elements of S, each once.
Enumerates(q, S) == q \in Seq(S) /\ IsInjective(q) /\ S \subseteq Range(q)

\* What a sequence lists is what it has elements of.
LEMMA EnumRange ==
  ASSUME NEW q, NEW S, Enumerates(q, S)
  PROVE  /\ S = Range(q) /\ q \in Seq(S) /\ IsInjective(q)
         /\ \A i \in 1 .. Len(q) : q[i] \in S
         /\ q = <<>> <=> S = {}
<1>1. \A i \in 1 .. Len(q) : q[i] \in S
  BY DEF Enumerates
<1>2. DOMAIN q = 1 .. Len(q)
  BY DEF Enumerates
<1>3. S = Range(q)
  BY <1>1, <1>2 DEF Enumerates, Range
<1>4. q = <<>> => S = {}
  BY <1>2, <1>3 DEF Range
<1>5. S = {} => q = <<>>
  BY <1>1, <1>2, EmptySeq DEF Enumerates
<1>. QED
  BY <1>1, <1>3, <1>4, <1>5 DEF Enumerates

\* The same, from a sequence over a larger set.
LEMMA EnumFrom ==
  ASSUME NEW T, NEW q \in Seq(T), IsInjective(q)
  PROVE  Enumerates(q, Range(q))
<1>1. q \in Seq(Range(q))
  <2>1. Len(q) \in Nat /\ q = [i \in 1 .. Len(q) |-> q[i]] /\ DOMAIN q = 1 .. Len(q)
    OBVIOUS
  <2>2. \A i \in 1 .. Len(q) : q[i] \in Range(q)
    BY <2>1 DEF Range
  <2>. QED
    BY <2>1, <2>2, IsASeq
<1>. QED
  BY <1>1 DEF Enumerates

\* Nothing is listed by the empty sequence.
LEMMA EnumEmpty == Enumerates(<<>>, {})
  BY DEF Enumerates, IsInjective, Range

\* A new element goes to the end.
LEMMA EnumAppend ==
  ASSUME NEW q, NEW S, Enumerates(q, S), NEW a, a \notin S
  PROVE  Enumerates(Append(q, a), S \cup {a})
<1>. DEFINE T == S \cup {a}
            p == Append(q, a)
<1>1. q \in Seq(T) /\ a \in T
  BY SeqMonotonic DEF Enumerates
<1>2. /\ p \in Seq(T) /\ Len(p) = Len(q) + 1 /\ Len(q) \in Nat
      /\ \A i \in 1 .. Len(q) : p[i] = q[i]
      /\ p[Len(q) + 1] = a
      /\ DOMAIN p = 1 .. Len(q) + 1 /\ DOMAIN q = 1 .. Len(q)
  <2>. HIDE DEF T
  <2>. QED
    BY <1>1
<1>3. \A i \in 1 .. Len(q) : q[i] \in S
  BY EnumRange
<1>. HIDE DEF p
<1>4. IsInjective(p)
  BY <1>2, <1>3 DEF Enumerates, IsInjective
<1>5. T \subseteq Range(p)
  BY <1>2 DEF Enumerates, Range
<1>. QED
  BY <1>2, <1>4, <1>5 DEF Enumerates, p

\* The first element is taken.
LEMMA EnumTail ==
  ASSUME NEW q, NEW S, Enumerates(q, S), q # <<>>
  PROVE  Head(q) \in S /\ Enumerates(Tail(q), S \ {Head(q)})
<1>. DEFINE a == Head(q)
            p == Tail(q)
<1>1. q \in Seq(S)
  BY DEF Enumerates
<1>2. /\ p \in Seq(S) /\ Len(p) = Len(q) - 1 /\ Len(q) \in Nat \ {0}
      /\ \A i \in 1 .. Len(p) : p[i] = q[i + 1]
      /\ DOMAIN p = 1 .. Len(p) /\ DOMAIN q = 1 .. Len(q)
      /\ a = q[1] /\ a \in S
  BY <1>1
<1>. HIDE DEF a, p
<1>3. \A i \in 1 .. Len(p) : p[i] # a /\ p[i] \in S
  <2>1. \A i \in 1 .. Len(p) : i + 1 \in 1 .. Len(q) /\ i + 1 # 1 /\ 1 \in 1 .. Len(q)
    BY <1>2
  <2>. QED
    BY <1>1, <1>2, <2>1 DEF Enumerates, IsInjective
<1>4. p \in Seq(S \ {a})
  <2>1. p = [i \in 1 .. Len(p) |-> p[i]]
    BY <1>2
  <2>. QED
    BY <1>2, <1>3, <2>1, IsASeq
<1>5. IsInjective(p)
  <2>. SUFFICES ASSUME NEW i \in 1 .. Len(p), NEW j \in 1 .. Len(p), p[i] = p[j]
                PROVE  i = j
    BY <1>2 DEF IsInjective
  <2>1. i + 1 \in 1 .. Len(q) /\ j + 1 \in 1 .. Len(q)
    BY <1>2
  <2>2. i + 1 = j + 1
    BY <1>2, <2>1 DEF Enumerates, IsInjective
  <2>. QED
    BY <2>2
<1>6. ASSUME NEW x \in S \ {a} PROVE x \in Range(p)
  <2>1. PICK i \in 1 .. Len(q) : x = q[i]
    BY <1>2 DEF Enumerates, Range
  <2>2. i # 1
    BY <2>1, <1>2
  <2>3. i - 1 \in 1 .. Len(p) /\ p[i - 1] = q[i]
    BY <1>2, <2>2
  <2>. QED
    BY <1>2, <2>1, <2>3 DEF Range
<1>. QED
  BY <1>2, <1>4, <1>5, <1>6 DEF Enumerates, a, p

\* Two sequences that list disjoint sets, one after the other ...
LEMMA EnumJoin ==
  ASSUME NEW p, NEW A, Enumerates(p, A), NEW q, NEW B, Enumerates(q, B), A \cap B = {}
  PROVE  Enumerates(p \o q, A \cup B)
<1>. DEFINE T == A \cup B
            s == p \o q
<1>1. p \in Seq(T) /\ q \in Seq(T)
  BY SeqMonotonic DEF Enumerates
<1>2. /\ s \in Seq(T) /\ Len(s) = Len(p) + Len(q) /\ Len(p) \in Nat /\ Len(q) \in Nat
      /\ \A i \in 1 .. Len(s) : s[i] = IF i <= Len(p) THEN p[i] ELSE q[i - Len(p)]
      /\ DOMAIN s = 1 .. Len(s) /\ DOMAIN p = 1 .. Len(p) /\ DOMAIN q = 1 .. Len(q)
  <2>. HIDE DEF T
  <2>1. p \in Seq(T) /\ q \in Seq(T)
    BY <1>1
  <2>2. /\ s \in Seq(T) /\ Len(s) = Len(p) + Len(q)
        /\ \A i \in 1 .. Len(s) : s[i] = IF i <= Len(p) THEN p[i] ELSE q[i - Len(p)]
    BY <2>1, ConcatProperties
  <2>. HIDE DEF s
  <2>. QED
    BY <2>1, <2>2, LenProperties
<1>3. (\A i \in 1 .. Len(p) : p[i] \in A) /\ (\A i \in 1 .. Len(q) : q[i] \in B)
  BY EnumRange
<1>. HIDE DEF s
<1>4. IsInjective(s)
  <2>. SUFFICES ASSUME NEW i \in 1 .. Len(s), NEW j \in 1 .. Len(s), s[i] = s[j]
                PROVE  i = j
    BY <1>2 DEF IsInjective
  <2>1. CASE i <= Len(p) /\ j <= Len(p)
    BY <1>2, <2>1 DEF Enumerates, IsInjective
  <2>2. CASE i > Len(p) /\ j > Len(p)
    <3>1. i - Len(p) \in 1 .. Len(q) /\ j - Len(p) \in 1 .. Len(q)
      BY <1>2, <2>2
    <3>2. q[i - Len(p)] = q[j - Len(p)]
      BY <1>2, <2>2
    <3>3. i - Len(p) = j - Len(p)
      BY <1>2, <3>1, <3>2 DEF Enumerates, IsInjective
    <3>. QED
      BY <1>2, <3>3
  <2>3. CASE i <= Len(p) /\ j > Len(p)
    <3>1. i \in 1 .. Len(p) /\ j - Len(p) \in 1 .. Len(q)
      BY <1>2, <2>3
    <3>. QED
      BY <1>2, <1>3, <2>3, <3>1
  <2>4. CASE i > Len(p) /\ j <= Len(p)
    <3>1. j \in 1 .. Len(p) /\ i - Len(p) \in 1 .. Len(q)
      BY <1>2, <2>4
    <3>. QED
      BY <1>2, <1>3, <2>4, <3>1
  <2>. QED
    BY <1>2, <2>1, <2>2, <2>3, <2>4
<1>5. T \subseteq Range(s)
  <2>1. ASSUME NEW x \in A PROVE x \in Range(s)
    <3>1. PICK i \in 1 .. Len(p) : x = p[i]
      BY <1>2 DEF Enumerates, Range
    <3>2. i \in 1 .. Len(s) /\ s[i] = x
      BY <1>2, <3>1
    <3>. QED
      BY <1>2, <3>2 DEF Range
  <2>2. ASSUME NEW x \in B PROVE x \in Range(s)
    <3>1. PICK i \in 1 .. Len(q) : x = q[i]
      BY <1>2 DEF Enumerates, Range
    <3>2. i + Len(p) \in 1 .. Len(s) /\ s[i + Len(p)] = x
      BY <1>2, <3>1
    <3>. QED
      BY <1>2, <3>2 DEF Range
  <2>. QED
    BY <2>1, <2>2
<1>. QED
  BY <1>2, <1>4, <1>5 DEF Enumerates, s

\* ... and the other way round.
LEMMA EnumSplit ==
  ASSUME NEW T, NEW p \in Seq(T), NEW q \in Seq(T), NEW S, Enumerates(p \o q, S)
  PROVE  /\ Enumerates(p, Range(p)) /\ Enumerates(q, Range(q))
         /\ Range(p) \cap Range(q) = {} /\ S = Range(p) \cup Range(q)
<1>. DEFINE s == p \o q
<1>1. /\ s \in Seq(T) /\ Len(s) = Len(p) + Len(q) /\ Len(p) \in Nat /\ Len(q) \in Nat
      /\ \A i \in 1 .. Len(s) : s[i] = IF i <= Len(p) THEN p[i] ELSE q[i - Len(p)]
      /\ DOMAIN s = 1 .. Len(s) /\ DOMAIN p = 1 .. Len(p) /\ DOMAIN q = 1 .. Len(q)
  BY ConcatProperties
<1>2. S = Range(s) /\ IsInjective(s)
  BY EnumRange
<1>. HIDE DEF s
<1>3. \A i \in 1 .. Len(p) : i \in 1 .. Len(s) /\ s[i] = p[i]
  BY <1>1
<1>4. ASSUME NEW i \in 1 .. Len(q)
      PROVE  i + Len(p) \in 1 .. Len(s) /\ s[i + Len(p)] = q[i]
  <2>1. /\ i + Len(p) \in 1 .. Len(s) /\ ~(i + Len(p) <= Len(p))
        /\ i + Len(p) - Len(p) = i
    BY <1>1
  <2>. QED
    BY <1>1, <2>1
<1>5. IsInjective(p)
  BY <1>1, <1>2, <1>3 DEF IsInjective
<1>6. IsInjective(q)
  <2>. SUFFICES ASSUME NEW i \in 1 .. Len(q), NEW j \in 1 .. Len(q), q[i] = q[j]
                PROVE  i = j
    BY <1>1 DEF IsInjective
  <2>1. i + Len(p) = j + Len(p)
    BY <1>1, <1>2, <1>4 DEF IsInjective
  <2>. QED
    BY <1>1, <2>1
<1>7. Enumerates(p, Range(p)) /\ Enumerates(q, Range(q))
  BY <1>5, <1>6, EnumFrom
<1>8. Range(p) \cap Range(q) = {}
  <2>. SUFFICES ASSUME NEW i \in 1 .. Len(p), NEW j \in 1 .. Len(q), p[i] = q[j]
                PROVE  FALSE
    BY <1>1 DEF Range
  <2>1. i = j + Len(p)
    BY <1>1, <1>2, <1>3, <1>4 DEF IsInjective
  <2>. QED
    BY <1>1, <2>1
<1>9. Range(p) \cup Range(q) \subseteq S
  <2>1. ASSUME NEW i \in 1 .. Len(p) PROVE p[i] \in S
    BY <1>1, <1>2, <1>3 DEF Range
  <2>2. ASSUME NEW i \in 1 .. Len(q) PROVE q[i] \in S
    BY <1>1, <1>2, <1>4 DEF Range
  <2>. QED
    BY <1>1, <2>1, <2>2 DEF Range
<1>10. ASSUME NEW x \in S PROVE x \in Range(p) \cup Range(q)
  <2>1. PICK i \in 1 .. Len(s) : x = s[i]
    BY <1>1, <1>2 DEF Range
  <2>2. CASE i <= Len(p)
    BY <1>1, <2>1, <2>2 DEF Range
  <2>3. CASE i > Len(p)
    <3>1. i - Len(p) \in 1 .. Len(q)
      BY <1>1, <2>3
    <3>. QED
      BY <1>1, <2>1, <2>3, <3>1 DEF Range
  <2>. QED
    BY <1>1, <2>2, <2>3
<1>. QED
  BY <1>7, <1>8, <1>9, <1>10

\* How many elements of q are in R.
Marks(q, R) == {i \in DOMAIN q : q[i] \in R}
CountOf(q, R) == Cardinality(Marks(q, R))

\* The count is a number.
LEMMA CountIsNat ==
  ASSUME NEW T, NEW q \in Seq(T), NEW R
  PROVE  IsFiniteSet(Marks(q, R)) /\ CountOf(q, R) \in Nat
<1>1. IsFiniteSet(1 .. Len(q))
  BY FS_Interval
<1>2. Marks(q, R) \in SUBSET (1 .. Len(q))
  BY DEF Marks
<1>3. IsFiniteSet(Marks(q, R))
  BY <1>1, <1>2, FS_Subset
<1>. QED
  BY <1>3, FS_CardinalityType DEF CountOf

\* The counts of two sequences one after the other add up.
LEMMA CountConcat ==
  ASSUME NEW T, NEW p \in Seq(T), NEW q \in Seq(T), NEW R
  PROVE  CountOf(p \o q, R) = CountOf(p, R) + CountOf(q, R)
<1>. DEFINE s == p \o q
            A == Marks(p, R)
            B == {i \in 1 .. Len(s) : i > Len(p) /\ s[i] \in R}
            f == [i \in Marks(q, R) |-> i + Len(p)]
<1>1. /\ s \in Seq(T) /\ Len(s) = Len(p) + Len(q) /\ Len(p) \in Nat /\ Len(q) \in Nat
      /\ \A i \in 1 .. Len(s) : s[i] = IF i <= Len(p) THEN p[i] ELSE q[i - Len(p)]
      /\ DOMAIN s = 1 .. Len(s) /\ DOMAIN p = 1 .. Len(p) /\ DOMAIN q = 1 .. Len(q)
  BY ConcatProperties, LenProperties
<1>. HIDE DEF s
<1>2. Marks(s, R) = A \cup B
  <2>1. ASSUME NEW i \in 1 .. Len(s), i <= Len(p) PROVE i \in 1 .. Len(p) /\ s[i] = p[i]
    BY <1>1, <2>1
  <2>2. ASSUME NEW i \in 1 .. Len(p) PROVE i \in 1 .. Len(s) /\ s[i] = p[i] /\ ~(i > Len(p))
    BY <1>1
  <2>3. \A i \in 1 .. Len(s) : ~(i <= Len(p)) => i > Len(p)
    BY <1>1
  <2>. QED
    BY <1>1, <2>1, <2>2, <2>3 DEF Marks
<1>3. A \cap B = {}
  BY <1>1 DEF Marks
<1>4. f \in Bijection(Marks(q, R), B)
  <2>1. ASSUME NEW i \in Marks(q, R) PROVE i + Len(p) \in B
    <3>1. i \in 1 .. Len(q) /\ q[i] \in R
      BY <1>1 DEF Marks
    <3>2. /\ i + Len(p) \in 1 .. Len(s) /\ ~(i + Len(p) <= Len(p)) /\ i + Len(p) - Len(p) = i
          /\ i + Len(p) > Len(p)
      BY <1>1, <3>1
    <3>. QED
      BY <1>1, <3>1, <3>2
  <2>2. ASSUME NEW j \in B PROVE \E i \in Marks(q, R) : i + Len(p) = j
    <3>1. j - Len(p) \in 1 .. Len(q) /\ ~(j <= Len(p)) /\ j - Len(p) + Len(p) = j
      BY <1>1
    <3>2. s[j] = q[j - Len(p)]
      BY <1>1, <3>1
    <3>. QED
      BY <1>1, <3>1, <3>2 DEF Marks
  <2>3. \A i, j \in Marks(q, R) : i + Len(p) = j + Len(p) => i = j
    BY <1>1 DEF Marks
  <2>. HIDE DEF B
  <2>. QED
    BY <2>1, <2>2, <2>3 DEF Bijection, Injection, Surjection, IsInjective
<1>5. IsFiniteSet(A) /\ IsFiniteSet(Marks(q, R))
  BY CountIsNat
<1>6. IsFiniteSet(B) /\ Cardinality(B) = CountOf(q, R)
  <2>. HIDE DEF f, B
  <2>1. ExistsBijection(Marks(q, R), B)
    BY <1>4 DEF ExistsBijection
  <2>. QED
    BY <1>5, <2>1, FS_Bijection DEF CountOf
<1>7. Cardinality(A \cup B) = Cardinality(A) + Cardinality(B) - Cardinality(A \cap B)
  <2>. HIDE DEF A, B
  <2>. QED
    BY <1>5, <1>6, FS_Union
<1>8. Cardinality(A \cap B) = 0
  BY <1>3, FS_EmptySet
<1>9. CountOf(p, R) \in Nat /\ CountOf(q, R) \in Nat
  BY CountIsNat
<1>. HIDE DEF B
<1>. QED
  BY <1>2, <1>6, <1>7, <1>8, <1>9 DEF CountOf, s

\* One element counts for one or nothing.
LEMMA CountOne ==
  ASSUME NEW x, NEW R
  PROVE  CountOf(<<x>>, R) = IF x \in R THEN 1 ELSE 0
<1>1. CASE x \in R
  <2>1. Marks(<<x>>, R) = {1}
    BY <1>1 DEF Marks
  <2>. QED
    BY <1>1, <2>1, FS_Singleton DEF CountOf
<1>2. CASE x \notin R
  <2>1. Marks(<<x>>, R) = {}
    BY <1>2 DEF Marks
  <2>. QED
    BY <1>2, <2>1, FS_EmptySet DEF CountOf
<1>. QED
  BY <1>1, <1>2

\* An element more.
LEMMA CountAppend ==
  ASSUME NEW T, NEW q \in Seq(T), NEW x \in T, NEW R
  PROVE  CountOf(Append(q, x), R) = CountOf(q, R) + (IF x \in R THEN 1 ELSE 0)
<1>1. Append(q, x) = q \o <<x>> /\ <<x>> \in Seq(T)
  <2>1. <<x>> \in Seq(T)
    OBVIOUS
  <2>. QED
    BY <2>1, AppendIsConcat
<1>2. PICK one : one = <<x>>
  OBVIOUS
<1>3. CountOf(q \o one, R) = CountOf(q, R) + CountOf(one, R)
  BY <1>1, <1>2, CountConcat
<1>4. CountOf(one, R) = IF x \in R THEN 1 ELSE 0
  BY <1>2, CountOne
<1>. QED
  BY <1>1, <1>2, <1>3, <1>4

\* An element less.
LEMMA CountTail ==
  ASSUME NEW T, NEW q \in Seq(T), q # <<>>, NEW R
  PROVE  CountOf(q, R) = (IF Head(q) \in R THEN 1 ELSE 0) + CountOf(Tail(q), R)
<1>1. q = <<Head(q)>> \o Tail(q) /\ <<Head(q)>> \in Seq(T) /\ Tail(q) \in Seq(T)
  <2>1. q = <<Head(q)>> \o Tail(q)
    OBVIOUS
  <2>2. Head(q) \in T /\ Tail(q) \in Seq(T)
    OBVIOUS
  <2>. QED
    BY <2>1, <2>2
<1>2. PICK one, t : one = <<Head(q)>> /\ t = Tail(q)
  OBVIOUS
<1>3. CountOf(one \o t, R) = CountOf(one, R) + CountOf(t, R)
  BY <1>1, <1>2, CountConcat
<1>4. CountOf(one, R) = IF Head(q) \in R THEN 1 ELSE 0
  BY <1>2, CountOne
<1>. QED
  BY <1>1, <1>2, <1>3, <1>4

\* p holds the same entries as q.
SameEntries(p, q) ==
  /\ Len(p) = Len(q)
  /\ \A R : CountOf(p, R) = CountOf(q, R)
  /\ \A S : Enumerates(q, S) => Enumerates(p, S)

\* The first entry that has not expired expires: nothing gets lost.
LEMMA ExpiredOnce ==
  ASSUME NEW T, NEW q \in Seq(T), NEW d \in Seq(T), q # <<>>,
         NEW p, p = Tail(q), NEW e, e = Append(d, Head(q))
  PROVE  /\ p \in Seq(T) /\ e \in Seq(T) /\ e # <<>>
         /\ SameEntries(p \o e, q \o d)
<1>. DEFINE h == Head(q)
<1>1. /\ h \in T /\ p \in Seq(T) /\ e \in Seq(T) /\ e # <<>>
      /\ Len(q) \in Nat /\ Len(d) \in Nat /\ Len(p) = Len(q) - 1 /\ Len(e) = Len(d) + 1
  BY HeadTailProperties
<1>2. Len(p \o e) = Len(q \o d)
  <2>1. Len(p \o e) = Len(p) + Len(e) /\ Len(q \o d) = Len(q) + Len(d)
    BY <1>1, ConcatProperties
  <2>. QED
    BY <1>1, <2>1
<1>3. ASSUME NEW R PROVE CountOf(p \o e, R) = CountOf(q \o d, R)
  <2>. DEFINE one == IF h \in R THEN 1 ELSE 0
  <2>1. CountOf(p \o e, R) = CountOf(p, R) + CountOf(e, R)
    BY <1>1, CountConcat
  <2>2. CountOf(q \o d, R) = CountOf(q, R) + CountOf(d, R)
    BY <1>1, CountConcat
  <2>3. CountOf(e, R) = CountOf(d, R) + one
    BY <1>1, CountAppend
  <2>4. CountOf(q, R) = one + CountOf(p, R)
    BY <1>1, CountTail
  <2>5. one \in Nat /\ CountOf(p, R) \in Nat /\ CountOf(d, R) \in Nat
    BY <1>1, CountIsNat
  <2>. HIDE DEF one
  <2>. QED
    BY <2>1, <2>2, <2>3, <2>4, <2>5
<1>4. ASSUME NEW S, Enumerates(q \o d, S) PROVE Enumerates(p \o e, S)
  <2>1. /\ Enumerates(q, Range(q)) /\ Enumerates(d, Range(d))
        /\ Range(q) \cap Range(d) = {} /\ S = Range(q) \cup Range(d)
    BY <1>4, EnumSplit
  <2>2. h \in Range(q) /\ Enumerates(p, Range(q) \ {h})
    BY <2>1, EnumTail
  <2>3. Enumerates(e, Range(d) \cup {h})
    BY <2>1, <2>2, EnumAppend
  <2>4. Enumerates(p \o e, (Range(q) \ {h}) \cup (Range(d) \cup {h}))
    BY <2>1, <2>2, <2>3, EnumJoin
  <2>5. (Range(q) \ {h}) \cup (Range(d) \cup {h}) = S
    BY <2>1, <2>2
  <2>. QED
    BY <2>4, <2>5
<1>. QED
  BY <1>1, <1>2, <1>3, <1>4 DEF SameEntries
(***************************************************************************)
(* Lists.                                                                  *)
(***************************************************************************)
Entries == [lba : Nat, next : Addr \cup {Nil}]

\* S is the list from h to t through the entries q, in the order of r.
Linked(S, r, h, t, q) ==
  /\ h = Nil <=> S = {}
  /\ t = Nil <=> S = {}
  /\ S # {} => h \in S /\ t \in S
  /\ \A a \in S : r[h] <= r[a] /\ r[a] <= r[t]
  /\ \A a, x \in S : r[a] = r[x] => a = x
  /\ \A a \in S \ {t} :
       /\ q[a].next \in S /\ r[a] < r[q[a].next]
       /\ \A x \in S : r[a] < r[x] => r[q[a].next] <= r[x]

\* The walk along next addresses that ListOf takes, for values of its
\* variables: walks[n] holds the one walk of at most n + 1 addresses.
Grown(w, t, q) == IF w[Len(w)] \in {Nil, t} THEN w ELSE Append(w, q[w[Len(w)]].next)

\* The walks of ListOf are well defined.
LEMMA WalksExist ==
  ASSUME NEW c, NEW b, HasWork(c, b), head[c][b] \in Addr \cup {Nil},
         mCmdQueue \in [Addr -> Entries]
  PROVE  \E walks :
           /\ walks[0] = {<<head[c][b]>>}
           /\ \A n \in 1 .. NumSlots * SlotCws :
                walks[n] = {Grown(w, tail[c][b], mCmdQueue) : w \in walks[n - 1]}
           /\ ListOf(c, b) = CHOOSE w \in walks[NumSlots * SlotCws] : TRUE
<1>. DEFINE h == head[c][b]
            t == tail[c][b]
            N == NumSlots * SlotCws
            X == Seq(Addr \cup {Nil}) \ {<<>>}
            Step == [Y \in SUBSET X |-> {Grown(w, t, mCmdQueue) : w \in Y}]
<1>. USE DEF Entries
<1>1. \A w \in X : Grown(w, t, mCmdQueue) \in X
  <2>. SUFFICES ASSUME NEW w \in X, w[Len(w)] \notin {Nil, t}
                PROVE  Append(w, mCmdQueue[w[Len(w)]].next) \in X
    BY DEF Grown
  <2>1. w[Len(w)] \in Addr
    OBVIOUS
  <2>2. mCmdQueue[w[Len(w)]].next \in Addr \cup {Nil}
    BY <2>1
  <2>. QED
    BY <2>2
<1>2. PICK U, x, S : /\ U = SUBSET X /\ x = {<<h>>} /\ x \in U
                    /\ S = Step /\ S \in [U -> U]
  <2>1. Step \in [SUBSET X -> SUBSET X]
    <3>. HIDE DEF X
    <3>. QED
      BY <1>1
  <2>2. {<<h>>} \in SUBSET X
    OBVIOUS
  <2>. HIDE DEF X, Step
  <2>. QED
    BY <2>1, <2>2
<1>4. N \in Nat
  BY ControllerAssumption
<1>5. PICK f \in [0 .. N -> U] : Recurs(f, x, S, N)
  <2>1. x \in U /\ S \in [U -> U]
    BY <1>2
  <2>. HIDE DEF N
  <2>. QED
    BY <2>1, <1>4, RecursionExists
<1>6. \A n \in 0 .. N :
        f[n] = IF n = 0 THEN {<<h>>} ELSE {Grown(w, t, mCmdQueue) : w \in f[n - 1]}
  <2>. SUFFICES ASSUME NEW n \in 0 .. N, n # 0
                PROVE  f[n] = {Grown(w, t, mCmdQueue) : w \in f[n - 1]}
    BY <1>2, <1>5 DEF Recurs
  <2>1. n - 1 \in 0 .. N
    BY <1>4
  <2>2. f[n - 1] \in SUBSET X /\ f[n] = Step[f[n - 1]]
    <3>. HIDE DEF X, N, Step
    <3>. QED
      BY <1>2, <1>5, <2>1 DEF Recurs
  <2>. HIDE DEF X
  <2>. QED
    BY <2>2
<1>. HIDE DEF N
<1>7. f = [n \in 0 .. N |->
            IF n = 0 THEN {<<h>>}
            ELSE {IF w[Len(w)] \in {Nil, t} THEN w
                  ELSE Append(w, mCmdQueue[w[Len(w)]].next) : w \in f[n - 1]}]
  BY <1>5, <1>6 DEF Grown, Recurs
<1>. DEFINE walks[n \in 0 .. N] ==
        IF n = 0 THEN {<<h>>}
        ELSE {IF w[Len(w)] \in {Nil, t} THEN w
              ELSE Append(w, mCmdQueue[w[Len(w)]].next) : w \in walks[n - 1]}
<1>8. walks = [n \in 0 .. N |->
            IF n = 0 THEN {<<h>>}
            ELSE {IF w[Len(w)] \in {Nil, t} THEN w
                  ELSE Append(w, mCmdQueue[w[Len(w)]].next) : w \in walks[n - 1]}]
  BY <1>7
<1>9. ListOf(c, b) = CHOOSE w \in walks[N] : TRUE
  BY DEF ListOf, N
<1>. HIDE DEF walks
<1>10. walks[0] = {<<h>>}
  BY <1>4, <1>8
<1>11. ASSUME NEW n \in 1 .. N
       PROVE  walks[n] = {Grown(w, t, mCmdQueue) : w \in walks[n - 1]}
  <2>1. n \in 0 .. N /\ n # 0
    BY <1>4
  <2>. QED
    BY <2>1, <1>8 DEF Grown
<1>. QED
  BY <1>9, <1>10, <1>11 DEF N

\* A walk from h that has not passed t.
IsWalk(w, S, h, t, q) ==
  /\ w \in Seq(S) /\ w # <<>> /\ w[1] = h
  /\ \A i \in 1 .. Len(w) - 1 : w[i] # t /\ w[i + 1] = q[w[i]].next

\* A walk that has not reached the tail can be extended.
LEMMA WalkGrows ==
  ASSUME NEW S \in SUBSET Addr, NEW r, NEW h, NEW t, NEW q, Linked(S, r, h, t, q),
         NEW w, IsWalk(w, S, h, t, q)
  PROVE  /\ IsWalk(Grown(w, t, q), S, h, t, q)
         /\ w[Len(w)] = t => Grown(w, t, q) = w
         /\ w[Len(w)] # t => Len(Grown(w, t, q)) = Len(w) + 1
<1>1. w \in Seq(S) /\ Len(w) \in Nat \ {0} /\ w[Len(w)] \in S
  BY DEF IsWalk
<1>2. w[Len(w)] # Nil
  BY <1>1, ControllerAssumption DEF Addr, Nil
<1>3. CASE w[Len(w)] = t
  BY <1>3 DEF Grown
<1>4. CASE w[Len(w)] # t
  <2>. DEFINE x == q[w[Len(w)]].next
              v == Append(w, x)
  <2>1. Grown(w, t, q) = v
    BY <1>2, <1>4 DEF Grown
  <2>2. x \in S
    BY <1>1, <1>4 DEF Linked
  <2>3. /\ v \in Seq(S) /\ Len(v) = Len(w) + 1 /\ v[Len(w) + 1] = x
        /\ \A i \in 1 .. Len(w) : v[i] = w[i]
    <3>. HIDE DEF x
    <3>. QED
      BY <1>1, <2>2, AppendProperties
  <2>. HIDE DEF v
  <2>4. ASSUME NEW i \in 1 .. Len(v) - 1 PROVE v[i] # t /\ v[i + 1] = q[v[i]].next
    <3>1. CASE i = Len(w)
      BY <1>1, <1>4, <2>3, <3>1
    <3>2. CASE i # Len(w)
      <4>1. i \in 1 .. Len(w) - 1 /\ i \in 1 .. Len(w) /\ i + 1 \in 1 .. Len(w)
        BY <1>1, <2>3, <3>2
      <4>. QED
        BY <2>3, <4>1 DEF IsWalk
    <3>. QED
      BY <3>1, <3>2
  <2>5. v # <<>> /\ v[1] = h
    BY <1>1, <2>3 DEF IsWalk
  <2>. QED
    BY <1>4, <2>1, <2>3, <2>4, <2>5 DEF IsWalk
<1>. QED
  BY <1>3, <1>4

\* A walk goes up in the order of the list.
LEMMA WalkGoesUp ==
  ASSUME NEW S \in SUBSET Addr, NEW r \in [Addr -> Nat], NEW h, NEW t, NEW q,
         Linked(S, r, h, t, q), NEW w, IsWalk(w, S, h, t, q),
         NEW i \in 1 .. Len(w), NEW j \in 1 .. Len(w), i < j
  PROVE  r[w[i]] < r[w[j]]
<1>. DEFINE Bad == {k \in Nat : k <= Len(w) /\ i < k /\ ~(r[w[i]] < r[w[k]])}
<1>1. w \in Seq(S) /\ Len(w) \in Nat /\ \A k \in 1 .. Len(w) : w[k] \in S
  BY DEF IsWalk
<1>2. SUFFICES ASSUME Bad # {} PROVE FALSE
  OBVIOUS
<1>3. PICK k \in Bad : \A y \in Bad : k <= y
  BY <1>2, LeastExists
<1>4. k - 1 \in 1 .. Len(w) - 1 /\ k \in 1 .. Len(w) /\ k - 1 + 1 = k /\ k - 1 \in 1 .. Len(w)
  BY <1>1
<1>5. r[w[k - 1]] < r[w[k]]
  <2>1. w[k - 1] \in S \ {t} /\ w[k] = q[w[k - 1]].next
    BY <1>1, <1>4 DEF IsWalk
  <2>. QED
    BY <2>1 DEF Linked
<1>6. /\ r[w[i]] \in Nat /\ r[w[k]] \in Nat /\ r[w[k - 1]] \in Nat
  BY <1>1, <1>4
<1>7. CASE i = k - 1
  BY <1>5, <1>7
<1>8. CASE i # k - 1
  <2>1. k - 1 \in Nat /\ k - 1 <= Len(w) /\ i < k - 1
    BY <1>1, <1>4, <1>8
  <2>2. k - 1 \notin Bad
    BY <1>3, <1>4
  <2>3. r[w[i]] < r[w[k - 1]]
    BY <2>1, <2>2
  <2>. QED
    BY <1>5, <1>6, <2>3
<1>. QED
  BY <1>7, <1>8

\* A walk that has reached the tail has met the whole list.
LEMMA WalkMeetsAll ==
  ASSUME NEW S \in SUBSET Addr, NEW r \in [Addr -> Nat], NEW h, NEW t, NEW q,
         Linked(S, r, h, t, q), NEW w, IsWalk(w, S, h, t, q), w[Len(w)] = t
  PROVE  Enumerates(w, S)
<1>1. /\ w \in Seq(S) /\ Len(w) \in Nat \ {0} /\ DOMAIN w = 1 .. Len(w)
      /\ \A k \in 1 .. Len(w) : w[k] \in S
  BY DEF IsWalk
<1>2. IsInjective(w)
  <2>. SUFFICES ASSUME NEW i \in 1 .. Len(w), NEW j \in 1 .. Len(w), w[i] = w[j]
                PROVE  i = j
    BY <1>1 DEF IsInjective
  <2>1. ~(i < j) /\ ~(j < i)
    <3>1. r[w[i]] = r[w[j]] /\ r[w[i]] \in Nat
      BY <1>1
    <3>2. ~(r[w[i]] < r[w[j]]) /\ ~(r[w[j]] < r[w[i]])
      BY <3>1
    <3>. QED
      BY <3>2, WalkGoesUp
  <2>. QED
    BY <2>1
<1>3. ASSUME NEW x \in S, x \notin Range(w) PROVE FALSE
  <2>. DEFINE Past == {k \in Nat : k \in 1 .. Len(w) /\ r[x] < r[w[k]]}
  <2>0. \A k \in 1 .. Len(w) : w[k] # x
    BY <1>1, <1>3 DEF Range
  <2>1. \A k \in 1 .. Len(w) : r[w[k]] # r[x] /\ r[w[k]] \in Nat /\ r[x] \in Nat
    <3>. SUFFICES ASSUME NEW k \in 1 .. Len(w) PROVE r[w[k]] # r[x] /\ r[w[k]] \in Nat /\ r[x] \in Nat
      OBVIOUS
    <3>1. w[k] \in S /\ w[k] # x
      BY <1>1, <2>0
    <3>. QED
      BY <3>1 DEF Linked
  <2>2. Len(w) \in Past
    <3>1. r[x] <= r[w[Len(w)]]
      BY DEF Linked
    <3>. QED
      BY <1>1, <2>1, <3>1
  <2>3. PICK k \in Past : \A y \in Past : k <= y
    BY <2>2, LeastExists
  <2>4. k # 1
    <3>1. r[w[1]] <= r[x]
      BY DEF Linked, IsWalk
    <3>. QED
      BY <1>1, <2>1, <2>3, <3>1
  <2>5. k - 1 \in 1 .. Len(w) /\ k - 1 \in 1 .. Len(w) - 1 /\ k - 1 + 1 = k /\ k - 1 \notin Past
    BY <1>1, <2>3, <2>4
  <2>6. r[w[k - 1]] < r[x]
    BY <2>1, <2>5
  <2>7. w[k - 1] \in S \ {t} /\ w[k] = q[w[k - 1]].next
    BY <1>1, <2>5 DEF IsWalk
  <2>8. r[w[k]] <= r[x]
    BY <2>6, <2>7 DEF Linked
  <2>. QED
    BY <1>1, <2>1, <2>3, <2>8
<1>. QED
  BY <1>1, <1>2, <1>3 DEF Enumerates

\* A walk is not longer than the command queue.
LEMMA WalkIsShort ==
  ASSUME NEW S \in SUBSET Addr, NEW r \in [Addr -> Nat], NEW h, NEW t, NEW q,
         Linked(S, r, h, t, q), NEW w, IsWalk(w, S, h, t, q)
  PROVE  Len(w) <= NumSlots * SlotCws
<1>. DEFINE N == NumSlots * SlotCws
<1>1. N \in Nat
  BY ControllerAssumption
<1>2. /\ w \in Seq(S) /\ Len(w) \in Nat /\ w \in [1 .. Len(w) -> Addr]
      /\ \A k \in 1 .. Len(w) : w[k] \in S
  BY DEF IsWalk
<1>. HIDE DEF N
<1>3. IsFiniteSet(Addr) /\ Cardinality(Addr) = N
  <2>1. 0 \in Int /\ N - 1 \in Int /\ (0 > N - 1 => N = 0)
    BY <1>1
  <2>2. /\ IsFiniteSet(0 .. N - 1)
        /\ Cardinality(0 .. N - 1) = IF 0 > N - 1 THEN 0 ELSE N - 1 - 0 + 1
    BY <2>1, FS_Interval, Zenon
  <2>3. Cardinality(0 .. N - 1) = N
    BY <1>1, <2>1, <2>2
  <2>. QED
    BY <2>2, <2>3 DEF Addr, N
<1>4. IsFiniteSet(1 .. Len(w)) /\ Cardinality(1 .. Len(w)) = Len(w)
  <2>1. 1 \in Int /\ Len(w) \in Int /\ (1 > Len(w) => Len(w) = 0)
    BY <1>2
  <2>2. /\ IsFiniteSet(1 .. Len(w))
        /\ Cardinality(1 .. Len(w)) = IF 1 > Len(w) THEN 0 ELSE Len(w) - 1 + 1
    BY <2>1, FS_Interval, Zenon
  <2>. QED
    BY <1>2, <2>1, <2>2
<1>5. SUFFICES ASSUME N < Len(w) PROVE FALSE
  BY <1>1, <1>2 DEF N
<1>6. PICK i \in 1 .. Len(w), j \in 1 .. Len(w) : i # j /\ w[i] = w[j]
  BY <1>2, <1>3, <1>4, <1>5, FS_PigeonHole
<1>7. i < j \/ j < i
  BY <1>6
<1>8. r[w[i]] < r[w[j]] \/ r[w[j]] < r[w[i]]
  BY <1>7, WalkGoesUp
<1>9. r[w[i]] = r[w[j]] /\ r[w[i]] \in Nat
  BY <1>2, <1>6
<1>. QED
  BY <1>8, <1>9

\* ListOf finds the whole list, and ends at the tail.
LEMMA ListIsMet ==
  ASSUME NEW c, NEW b, mCmdQueue \in [Addr -> Entries],
         NEW S \in SUBSET Addr, NEW r \in [Addr -> Nat],
         Linked(S, r, head[c][b], tail[c][b], mCmdQueue)
  PROVE  /\ Enumerates(ListOf(c, b), S)
         /\ S # {} => ListOf(c, b)[Len(ListOf(c, b))] = tail[c][b]
<1>1. CASE S = {}
  <2>1. ListOf(c, b) = <<>>
    BY <1>1 DEF Linked, HasWork, ListOf
  <2>. QED
    BY <1>1, <2>1, EnumEmpty
<1>2. CASE S # {}
  <2>. DEFINE h == head[c][b]
              t == tail[c][b]
              N == NumSlots * SlotCws
  <2>1. HasWork(c, b) /\ h \in S
    BY <1>2 DEF Linked, HasWork
  <2>2. PICK walks :
          /\ walks[0] = {<<h>>}
          /\ \A n \in 1 .. N : walks[n] = {Grown(w, t, mCmdQueue) : w \in walks[n - 1]}
          /\ ListOf(c, b) = CHOOSE w \in walks[N] : TRUE
    <3>1. h \in Addr \cup {Nil}
      BY <2>1
    <3>. QED
      BY <2>1, <3>1, WalksExist
  <2>3. N \in Nat
    BY ControllerAssumption
  <2>. HIDE DEF N
  <2>. DEFINE Reach(n) == \E w : /\ walks[n] = {w} /\ IsWalk(w, S, h, t, mCmdQueue)
                                 /\ Len(w) = n + 1 \/ w[Len(w)] = t
              Bad == {n \in Nat : n <= N /\ ~Reach(n)}
  <2>4. Reach(0)
    <3>. DEFINE w == <<h>>
    <3>1. w \in Seq(S) /\ Len(w) = 1 /\ w[1] = h /\ w # <<>>
      BY <2>1
    <3>. HIDE DEF w
    <3>2. IsWalk(w, S, h, t, mCmdQueue)
      BY <3>1 DEF IsWalk
    <3>3. walks[0] = {w}
      BY <2>2 DEF w
    <3>. QED
      BY <3>1, <3>2, <3>3
  <2>5. ASSUME NEW n \in Nat, n # 0, n <= N, Reach(n - 1) PROVE Reach(n)
    <3>1. PICK w : /\ walks[n - 1] = {w} /\ IsWalk(w, S, h, t, mCmdQueue)
                   /\ Len(w) = n - 1 + 1 \/ w[Len(w)] = t
      BY <2>5
    <3>. DEFINE v == Grown(w, t, mCmdQueue)
    <3>2. /\ IsWalk(v, S, h, t, mCmdQueue)
          /\ w[Len(w)] = t => v = w
          /\ w[Len(w)] # t => Len(v) = Len(w) + 1
      <4>. PICK x, y, q : x = h /\ y = t /\ q = mCmdQueue
        OBVIOUS
      <4>1. Linked(S, r, x, y, q) /\ IsWalk(w, S, x, y, q)
        BY <3>1
      <4>. HIDE DEF h, t
      <4>2. /\ IsWalk(Grown(w, y, q), S, x, y, q)
            /\ w[Len(w)] = y => Grown(w, y, q) = w
            /\ w[Len(w)] # y => Len(Grown(w, y, q)) = Len(w) + 1
        BY <4>1, WalkGrows
      <4>. QED
        BY <4>2
    <3>3. walks[n] = {v}
      <4>1. n \in 1 .. N
        BY <2>3, <2>5
      <4>. QED
        BY <2>2, <3>1, <4>1
    <3>. HIDE DEF v
    <3>4. Len(v) = n + 1 \/ v[Len(v)] = t
      BY <3>1, <3>2
    <3>. QED
      BY <3>2, <3>3, <3>4
  <2>. HIDE DEF Reach
  <2>6. Bad = {}
    <3>. SUFFICES ASSUME Bad # {} PROVE FALSE
      OBVIOUS
    <3>1. PICK n \in Bad : \A y \in Bad : n <= y
      BY LeastExists
    <3>2. n # 0 /\ n - 1 \in Nat /\ n - 1 <= N /\ n - 1 \notin Bad
      BY <2>3, <2>4, <3>1
    <3>. QED
      BY <2>5, <3>2
  <2>7. PICK w : /\ walks[N] = {w} /\ IsWalk(w, S, h, t, mCmdQueue)
                 /\ Len(w) = N + 1 \/ w[Len(w)] = t
    <3>1. Reach(N)
      BY <2>3, <2>6
    <3>. QED
      BY <3>1 DEF Reach
  <2>8. ListOf(c, b) = w
    BY <2>2, <2>7
  <2>9. w[Len(w)] = t
    <3>1. Len(w) <= N
      BY <2>7, WalkIsShort DEF N
    <3>. QED
      BY <2>3, <2>7, <3>1
  <2>10. Enumerates(w, S)
    BY <2>7, <2>9, WalkMeetsAll
  <2>. QED
    BY <2>8, <2>9, <2>10
<1>. QED
  BY <1>1, <1>2

(***************************************************************************)
(* The invariant.  place says where each address of the command queue is   *)
(* on its way through the controller, r in which order the code words of a *)
(* list were linked.                                                       *)
(***************************************************************************)
Held   == {"disp", "ascq", "alcq", "mgr", "pw", "pr"}
Places == {"none", "list"} \cup Held
ReadPlaces  == {"ONFI_READ_COMMAND", "readSent", "ONFI_BANK_SELECT_COMMAND", "selectSent"}
WritePlaces == {"ONFI_WRITE_COMMAND", "writeSent"}

Commands == [cmd : {"NONE", "READ", "WRITE"}, cnt : 0 .. SlotCws, id : Nat]
QueueOf(T) == [run : Seq(T), due : Seq(T)]
IsFcn(f) == f = [x \in DOMAIN f |-> f[x]]

\* What the entries of queue q are: of the others any value will do.
Suits(q, T) ==
  /\ q[1] \in {"pendingWrite", "pendingRead"} => T = Addr
  /\ q[1] = "checkResp" => T = {"READ", "WRITE"}
  /\ q[1] = "completion" => T = Slot
QueuesTyped(pq) ==
  /\ IsFcn(pq) /\ Peqs \subseteq DOMAIN pq
  /\ \A q \in Peqs : \E T : Suits(q, T) /\ pq[q] \in QueueOf(T)

\* The processes that run only when their timer has expired.
TimedNames == {"pendingWrite", "pendingRead"} \cup DeviceProcs
TimedProcs == (TimedNames \X Chan) \cup {Completion}
\* Names of timers: nothing but time notifies them.
TimerNames == TimedNames \cup {"completion", "mcore_thread", "testCase"}
Asleep(p) == p \notin runnable /\ waiting[p] = {p}

\* A process that has nothing to take is asleep.
Wakes ==
  /\ QueuesTyped(peq)
  /\ IsFcn(waiting) /\ ControllerProcs \subseteq DOMAIN waiting
  /\ \A e \in pending : e[1] \notin TimerNames
  /\ \A p \in TimedProcs : peq[p].due = <<>> => Asleep(p)

TableTyped ==
  /\ mCmdQueue \in [Addr -> Entries] /\ mSlotTable \in [Slot -> Commands]
  /\ head \in [Chan -> [Bank -> Addr \cup {Nil}]]
  /\ tail \in [Chan -> [Bank -> Addr \cup {Nil}]]
LocalsTyped ==
  /\ dispatch \in [Chan -> [at : {"check", "bank", "push"}, bank : Bank,
                            addr : Addr \cup {Nil}]]
  /\ manager \in [Chan -> [at : {"top", "long"} \cup ReadPlaces \cup WritePlaces,
                           addr : Addr \cup {Nil}]]
  /\ mAscq \in [Chan -> Seq(Addr)] /\ mAlcq \in [Chan -> Seq(Addr)]
  /\ mAvailableCredit \in [Chan -> Nat]
DoneTyped ==
  /\ mIntermediateQueue \in [Slot -> 0 .. SlotCws]
  /\ mSlotNumQueue \in Seq(Slot) /\ mCompletionQueue \in Seq(Slot)
  /\ mCompletionQueue_mcore \in [Slot -> BOOLEAN]
  /\ IsFcn(mDataBuffer) /\ DOMAIN mDataBuffer = Addr

ChanOf(a) == LbaChan(mCmdQueue[a].lba)
In(place, c, p) == {a \in Addr : place[a] = p /\ ChanOf(a) = c}
Listed(place, c, b) == {a \in Addr : place[a] = "list" /\ ChanOf(a) = c /\ BankOf(a) = b}
Left(place, s) == {a \in Addr : place[a] # "none" /\ SlotOf(a) = s}

\* What place p of channel c holds, in order.
Content(c, p) ==
  CASE p = "disp" -> IF dispatch[c].at = "push" THEN <<dispatch[c].addr>> ELSE <<>>
    [] p = "mgr" -> IF manager[c].at \in {"top", "long"} THEN <<>>
                    ELSE <<manager[c].addr>>
    [] p = "ascq" -> mAscq[c]
    [] p = "alcq" -> mAlcq[c]
    [] p = "pw" -> Timed(PendingW(c))
    [] p = "pr" -> Timed(PendingR(c))

\* Every code word is where place says, once.
Located(place) ==
  /\ place \in [Addr -> Places]
  /\ \A c \in Chan, p \in Held : Enumerates(Content(c, p), In(place, c, p))

\* The lists of the banks: m is above the ranks given out.
Lists(place, r, m) ==
  /\ r \in [Addr -> Nat] /\ m \in Nat /\ \A a \in Addr : r[a] < m
  /\ \A c \in Chan, b \in Bank :
       Linked(Listed(place, c, b), r, head[c][b], tail[c][b], mCmdQueue)

\* Reads and writes take their own ways.
KindFits(a, p) ==
  /\ p # "none" => Kind(a) \in {"READ", "WRITE"}
  /\ p \in {"ascq", "pr"} => Kind(a) = "READ"
  /\ p = "pw" => Kind(a) = "WRITE"
ManagerFits(c) ==
  /\ manager[c].at \in ReadPlaces => Kind(manager[c].addr) = "READ"
  /\ manager[c].at \in WritePlaces => Kind(manager[c].addr) = "WRITE"
Kinds(place) ==
  /\ \A a \in Addr : KindFits(a, place[a])
  /\ \A c \in Chan : ManagerFits(c)

\* The countdown of slot s, and what is said of finished slots.
Counted(place, s) ==
  IF mIntermediateQueue[s] # 0
  THEN Cardinality(Left(place, s)) = mIntermediateQueue[s]
  ELSE Cardinality(Left(place, s)) \in {0, mSlotTable[s].cnt}
reported == mSlotNumQueue \o mCompletionQueue
Reports(place) ==
  /\ IsInjective(reported)
  /\ \A s \in Slot :
       /\ s \in Range(reported) \/ mCompletionQueue_mcore[s] => Left(place, s) = {}
       /\ s \in Range(reported) => ~mCompletionQueue_mcore[s]
  /\ Len(mSlotNumQueue) = Len(Timed(Completion))
Finished(place) == (\A s \in Slot : Counted(place, s)) /\ Reports(place)

\* A write's data stays in the buffer until the device has it.
NeedsData == {"list", "disp", "alcq", "mgr"}
DataHeld(place) ==
  \A a \in Addr : place[a] \in NeedsData /\ Kind(a) = "WRITE" => mDataBuffer[a] = Word(a)

\* The credits that reads have in the places that hold them.
All(e) == e.run \o e.due
Reading == {a \in Addr : Kind(a) = "READ"}
HasCredit == {"ONFI_READ_COMMAND", "readSent", "ONFI_BANK_SELECT_COMMAND"}
Managed(c)   == IF manager[c].at \in HasCredit THEN 1 ELSE 0
ReadTimed(c) == Len(All(peq[PendingR(c)]))
LongReads(c) == CountOf(mAlcq[c], Reading)
Selects(c)   == Len(All(peq[<<"memRead", c>>]))
Answers(c)   == CountOf(All(peq[<<"checkResp", c>>]), {"READ"})
CreditUse(c) == Managed(c) + ReadTimed(c) + LongReads(c) + Selects(c) + Answers(c)
CreditsKept == \A c \in Chan : mAvailableCredit[c] + CreditUse(c) = Credit

Typed == Wakes /\ TableTyped /\ LocalsTyped /\ DoneTyped
DimmInv(place, r, m) ==
  /\ Typed /\ Located(place) /\ Lists(place, r, m) /\ Kinds(place)
  /\ Finished(place) /\ DataHeld(place) /\ CreditsKept

\* Slot s is the host's: nothing of its command is in the controller.
Idle(place, s) ==
  /\ Left(place, s) = {} /\ s \notin Range(reported) /\ ~mCompletionQueue_mcore[s]

\* Slot s as the host sees it.
StateOf(place, s) ==
  IF s \in Range(reported) \/ mCompletionQueue_mcore[s] THEN "done"
  ELSE IF Left(place, s) # {} THEN "busy" ELSE "idle"

(***************************************************************************)
(* Payload event queues and the kernel.                                    *)
(***************************************************************************)
\* Process names.
LEMMA Names ==
  /\ TimedProcs \subseteq Peqs /\ TimedProcs \subseteq ControllerProcs
  /\ \A p \in TimedProcs : p[1] \in TimerNames
  /\ \A c \in Chan :
       /\ {PendingW(c), PendingR(c), <<"ackWrite", c>>, <<"ackRead", c>>,
           <<"memRead", c>>, <<"accRead", c>>, <<"accWrite", c>>} \subseteq TimedProcs
       /\ <<"checkResp", c>> \in Peqs
       /\ Completion \in TimedProcs
<1>1. TimedProcs \subseteq Peqs /\ TimedProcs \subseteq ControllerProcs
  BY DEF TimedProcs, TimedNames, Peqs, ControllerProcs, ControllerMethods, DeviceThreads,
         DeviceProcs
<1>2. \A p \in TimedProcs : p[1] \in TimerNames
  BY DEF TimedProcs, TimedNames, TimerNames, Completion, DeviceProcs
<1>3. ASSUME NEW c \in Chan
      PROVE  /\ {PendingW(c), PendingR(c), <<"ackWrite", c>>, <<"ackRead", c>>,
                 <<"memRead", c>>, <<"accRead", c>>, <<"accWrite", c>>} \subseteq TimedProcs
             /\ <<"checkResp", c>> \in Peqs
             /\ Completion \in TimedProcs
  BY DEF TimedProcs, TimedNames, Peqs, ControllerMethods, DeviceProcs, PendingW, PendingR
<1>. QED
  BY <1>1, <1>2, <1>3

\* Queue e gets x and becomes f; or its first expired entry is taken.
Posted(f, e, x)    == f.run = Append(e.run, x) /\ f.due = e.due
PostedNow(f, e, x) == f.run = e.run /\ f.due = Append(e.due, x)
Taken(f, e)        == f.run = e.run /\ e.due # <<>> /\ f.due = Tail(e.due)

\* An entry is added to a queue.
LEMMA PostAdds ==
  ASSUME NEW pq, IsFcn(pq), NEW q \in DOMAIN pq, NEW T, pq[q] \in QueueOf(T), NEW x \in T,
         NEW new, new = Post(pq, q, x)
  PROVE  /\ IsFcn(new) /\ DOMAIN new = DOMAIN pq
         /\ new[q] \in QueueOf(T)
         /\ Posted(new[q], pq[q], x)
         /\ \A p \in DOMAIN pq \ {q} : new[p] = pq[p]
<1>2. pq[q].run \in Seq(T) /\ pq[q].due \in Seq(T)
  BY DEF QueueOf
<1>3. Append(pq[q].run, x) \in Seq(T)
  BY <1>2
<1>4. new[q] = [run |-> Append(pq[q].run, x), due |-> pq[q].due]
  BY DEF Post, QueueOf, IsFcn
<1>5. IsFcn(new) /\ DOMAIN new = DOMAIN pq /\ \A p \in DOMAIN pq \ {q} : new[p] = pq[p]
  BY DEF Post, IsFcn
<1>. QED
  BY <1>2, <1>3, <1>4, <1>5 DEF QueueOf, Posted

\* An entry is added that has expired at once.
LEMMA PostNowAdds ==
  ASSUME NEW pq, IsFcn(pq), NEW q \in DOMAIN pq, NEW T, pq[q] \in QueueOf(T), NEW x \in T,
         NEW new, new = PostNow(pq, q, x)
  PROVE  /\ IsFcn(new) /\ DOMAIN new = DOMAIN pq
         /\ new[q] \in QueueOf(T)
         /\ PostedNow(new[q], pq[q], x)
         /\ \A p \in DOMAIN pq \ {q} : new[p] = pq[p]
<1>2. pq[q].run \in Seq(T) /\ pq[q].due \in Seq(T)
  BY DEF QueueOf
<1>3. Append(pq[q].due, x) \in Seq(T)
  BY <1>2
<1>4. new[q] = [run |-> pq[q].run, due |-> Append(pq[q].due, x)]
  BY DEF PostNow, QueueOf, IsFcn
<1>5. IsFcn(new) /\ DOMAIN new = DOMAIN pq /\ \A p \in DOMAIN pq \ {q} : new[p] = pq[p]
  BY DEF PostNow, IsFcn
<1>. QED
  BY <1>2, <1>3, <1>4, <1>5 DEF QueueOf, PostedNow

\* The first expired entry is taken.
LEMMA TakeRemoves ==
  ASSUME NEW pq, IsFcn(pq), NEW q \in DOMAIN pq, NEW T, pq[q] \in QueueOf(T),
         pq[q].due # <<>>, NEW new, new = Take(pq, q)
  PROVE  /\ IsFcn(new) /\ DOMAIN new = DOMAIN pq
         /\ new[q] \in QueueOf(T)
         /\ Taken(new[q], pq[q])
         /\ Head(pq[q].due) \in T
         /\ \A p \in DOMAIN pq \ {q} : new[p] = pq[p]
<1>2. pq[q].run \in Seq(T) /\ pq[q].due \in Seq(T)
  BY DEF QueueOf
<1>3. Tail(pq[q].due) \in Seq(T) /\ Head(pq[q].due) \in T
  BY <1>2
<1>4. new[q] = [run |-> pq[q].run, due |-> Tail(pq[q].due)]
  BY DEF Take, QueueOf, IsFcn
<1>5. IsFcn(new) /\ DOMAIN new = DOMAIN pq /\ \A p \in DOMAIN pq \ {q} : new[p] = pq[p]
  BY DEF Take, IsFcn
<1>. QED
  BY <1>2, <1>3, <1>4, <1>5 DEF QueueOf, Taken

\* Whether x may be an entry of queue q.
Fits(q, x) == \A T : Suits(q, T) => x \in T \/ Suits(q, T \cup {x})

\* notify(entry, delay) keeps the queues what they are.
LEMMA PostTyped ==
  ASSUME NEW pq, QueuesTyped(pq), NEW q \in Peqs, NEW x, Fits(q, x),
         NEW new, new = Post(pq, q, x)
  PROVE  /\ QueuesTyped(new) /\ DOMAIN new = DOMAIN pq
         /\ Posted(new[q], pq[q], x)
         /\ \A p \in DOMAIN pq \ {q} : new[p] = pq[p]
<1>1. IsFcn(pq) /\ q \in DOMAIN pq
  BY DEF QueuesTyped
<1>2. PICK T : Suits(q, T) /\ pq[q] \in QueueOf(T) /\ x \in T
  <2>1. PICK U : Suits(q, U) /\ pq[q] \in QueueOf(U)
    BY DEF QueuesTyped
  <2>2. PICK T : T = U \cup {x}
    OBVIOUS
  <2>3. pq[q] \in QueueOf(T)
    BY <2>1, <2>2, SeqMonotonic DEF QueueOf
  <2>. QED
    BY <2>1, <2>2, <2>3 DEF Fits
<1>3. /\ IsFcn(new) /\ DOMAIN new = DOMAIN pq
      /\ new[q] \in QueueOf(T)
      /\ Posted(new[q], pq[q], x)
      /\ \A p \in DOMAIN pq \ {q} : new[p] = pq[p]
  BY <1>1, <1>2, PostAdds
<1>5. \A p \in Peqs : \E U : Suits(p, U) /\ new[p] \in QueueOf(U)
  BY <1>2, <1>3 DEF QueuesTyped
<1>. QED
  BY <1>3, <1>5 DEF QueuesTyped

\* notify(entry, 0) of a response.
LEMMA PostNowTyped ==
  ASSUME NEW pq, QueuesTyped(pq), NEW q \in Peqs, q[1] = "checkResp",
         NEW x \in {"READ", "WRITE"}, NEW new, new = PostNow(pq, q, x)
  PROVE  /\ QueuesTyped(new) /\ DOMAIN new = DOMAIN pq
         /\ PostedNow(new[q], pq[q], x)
         /\ \A p \in DOMAIN pq \ {q} : new[p] = pq[p]
<1>1. IsFcn(pq) /\ q \in DOMAIN pq
  BY Names DEF QueuesTyped
<1>2. PICK T : Suits(q, T) /\ pq[q] \in QueueOf(T)
  BY <1>1 DEF QueuesTyped
<1>3. x \in T
  BY <1>2 DEF Suits
<1>4. /\ IsFcn(new) /\ DOMAIN new = DOMAIN pq
      /\ new[q] \in QueueOf(T)
      /\ PostedNow(new[q], pq[q], x)
      /\ \A p \in DOMAIN pq \ {q} : new[p] = pq[p]
  BY <1>1, <1>2, <1>3, PostNowAdds
<1>5. \A p \in Peqs : \E U : Suits(p, U) /\ new[p] \in QueueOf(U)
  BY <1>2, <1>4 DEF QueuesTyped
<1>. QED
  BY <1>4, <1>5 DEF QueuesTyped

\* Taking an entry keeps the queues what they are.
LEMMA TakeTyped ==
  ASSUME NEW pq, QueuesTyped(pq), NEW q \in Peqs, pq[q].due # <<>>,
         NEW new, new = Take(pq, q)
  PROVE  /\ QueuesTyped(new) /\ DOMAIN new = DOMAIN pq
         /\ Taken(new[q], pq[q])
         /\ \A p \in DOMAIN pq \ {q} : new[p] = pq[p]
<1>1. IsFcn(pq) /\ q \in DOMAIN pq
  BY DEF QueuesTyped
<1>2. PICK T : Suits(q, T) /\ pq[q] \in QueueOf(T)
  BY DEF QueuesTyped
<1>3. /\ IsFcn(new) /\ DOMAIN new = DOMAIN pq
      /\ new[q] \in QueueOf(T)
      /\ Taken(new[q], pq[q])
      /\ \A p \in DOMAIN pq \ {q} : new[p] = pq[p]
  BY <1>1, <1>2, TakeRemoves
<1>5. \A p \in Peqs : \E U : Suits(p, U) /\ new[p] \in QueueOf(U)
  BY <1>2, <1>3 DEF QueuesTyped
<1>. QED
  BY <1>3, <1>5 DEF QueuesTyped

\* Entries that fit.
LEMMA FitsWhere ==
  /\ \A x : \A c \in Chan : Fits(<<"ackWrite", c>>, x) /\ Fits(<<"ackRead", c>>, x)
         /\ Fits(<<"memRead", c>>, x) /\ Fits(<<"accRead", c>>, x)
         /\ Fits(<<"accWrite", c>>, x)
  /\ \A c \in Chan : \A a \in Addr : Fits(PendingW(c), a) /\ Fits(PendingR(c), a)
  /\ \A c \in Chan : \A x \in {"READ", "WRITE"} : Fits(<<"checkResp", c>>, x)
  /\ \A s \in Slot : Fits(Completion, s)
  BY DEF Fits, Suits, PendingW, PendingR, Completion

\* The entries of the queues the invariant is about.
LEMMA QueueTypes ==
  ASSUME QueuesTyped(peq), NEW c \in Chan
  PROVE  /\ peq[PendingW(c)] \in QueueOf(Addr) /\ peq[PendingR(c)] \in QueueOf(Addr)
         /\ peq[<<"checkResp", c>>] \in QueueOf({"READ", "WRITE"})
         /\ peq[Completion] \in QueueOf(Slot)
         /\ \E T : peq[<<"memRead", c>>] \in QueueOf(T)
<1>1. /\ {PendingW(c), PendingR(c), <<"memRead", c>>} \subseteq Peqs
      /\ <<"checkResp", c>> \in Peqs /\ Completion \in Peqs
  BY Names
<1>2. PICK A, B, C, D :
        /\ Suits(PendingW(c), A) /\ peq[PendingW(c)] \in QueueOf(A)
        /\ Suits(PendingR(c), B) /\ peq[PendingR(c)] \in QueueOf(B)
        /\ Suits(<<"checkResp", c>>, C) /\ peq[<<"checkResp", c>>] \in QueueOf(C)
        /\ Suits(Completion, D) /\ peq[Completion] \in QueueOf(D)
  BY <1>1 DEF QueuesTyped
<1>3. A = Addr /\ B = Addr /\ C = {"READ", "WRITE"} /\ D = Slot
  BY <1>2 DEF Suits, PendingW, PendingR, Completion
<1>. QED
  BY <1>1, <1>2, <1>3 DEF QueuesTyped

\* p ran and the events of now were notified at once.
Ran(p, now) == \/ \E E : WaitAfter(p, E, now)
               \/ GoOnAfter(p, now)

\* A step of p keeps the other processes asleep that wait for their timers.
LEMMA SleepersStay ==
  ASSUME IsFcn(waiting), NEW p, NEW now, Ran(p, now), \A e \in now : e[1] \notin TimerNames,
         NEW q \in DOMAIN waiting, q # p, q[1] \in TimerNames, Asleep(q)
  PROVE  Asleep(q)'
<1>1. q \notin Woken(now)
  BY DEF Woken, Asleep
<1>2. waiting'[q] = waiting[q]
  BY DEF Ran, WaitAfter, GoOnAfter, IsFcn
<1>3. q \notin runnable'
  BY <1>1 DEF Ran, WaitAfter, GoOnAfter, Asleep
<1>. QED
  BY <1>2, <1>3 DEF Asleep

\* A step of p keeps the timers and their processes in step, if p itself does.
LEMMA WakesKept ==
  ASSUME Wakes, NEW p, NEW now, Ran(p, now), \A e \in now : e[1] \notin TimerNames,
         QueuesTyped(peq)',
         \A e \in pending' : e \in pending \/ e[1] \notin TimerNames,
         \A q \in TimedProcs \ {p} : peq'[q].due = <<>> => peq[q].due = <<>>,
         p \in TimedProcs /\ peq'[p].due = <<>> => Asleep(p)'
  PROVE  Wakes'
<1>1. IsFcn(waiting)' /\ DOMAIN waiting' = DOMAIN waiting
  BY DEF Wakes, Ran, WaitAfter, GoOnAfter, IsFcn
<1>2. ASSUME NEW q \in TimedProcs, peq'[q].due = <<>>
      PROVE  Asleep(q)'
  <2>1. CASE q = p
    BY <1>2, <2>1
  <2>2. CASE q # p
    <3>1. Asleep(q) /\ q \in DOMAIN waiting /\ q[1] \in TimerNames
      BY <1>2, <2>2, Names DEF Wakes
    <3>. QED
      BY <2>2, <3>1, SleepersStay DEF Wakes
  <2>. QED
    BY <2>1, <2>2
<1>3. \A e \in pending' : e[1] \notin TimerNames
  BY DEF Wakes
<1>. QED
  BY <1>1, <1>2, <1>3 DEF Wakes

\* The end of a method's loop: it sleeps if its queue is empty.
LEMMA EndOfLoopSleeps ==
  ASSUME Wakes, NEW p \in TimedProcs, EndOfLoop(p, peq')
  PROVE  Ran(p, {}) /\ (peq'[p].due = <<>> => Asleep(p)')
<1>1. p \in DOMAIN waiting
  BY Names DEF Wakes
<1>2. Ran(p, {})
  BY DEF EndOfLoop, Wait, GoOn, Ran
<1>3. ASSUME peq'[p].due = <<>> PROVE Asleep(p)'
  BY <1>1, <1>3 DEF EndOfLoop, Wait, WaitAfter, Asleep, Wakes, IsFcn
<1>. QED
  BY <1>2, <1>3

\* Pending notifications are delivered.
LEMMA DeltaWakes ==
  ASSUME Wakes, Delta
  PROVE  /\ Wakes'
         /\ \A q \in DOMAIN waiting : q[1] \in TimerNames /\ Asleep(q) => Asleep(q)'
<1>1. \A q \in DOMAIN waiting : q[1] \in TimerNames /\ Asleep(q) => Asleep(q)'
  BY DEF Delta, Woken, Asleep, Wakes
<1>2. \A q \in TimedProcs : peq'[q].due = <<>> => Asleep(q)'
  BY <1>1, Names DEF Wakes, Delta
<1>3. UNCHANGED <<waiting, peq>> /\ pending' = {}
  BY DEF Delta
<1>. QED
  BY <1>1, <1>2, <1>3 DEF Wakes, QueuesTyped


(***************************************************************************)
(* The entries of a queue, expired or not, and what a step does to them.   *)
(***************************************************************************)
\* What p holds when it has an x more than q, or lacks an x of q.
OneMore(p, q, x) ==
  /\ \A R : CountOf(p, R) = CountOf(q, R) + (IF x \in R THEN 1 ELSE 0)
  /\ \A S : Enumerates(q, S) /\ x \notin S => Enumerates(p, S \cup {x})
OneLess(p, q, x) ==
  /\ \A R : CountOf(q, R) = CountOf(p, R) + (IF x \in R THEN 1 ELSE 0)
  /\ \A S : Enumerates(q, S) => x \in S /\ Enumerates(p, S \ {x})

Longer(p, q, x) == p = Append(q, x)
Shorter(p, q, x) == q # <<>> /\ p = Tail(q) /\ x = Head(q)

\* An entry more, in front of the expired ones.
LEMMA JoinedMore ==
  ASSUME NEW T, NEW q \in Seq(T), NEW d \in Seq(T), NEW x \in T, NEW p, Longer(p, q, x)
  PROVE  /\ p \o d \in Seq(T) /\ Len(p \o d) = Len(q \o d) + 1
         /\ OneMore(p \o d, q \o d, x)
<1>1. q \in Seq(T) /\ d \in Seq(T) /\ p \in Seq(T)
  BY DEF Longer
<1>3. p \o d \in Seq(T) /\ Len(p \o d) = Len(q \o d) + 1
  <2>1. Len(p \o d) = Len(p) + Len(d) /\ Len(q \o d) = Len(q) + Len(d) /\ p \o d \in Seq(T)
    BY <1>1, ConcatProperties
  <2>2. Len(p) = Len(q) + 1 /\ Len(q) \in Nat /\ Len(d) \in Nat
    BY <1>1 DEF Longer
  <2>3. Len(p \o d) = Len(q \o d) + 1
    BY <2>1, <2>2
  <2>. QED
    BY <2>1, <2>3
<1>4. ASSUME NEW R
      PROVE  CountOf(p \o d, R) = CountOf(q \o d, R) + (IF x \in R THEN 1 ELSE 0)
  <2>. DEFINE one == IF x \in R THEN 1 ELSE 0
  <2>1. CountOf(p \o d, R) = CountOf(p, R) + CountOf(d, R)
    BY <1>1, CountConcat
  <2>2. CountOf(q \o d, R) = CountOf(q, R) + CountOf(d, R)
    BY <1>1, CountConcat
  <2>3. CountOf(p, R) = CountOf(q, R) + one
    BY <1>1, CountAppend DEF Longer
  <2>4. one \in Nat /\ CountOf(q, R) \in Nat /\ CountOf(d, R) \in Nat
    BY <1>1, CountIsNat
  <2>. HIDE DEF one
  <2>5. CountOf(p \o d, R) = CountOf(q \o d, R) + one
    BY <2>1, <2>2, <2>3, <2>4
  <2>. QED
    BY <2>5 DEF one
<1>5. ASSUME NEW S, Enumerates(q \o d, S), x \notin S PROVE Enumerates(p \o d, S \cup {x})
  <2>1. /\ Enumerates(q, Range(q)) /\ Enumerates(d, Range(d))
        /\ Range(q) \cap Range(d) = {} /\ S = Range(q) \cup Range(d)
    BY <1>1, <1>5, EnumSplit
  <2>2. Enumerates(p, Range(q) \cup {x})
    BY <1>1, <1>5, <2>1, EnumAppend DEF Longer
  <2>3. Enumerates(p \o d, (Range(q) \cup {x}) \cup Range(d))
    BY <1>5, <2>1, <2>2, EnumJoin
  <2>4. (Range(q) \cup {x}) \cup Range(d) = S \cup {x}
    BY <2>1
  <2>. QED
    BY <2>3, <2>4
<1>. QED
  BY <1>3, <1>4, <1>5 DEF OneMore

\* An entry more.
LEMMA AllPosted ==
  ASSUME NEW T, NEW e \in QueueOf(T), NEW x \in T,
         NEW f, Posted(f, e, x)
  PROVE  /\ All(f) \in Seq(T) /\ Len(All(f)) = Len(All(e)) + 1
         /\ OneMore(All(f), All(e), x)
<1>1. e.run \in Seq(T) /\ e.due \in Seq(T)
  BY DEF QueueOf
<1>2. PICK q, d, p : /\ q \in Seq(T) /\ d \in Seq(T) /\ Longer(p, q, x)
                     /\ All(f) = p \o d /\ All(e) = q \o d
  BY <1>1 DEF Longer, Posted, All
<1>. QED
  BY <1>2, JoinedMore

\* An entry more, after the expired ones.
LEMMA JoinedMoreDue ==
  ASSUME NEW T, NEW q \in Seq(T), NEW d \in Seq(T), NEW x \in T, NEW p, Longer(p, d, x)
  PROVE  /\ q \o p \in Seq(T)
         /\ \A R : CountOf(q \o p, R) = CountOf(q \o d, R) + (IF x \in R THEN 1 ELSE 0)
<1>1. q \in Seq(T) /\ d \in Seq(T) /\ p \in Seq(T)
  BY DEF Longer
<1>4. ASSUME NEW R
      PROVE  CountOf(q \o p, R) = CountOf(q \o d, R) + (IF x \in R THEN 1 ELSE 0)
  <2>. DEFINE one == IF x \in R THEN 1 ELSE 0
  <2>1. CountOf(q \o p, R) = CountOf(q, R) + CountOf(p, R)
    BY <1>1, CountConcat
  <2>2. CountOf(q \o d, R) = CountOf(q, R) + CountOf(d, R)
    BY <1>1, CountConcat
  <2>3. CountOf(p, R) = CountOf(d, R) + one
    BY <1>1, CountAppend DEF Longer
  <2>4. one \in Nat /\ CountOf(q, R) \in Nat /\ CountOf(d, R) \in Nat
    BY <1>1, CountIsNat
  <2>. HIDE DEF one
  <2>5. CountOf(q \o p, R) = CountOf(q \o d, R) + one
    BY <2>1, <2>2, <2>3, <2>4
  <2>. QED
    BY <2>5 DEF one
<1>5. q \o p \in Seq(T)
  BY <1>1, ConcatProperties
<1>. QED
  BY <1>4, <1>5

\* An entry more that has expired.
LEMMA AllPostedNow ==
  ASSUME NEW T, NEW e \in QueueOf(T), NEW x \in T,
         NEW f, PostedNow(f, e, x)
  PROVE  /\ All(f) \in Seq(T)
         /\ \A R : CountOf(All(f), R) = CountOf(All(e), R) + (IF x \in R THEN 1 ELSE 0)
<1>1. e.run \in Seq(T) /\ e.due \in Seq(T)
  BY DEF QueueOf
<1>2. Longer(f.due, e.due, x) /\ f.run = e.run
  BY DEF Longer, PostedNow
<1>. QED
  BY <1>1, <1>2, JoinedMoreDue DEF All

\* An expired entry less.
LEMMA JoinedLess ==
  ASSUME NEW T, NEW q \in Seq(T), NEW d \in Seq(T), NEW p, NEW x, Shorter(p, d, x)
  PROVE  /\ q \o p \in Seq(T) /\ Len(q \o d) = Len(q \o p) + 1 /\ Len(q \o p) \in Nat
         /\ OneLess(q \o p, q \o d, x)
<1>1. q \in Seq(T) /\ d \in Seq(T) /\ p \in Seq(T) /\ x \in T
  BY DEF Shorter
<1>3. q \o p \in Seq(T) /\ Len(q \o d) = Len(q \o p) + 1 /\ Len(q \o p) \in Nat
  <2>1. Len(q \o p) = Len(q) + Len(p) /\ Len(q \o d) = Len(q) + Len(d) /\ q \o p \in Seq(T)
    BY <1>1, ConcatProperties
  <2>2. Len(d) = Len(p) + 1 /\ Len(q) \in Nat /\ Len(p) \in Nat
    BY <1>1 DEF Shorter
  <2>3. Len(q \o d) = Len(q \o p) + 1 /\ Len(q \o p) \in Nat
    BY <2>1, <2>2
  <2>. QED
    BY <2>1, <2>3
<1>4. ASSUME NEW R
      PROVE  CountOf(q \o d, R) = CountOf(q \o p, R) + (IF x \in R THEN 1 ELSE 0)
  <2>. DEFINE one == IF x \in R THEN 1 ELSE 0
  <2>1. CountOf(q \o p, R) = CountOf(q, R) + CountOf(p, R)
    BY <1>1, CountConcat
  <2>2. CountOf(q \o d, R) = CountOf(q, R) + CountOf(d, R)
    BY <1>1, CountConcat
  <2>3. CountOf(d, R) = one + CountOf(p, R)
    BY <1>1, CountTail DEF Shorter
  <2>4. one \in Nat /\ CountOf(q, R) \in Nat /\ CountOf(p, R) \in Nat
    BY <1>1, CountIsNat
  <2>. HIDE DEF one
  <2>5. CountOf(q \o d, R) = CountOf(q \o p, R) + one
    BY <2>1, <2>2, <2>3, <2>4
  <2>. QED
    BY <2>5 DEF one
<1>5. ASSUME NEW S, Enumerates(q \o d, S)
      PROVE  x \in S /\ Enumerates(q \o p, S \ {x})
  <2>1. /\ Enumerates(q, Range(q)) /\ Enumerates(d, Range(d))
        /\ Range(q) \cap Range(d) = {} /\ S = Range(q) \cup Range(d)
    BY <1>1, <1>5, EnumSplit
  <2>2. x \in Range(d) /\ Enumerates(p, Range(d) \ {x})
    BY <1>1, <2>1, EnumTail DEF Shorter
  <2>3. Enumerates(q \o p, Range(q) \cup (Range(d) \ {x}))
    BY <2>1, <2>2, EnumJoin
  <2>4. Range(q) \cup (Range(d) \ {x}) = S \ {x}
    BY <2>1, <2>2
  <2>. QED
    BY <2>1, <2>2, <2>3, <2>4
<1>. QED
  BY <1>3, <1>4, <1>5 DEF OneLess

\* An entry less.
LEMMA AllTaken ==
  ASSUME NEW T, NEW e \in QueueOf(T), NEW f, Taken(f, e)
  PROVE  /\ All(f) \in Seq(T) /\ Len(All(e)) = Len(All(f)) + 1 /\ Len(All(f)) \in Nat
         /\ OneLess(All(f), All(e), Head(e.due))
<1>1. e.run \in Seq(T) /\ e.due \in Seq(T)
  BY DEF QueueOf
<1>2. PICK q, d, p, x : /\ q \in Seq(T) /\ d \in Seq(T) /\ Shorter(p, d, x)
                        /\ x = Head(e.due) /\ All(f) = q \o p /\ All(e) = q \o d
  BY <1>1 DEF Shorter, Taken, All
<1>. QED
  BY <1>2, JoinedLess

\* Time passes: every queue holds the same entries, and the processes whose
\* timers do not expire go on sleeping.
LEMMA ExpireKeeps ==
  ASSUME Wakes, NEW S \in SUBSET Timers, Expire(S)
  PROVE  /\ Wakes'
         /\ \A q \in Peqs : SameEntries(Timed(q)', Timed(q))
         /\ \A q \in DOMAIN waiting : q[1] \in TimerNames /\ q \notin S /\ Asleep(q) => Asleep(q)'
<1>1. /\ UNCHANGED <<waiting, pending>> /\ DOMAIN peq' = DOMAIN peq /\ IsFcn(peq')
      /\ runnable' = Woken(S) /\ runnable = {}
      /\ \A q \in DOMAIN peq \ S : peq'[q] = peq[q]
      /\ \A q \in S : /\ q \in DOMAIN peq /\ peq[q].run # <<>>
                      /\ peq'[q] = [run |-> Tail(peq[q].run),
                                    due |-> Append(peq[q].due, Head(peq[q].run))]
  BY DEF Expire, Timers, IsFcn
<1>2. ASSUME NEW q \in Peqs
      PROVE  /\ \E T : Suits(q, T) /\ peq'[q] \in QueueOf(T)
             /\ q \in S => peq'[q].due # <<>>
             /\ SameEntries(Timed(q)', Timed(q))
  <2>1. q \in DOMAIN peq
    BY DEF Wakes, QueuesTyped
  <2>2. PICK T : Suits(q, T) /\ peq[q] \in QueueOf(T)
    BY DEF Wakes, QueuesTyped
  <2>3. CASE q \notin S
    <3>1. peq'[q] = peq[q]
      BY <1>1, <2>1, <2>3
    <3>2. Timed(q)' = Timed(q)
      BY <3>1 DEF Timed
    <3>. QED
      BY <2>2, <2>3, <3>1, <3>2 DEF SameEntries
  <2>4. CASE q \in S
    <3>. PICK u, d, p, e : u = peq[q].run /\ d = peq[q].due /\ p = Tail(u) /\ e = Append(d, Head(u))
      OBVIOUS
    <3>1. u \in Seq(T) /\ d \in Seq(T) /\ u # <<>>
      BY <1>1, <2>2, <2>4 DEF QueueOf
    <3>2. peq'[q] = [run |-> p, due |-> e]
      BY <1>1, <2>4
    <3>3. /\ p \in Seq(T) /\ e \in Seq(T) /\ e # <<>>
          /\ SameEntries(p \o e, u \o d)
      BY <3>1, ExpiredOnce
    <3>4. peq'[q] \in QueueOf(T) /\ peq'[q].due # <<>>
      BY <3>2, <3>3 DEF QueueOf
    <3>5. Timed(q)' = p \o e /\ Timed(q) = u \o d
      <4>1. peq'[q].run = p /\ peq'[q].due = e
        BY <3>2
      <4>2. peq[q].run = u /\ peq[q].due = d
        OBVIOUS
      <4>. QED
        BY <4>1, <4>2 DEF Timed
    <3>. QED
      BY <2>2, <3>3, <3>4, <3>5
  <2>. QED
    BY <2>3, <2>4
<1>3. ASSUME NEW q \in DOMAIN waiting, q \notin S, Asleep(q) PROVE Asleep(q)'
  <2>1. q \notin Woken(S)
    BY <1>3 DEF Woken, Asleep
  <2>. QED
    BY <1>1, <1>3, <2>1 DEF Asleep
<1>4. QueuesTyped(peq)'
  BY <1>1, <1>2 DEF QueuesTyped, Wakes
<1>5. ASSUME NEW q \in TimedProcs, peq'[q].due = <<>> PROVE Asleep(q)'
  <2>1. q \notin S
    BY <1>2, <1>5, Names
  <2>2. Asleep(q) /\ q \in DOMAIN waiting
    BY <1>1, <1>5, <2>1, Names DEF Wakes, QueuesTyped
  <2>. QED
    BY <1>3, <2>1, <2>2
<1>6. Wakes'
  BY <1>1, <1>4, <1>5 DEF Wakes
<1>. QED
  BY <1>2, <1>3, <1>6

(***************************************************************************)
(* Steps of one channel.                                                   *)
(***************************************************************************)
\* Nothing of channel d changes that the invariant is about.
ChannelSame(d) ==
  /\ manager'[d] = manager[d] /\ dispatch'[d] = dispatch[d]
  /\ mAscq'[d] = mAscq[d] /\ mAlcq'[d] = mAlcq[d]
  /\ mAvailableCredit'[d] = mAvailableCredit[d]
  /\ peq'[PendingW(d)] = peq[PendingW(d)] /\ peq'[PendingR(d)] = peq[PendingR(d)]
  /\ peq'[<<"memRead", d>>] = peq[<<"memRead", d>>]
  /\ peq'[<<"checkResp", d>>] = peq[<<"checkResp", d>>]

\* The entries of a queue that is left alone.
LEMMA TimedSame ==
  ASSUME NEW q, peq'[q] = peq[q]
  PROVE  Timed(q)' = Timed(q)
  BY DEF Timed

\* A channel that is left alone holds what it held.
LEMMA SameHolds ==
  ASSUME NEW d, ChannelSame(d), UNCHANGED mSlotTable
  PROVE  /\ \A p \in Held : Content(d, p)' = Content(d, p)
         /\ CreditUse(d)' = CreditUse(d)
         /\ ManagerFits(d) => ManagerFits(d)'
<1>1. Timed(PendingW(d))' = Timed(PendingW(d)) /\ Timed(PendingR(d))' = Timed(PendingR(d))
  BY TimedSame DEF ChannelSame
<1>2. ASSUME NEW p \in Held PROVE Content(d, p)' = Content(d, p)
  BY <1>1 DEF Content, ChannelSame, Held
<1>3. CreditUse(d)' = CreditUse(d)
  BY DEF CreditUse, Managed, ReadTimed, LongReads, Selects, Answers,
         ChannelSame, Reading, Kind
<1>4. ManagerFits(d) => ManagerFits(d)'
  BY DEF ManagerFits, ChannelSame, Kind
<1>. QED
  BY <1>2, <1>3, <1>4

\* The lists stay if no word enters or leaves one.
LEMMA ListsKept ==
  ASSUME NEW place, NEW r, NEW m, Lists(place, r, m),
         UNCHANGED <<mCmdQueue, head, tail>>,
         NEW place2, \A a \in Addr : place[a] = "list" <=> place2[a] = "list"
  PROVE  Lists(place2, r, m)'
<1>1. ASSUME NEW c, NEW b PROVE Listed(place2, c, b)' = Listed(place, c, b)
  BY DEF Listed, ChanOf, BankOf
<1>. QED
  BY <1>1 DEF Lists

\* The words of a slot that are on their way stay if none starts or ends.
LEMMA FinishedKept ==
  ASSUME NEW place, Finished(place),
         UNCHANGED <<mSlotTable, mIntermediateQueue, mSlotNumQueue, mCompletionQueue,
                     mCompletionQueue_mcore>>,
         Len(Timed(Completion)') = Len(Timed(Completion)),
         NEW place2, \A a \in Addr : place[a] = "none" <=> place2[a] = "none"
  PROVE  Finished(place2)'
<1>1. ASSUME NEW s PROVE Left(place2, s)' = Left(place, s)
  BY DEF Left, SlotOf
<1>2. reported' = reported
  BY DEF reported
<1>. QED
  BY <1>1, <1>2 DEF Finished, Counted, Reports

\* The data of the writes stays.
LEMMA DataKept ==
  ASSUME NEW place, DataHeld(place), UNCHANGED <<mSlotTable, mDataBuffer>>,
         NEW place2, \A a \in Addr : place2[a] \in NeedsData => place[a] \in NeedsData
  PROVE  DataHeld(place2)'
  BY DEF DataHeld, Kind, Word, SlotOf

\* A step of channel c keeps the invariant if it does so for channel c.
LEMMA ChannelKeepsInv ==
  ASSUME NEW place, NEW r, NEW m, DimmInv(place, r, m), Typed',
         UNCHANGED <<mCmdQueue, mSlotTable>>,
         NEW c \in Chan, \A d \in Chan \ {c} : ChannelSame(d),
         NEW place2 \in [Addr -> Places],
         \A a \in Addr : place2[a] # place[a] => ChanOf(a) = c /\ KindFits(a, place2[a]),
         \A p \in Held : Enumerates(Content(c, p)', In(place2, c, p)),
         ManagerFits(c)', Lists(place2, r, m)', Finished(place2)', DataHeld(place2)',
         mAvailableCredit'[c] + CreditUse(c)' = mAvailableCredit[c] + CreditUse(c)
  PROVE  DimmInv(place2, r, m)'
<1>1. ASSUME NEW d, NEW p PROVE In(place2, d, p)' = In(place2, d, p)
  BY DEF In, ChanOf
<1>2. Located(place2)'
  <2>1. ASSUME NEW d \in Chan \ {c}, NEW p \in Held
        PROVE  Enumerates(Content(d, p)', In(place2, d, p))
    <3>1. In(place2, d, p) = In(place, d, p)
      BY DEF In
    <3>2. Content(d, p)' = Content(d, p)
      BY SameHolds
    <3>. QED
      BY <3>1, <3>2 DEF DimmInv, Located
  <2>2. \A d \in Chan, p \in Held : Enumerates(Content(d, p)', In(place2, d, p))
    BY <2>1
  <2>. QED
    BY <1>1, <2>2 DEF Located
<1>3. Kinds(place2)'
  <2>1. ASSUME NEW d \in Chan \ {c} PROVE ManagerFits(d)'
    BY SameHolds DEF DimmInv, Kinds
  <2>2. \A a \in Addr : KindFits(a, place2[a])
    BY DEF DimmInv, Kinds
  <2>. QED
    BY <2>1, <2>2 DEF Kinds, KindFits, Kind
<1>4. CreditsKept'
  <2>1. ASSUME NEW d \in Chan \ {c}
        PROVE  mAvailableCredit'[d] + CreditUse(d)' = mAvailableCredit[d] + CreditUse(d)
    BY SameHolds DEF ChannelSame
  <2>2. \A d \in Chan : mAvailableCredit'[d] + CreditUse(d)' = mAvailableCredit[d] + CreditUse(d)
    BY <2>1
  <2>. QED
    BY <2>2 DEF DimmInv, CreditsKept
<1>. QED
  BY <1>2, <1>3, <1>4 DEF DimmInv

\* What the controller may do for the host in one step: a slot that is busy
\* becomes done.
Serves(place, place2) ==
  /\ UNCHANGED mSlotTable
  /\ \/ \A s \in Slot : StateOf(place2, s)' = StateOf(place, s)
     \/ \E s \in Slot : /\ StateOf(place, s) = "busy" /\ StateOf(place2, s)' = "done"
                        /\ \A x \in Slot \ {s} : StateOf(place2, x)' = StateOf(place, x)

\* The invariant goes on to hold, and the host is served.
Follows(place) ==
  \E place2, r2, m2 : DimmInv(place2, r2, m2)' /\ Serves(place, place2)

\* The idle slots are the host's.
LEMMA IdleIsIdle ==
  ASSUME NEW place, NEW s
  PROVE  /\ Idle(place, s) <=> StateOf(place, s) = "idle"
         /\ Idle(place, s)' <=> StateOf(place, s)' = "idle"
  BY DEF Idle, StateOf

LEMMA FollowsKeepsIdle ==
  ASSUME NEW place, Follows(place)
  PROVE  /\ UNCHANGED mSlotTable
         /\ \E place2, r2, m2 : /\ DimmInv(place2, r2, m2)'
                                /\ \A s \in Slot : Idle(place, s) => Idle(place2, s)'
<1>1. PICK place2, r2, m2 : DimmInv(place2, r2, m2)' /\ Serves(place, place2)
  BY DEF Follows
<1>2. ASSUME NEW s \in Slot, Idle(place, s) PROVE Idle(place2, s)'
  <2>1. StateOf(place, s) = "idle" /\ (Idle(place2, s)' <=> StateOf(place2, s)' = "idle")
    BY <1>2, IdleIsIdle
  <2>2. StateOf(place2, s)' = StateOf(place, s)
    BY <1>1, <2>1 DEF Serves
  <2>. QED
    BY <2>1, <2>2
<1>. QED
  BY <1>1, <1>2 DEF Serves

\* No slot changes if no word starts or ends and none is reported.
LEMMA StatesKept ==
  ASSUME NEW place, UNCHANGED doneVars,
         NEW place2, \A x \in Addr : place[x] = "none" <=> place2[x] = "none"
  PROVE  \A s \in Slot : StateOf(place2, s)' = StateOf(place, s)
<1>1. \A s : Left(place2, s)' = Left(place, s)
  BY DEF Left, SlotOf
<1>2. Range(reported)' = Range(reported) /\ UNCHANGED mCompletionQueue_mcore
  BY DEF reported, doneVars, Range
<1>. QED
  BY <1>1, <1>2 DEF StateOf

\* A step in which every word stays where it is.
LEMMA FrameKeepsInv ==
  ASSUME NEW place, NEW r, NEW m, DimmInv(place, r, m), Wakes', LocalsTyped',
         UNCHANGED <<bankVars, doneVars>>,
         NEW c \in Chan, \A d \in Chan \ {c} : ChannelSame(d),
         \A p \in Held : Content(c, p)' = Content(c, p),
         peq'[Completion] = peq[Completion], ManagerFits(c)',
         mAvailableCredit'[c] + CreditUse(c)' = mAvailableCredit[c] + CreditUse(c)
  PROVE  Follows(place)
<1>1. Typed'
  BY DEF DimmInv, Typed, TableTyped, DoneTyped, bankVars, doneVars
<1>2. Lists(place, r, m)'
  BY ListsKept DEF DimmInv, bankVars
<1>3. Finished(place)'
  BY TimedSame, FinishedKept DEF DimmInv, bankVars, doneVars
<1>4. DataHeld(place)'
  BY DataKept DEF DimmInv, bankVars, doneVars
<1>5. \A p \in Held : Enumerates(Content(c, p)', In(place, c, p))
  BY DEF DimmInv, Located
<1>6. place \in [Addr -> Places]
  BY DEF DimmInv, Located
<1>7. DimmInv(place, r, m)'
  BY <1>1, <1>2, <1>3, <1>4, <1>5, <1>6, ChannelKeepsInv DEF bankVars
<1>. QED
  BY <1>7, StatesKept DEF Follows, Serves, bankVars

\* A step in which word a goes from place p to place q.
LEMMA MoveKeepsInv ==
  ASSUME NEW place, NEW r, NEW m, DimmInv(place, r, m), Wakes', LocalsTyped',
         UNCHANGED <<bankVars, doneVars>>,
         NEW c \in Chan, \A d \in Chan \ {c} : ChannelSame(d),
         NEW p \in Held, NEW q \in Held \ {p}, NEW a \in In(place, c, p), KindFits(a, q),
         p \notin NeedsData => q \notin NeedsData \/ Kind(a) = "READ",
         Enumerates(Content(c, p)', In(place, c, p) \ {a}),
         Enumerates(Content(c, q)', In(place, c, q) \cup {a}),
         \A x \in Held \ {p, q} : Content(c, x)' = Content(c, x),
         peq'[Completion] = peq[Completion], ManagerFits(c)',
         mAvailableCredit'[c] + CreditUse(c)' = mAvailableCredit[c] + CreditUse(c)
  PROVE  Follows(place)
<1>. PICK place2 : place2 = [place EXCEPT ![a] = q]
  OBVIOUS
<1>0. /\ place \in [Addr -> Places] /\ a \in Addr /\ place[a] = p /\ ChanOf(a) = c
      /\ place2 \in [Addr -> Places] /\ place2[a] = q
      /\ \A x \in Addr \ {a} : place2[x] = place[x]
      /\ p # "none" /\ q # "none" /\ p # "list" /\ q # "list"
  BY DEF DimmInv, Located, In, Held, Places
<1>1. Typed'
  BY DEF DimmInv, Typed, TableTyped, DoneTyped, bankVars, doneVars
<1>2. Lists(place2, r, m)'
  BY <1>0, ListsKept DEF DimmInv, bankVars
<1>3. Finished(place2)'
  BY <1>0, TimedSame, FinishedKept DEF DimmInv, bankVars, doneVars
<1>4. DataHeld(place2)'
  BY <1>0 DEF DimmInv, DataHeld, Kind, Word, SlotOf, bankVars, doneVars
<1>5. ASSUME NEW x \in Held PROVE Enumerates(Content(c, x)', In(place2, c, x))
  <2>1. CASE x = p
    <3>1. In(place2, c, p) = In(place, c, p) \ {a}
      BY <1>0 DEF In
    <3>. QED
      BY <2>1, <3>1
  <2>2. CASE x = q
    <3>1. In(place2, c, q) = In(place, c, q) \cup {a}
      BY <1>0 DEF In
    <3>. QED
      BY <2>2, <3>1
  <2>3. CASE x \notin {p, q}
    <3>1. In(place2, c, x) = In(place, c, x)
      BY <1>0, <2>3 DEF In
    <3>. QED
      BY <2>3, <3>1 DEF DimmInv, Located
  <2>. QED
    BY <2>1, <2>2, <2>3
<1>6. \A x \in Addr : place2[x] # place[x] => ChanOf(x) = c /\ KindFits(x, place2[x])
  BY <1>0
<1>7. DimmInv(place2, r, m)'
  BY <1>0, <1>1, <1>2, <1>3, <1>4, <1>5, <1>6, ChannelKeepsInv DEF bankVars
<1>8. \A x \in Addr : place[x] = "none" <=> place2[x] = "none"
  BY <1>0
<1>. QED
  BY <1>7, <1>8, StatesKept DEF Follows, Serves, bankVars

(***************************************************************************)
(* Runs.                                                                   *)
(***************************************************************************)
\* p runs; it notifies no timer and no thread of the host.
HostEvents == {"mTrigSubCmd", "mTrigCmdDispatch"}
Runs(p) ==
  /\ Turn(p) /\ Ran(p, {})
  /\ \A e \in pending' : e \in pending \/ e[1] \notin TimerNames \cup HostEvents

\* A process that runs has something to take.
LEMMA TurnHasDue ==
  ASSUME Wakes, NEW p \in TimedProcs, Turn(p)
  PROVE  peq[p].due # <<>>
  BY DEF Wakes, Asleep, Turn

\* p runs and leaves the queues alone.
LEMMA RunWithoutQueues ==
  ASSUME Wakes, NEW p, Runs(p), p \notin TimedProcs, UNCHANGED peq
  PROVE  Wakes'
<1>1. QueuesTyped(peq)'
  BY DEF Wakes
<1>. QED
  BY <1>1, WakesKept DEF Runs

\* p runs and posts to queue q.
LEMMA RunPosts ==
  ASSUME Wakes, NEW p, Runs(p), p \notin TimedProcs,
         NEW q \in Peqs, NEW x, Fits(q, x), peq' = Post(peq, q, x)
  PROVE  /\ Wakes' /\ Posted(peq'[q], peq[q], x)
         /\ \A k \in DOMAIN peq \ {q} : peq'[k] = peq[k]
<1>1. /\ QueuesTyped(peq') /\ DOMAIN peq' = DOMAIN peq /\ Posted(peq'[q], peq[q], x)
      /\ \A k \in DOMAIN peq \ {q} : peq'[k] = peq[k]
  BY PostTyped DEF Wakes
<1>2. \A k \in TimedProcs : peq'[k].due = peq[k].due
  BY <1>1, Names DEF Posted, Wakes, QueuesTyped
<1>3. Wakes'
  BY <1>1, <1>2, WakesKept DEF Runs
<1>. QED
  BY <1>1, <1>3

\* p runs and takes an entry of its own queue.
LEMMA RunTakes ==
  ASSUME Wakes, NEW p \in Peqs, Runs(p), peq[p].due # <<>>, peq' = Take(peq, p),
         p \in TimedProcs => EndOfLoop(p, peq')
  PROVE  /\ Wakes' /\ Taken(peq'[p], peq[p])
         /\ \A k \in DOMAIN peq \ {p} : peq'[k] = peq[k]
<1>1. /\ QueuesTyped(peq') /\ DOMAIN peq' = DOMAIN peq /\ Taken(peq'[p], peq[p])
      /\ \A k \in DOMAIN peq \ {p} : peq'[k] = peq[k]
  BY TakeTyped DEF Wakes
<1>2. \A k \in TimedProcs \ {p} : peq'[k].due = peq[k].due
  BY <1>1, Names DEF Wakes, QueuesTyped
<1>3. p \in TimedProcs /\ peq'[p].due = <<>> => Asleep(p)'
  BY EndOfLoopSleeps
<1>4. Wakes'
  BY <1>1, <1>2, <1>3, WakesKept DEF Runs
<1>. QED
  BY <1>1, <1>4

\* p runs, takes an entry of its own queue and posts one to queue q.
LEMMA RunTakesAndPosts ==
  ASSUME Wakes, NEW p \in TimedProcs, Runs(p), EndOfLoop(p, peq'),
         NEW q \in Peqs \ {p}, NEW x, Fits(q, x), peq' = Post(Take(peq, p), q, x)
  PROVE  /\ Wakes' /\ Taken(peq'[p], peq[p]) /\ Posted(peq'[q], peq[q], x)
         /\ \A k \in DOMAIN peq \ {p, q} : peq'[k] = peq[k]
<1>. PICK pq : pq = Take(peq, p)
  OBVIOUS
<1>0. p \in Peqs /\ Peqs \subseteq DOMAIN peq /\ peq[p].due # <<>>
  BY Names, TurnHasDue DEF Runs, Wakes, QueuesTyped
<1>1. /\ QueuesTyped(pq) /\ DOMAIN pq = DOMAIN peq /\ Taken(pq[p], peq[p])
      /\ \A k \in DOMAIN peq \ {p} : pq[k] = peq[k]
  BY <1>0, TakeTyped DEF Wakes
<1>2. /\ QueuesTyped(peq') /\ DOMAIN peq' = DOMAIN peq /\ Posted(peq'[q], pq[q], x)
      /\ \A k \in DOMAIN peq \ {q} : peq'[k] = pq[k]
  <2>1. peq' = Post(pq, q, x)
    OBVIOUS
  <2>. QED
    BY <1>1, <2>1, PostTyped
<1>3. /\ Taken(peq'[p], peq[p]) /\ Posted(peq'[q], peq[q], x)
      /\ \A k \in DOMAIN peq \ {p, q} : peq'[k] = peq[k]
  BY <1>0, <1>1, <1>2
<1>4. \A k \in TimedProcs \ {p} : peq'[k].due = peq[k].due
  BY <1>0, <1>3, Names DEF Posted
<1>5. peq'[p].due = <<>> => Asleep(p)'
  BY EndOfLoopSleeps
<1>6. Wakes'
  BY <1>2, <1>4, <1>5, WakesKept DEF Runs
<1>. QED
  BY <1>3, <1>6

\* p runs, takes an entry of its own queue and sends a response at once.
LEMMA RunTakesAndResponds ==
  ASSUME Wakes, NEW p \in TimedProcs, Runs(p), EndOfLoop(p, peq'),
         NEW q \in Peqs \ {p}, q[1] = "checkResp", NEW x \in {"READ", "WRITE"},
         peq' = PostNow(Take(peq, p), q, x)
  PROVE  /\ Wakes' /\ Taken(peq'[p], peq[p]) /\ PostedNow(peq'[q], peq[q], x)
         /\ \A k \in DOMAIN peq \ {p, q} : peq'[k] = peq[k]
<1>. PICK pq : pq = Take(peq, p)
  OBVIOUS
<1>0. p \in Peqs /\ Peqs \subseteq DOMAIN peq /\ peq[p].due # <<>> /\ q \notin TimedProcs
  <2>1. p \in Peqs /\ Peqs \subseteq DOMAIN peq /\ peq[p].due # <<>>
    BY Names, TurnHasDue DEF Runs, Wakes, QueuesTyped
  <2>2. q \notin TimedProcs
    BY DEF TimedProcs, TimedNames, Completion, DeviceProcs
  <2>. QED
    BY <2>1, <2>2
<1>1. /\ QueuesTyped(pq) /\ DOMAIN pq = DOMAIN peq /\ Taken(pq[p], peq[p])
      /\ \A k \in DOMAIN peq \ {p} : pq[k] = peq[k]
  BY <1>0, TakeTyped DEF Wakes
<1>2. /\ QueuesTyped(peq') /\ DOMAIN peq' = DOMAIN peq /\ PostedNow(peq'[q], pq[q], x)
      /\ \A k \in DOMAIN peq \ {q} : peq'[k] = pq[k]
  <2>1. peq' = PostNow(pq, q, x)
    OBVIOUS
  <2>. QED
    BY <1>1, <2>1, PostNowTyped
<1>3. /\ Taken(peq'[p], peq[p]) /\ PostedNow(peq'[q], peq[q], x)
      /\ \A k \in DOMAIN peq \ {p, q} : peq'[k] = peq[k]
  BY <1>0, <1>1, <1>2
<1>4. \A k \in TimedProcs \ {p} : peq'[k].due = peq[k].due
  BY <1>0, <1>3, Names
<1>5. peq'[p].due = <<>> => Asleep(p)'
  BY EndOfLoopSleeps
<1>6. Wakes'
  BY <1>2, <1>4, <1>5, WakesKept DEF Runs
<1>. QED
  BY <1>3, <1>6

\* Who runs in a step.
LEMMA Runners ==
  ASSUME NEW c \in Chan
  PROVE  /\ cmdDispatcherProcess(c) => Runs(Dispatcher(c))
         /\ chanManagerProcess(c) => Runs(Manager(c))
         /\ pendingWriteCmdProcess(c) => Runs(PendingW(c))
         /\ pendingReadCmdProcess(c) => Runs(PendingR(c))
         /\ checkRespProcess(c) => Runs(<<"checkResp", c>>)
         /\ completionMethod => Runs(Completion)
<1>. USE DEF Runs, Ran, Wait, GoOn, EndOfLoop, Notify, TimerNames, TimedNames, DeviceProcs,
            HostEvents
<1>1. cmdDispatcherProcess(c) => Runs(Dispatcher(c))
  <2>1. DispatcherPolls(c) => Runs(Dispatcher(c))
    BY DEF DispatcherPolls
  <2>2. DispatcherSkips(c) => Runs(Dispatcher(c))
    BY DEF DispatcherSkips
  <2>3. DispatcherWaits(c) => Runs(Dispatcher(c))
    BY DEF DispatcherWaits
  <2>4. DispatcherUnlinks(c) => Runs(Dispatcher(c))
    BY DEF DispatcherUnlinks
  <2>5. DispatchShortQueue(c) => Runs(Dispatcher(c))
    BY DEF DispatchShortQueue
  <2>6. DispatchLongQueue(c) => Runs(Dispatcher(c))
    BY DEF DispatchLongQueue
  <2>. QED
    BY <2>1, <2>2, <2>3, <2>4, <2>5, <2>6 DEF cmdDispatcherProcess
<1>2. chanManagerProcess(c) => Runs(Manager(c))
  <2>1. ManagerTakesShort(c) => Runs(Manager(c))
    BY DEF ManagerTakesShort, Issue, NotFullEvent
  <2>2. ManagerTakesLong(c) => Runs(Manager(c))
    BY DEF ManagerTakesLong, Issue, NotFullEvent
  <2>3. ManagerWaits(c) => Runs(Manager(c))
    BY DEF ManagerWaits, BackToTop
  <2>4. RRAMInterfaceMethod(c) => Runs(Manager(c))
    BY DEF RRAMInterfaceMethod
  <2>5. ProcessShortQueueCmd(c) => Runs(Manager(c))
    BY DEF ProcessShortQueueCmd, BackToTop
  <2>6. WriteWaitsForDL1(c) => Runs(Manager(c))
    BY DEF WriteWaitsForDL1
  <2>7. ProcessWriteCmd(c) => Runs(Manager(c))
    BY DEF ProcessWriteCmd, BackToTop
  <2>8. ProcessReadData(c) => Runs(Manager(c))
    BY DEF ProcessReadData, BackToTop
  <2>. QED
    BY <2>1, <2>2, <2>3, <2>4, <2>5, <2>6, <2>7, <2>8 DEF chanManagerProcess
<1>3. pendingWriteCmdProcess(c) => Runs(PendingW(c))
  BY DEF pendingWriteCmdProcess
<1>4. pendingReadCmdProcess(c) => Runs(PendingR(c))
  BY DEF pendingReadCmdProcess, ReadTimeIsOver
<1>5. checkRespProcess(c) => Runs(<<"checkResp", c>>)
  BY DEF checkRespProcess
<1>6. completionMethod => Runs(Completion)
  BY DEF completionMethod
<1>. QED
  BY <1>1, <1>2, <1>3, <1>4, <1>5, <1>6

\* Who runs in a step of the device.
LEMMA DeviceRunners ==
  ASSUME NEW c \in Chan
  PROVE  /\ sendBackWriteACKMethod(c) => Runs(<<"ackWrite", c>>)
         /\ sendBackReadACKMethod(c) => Runs(<<"ackRead", c>>)
         /\ memReadMethod(c) => Runs(<<"memRead", c>>)
         /\ memAccessReadMethod(c) => Runs(<<"accRead", c>>)
         /\ memAccessWriteMethod(c) => Runs(<<"accWrite", c>>)
         /\ PhyDl2Takes(c) \/ PhyDl2Moves(c) \/ PhyDl2Sleeps(c) => Runs(<<"phyDl2Write", c>>)
<1>. USE DEF Runs, Ran, Wait, GoOn, EndOfLoop, Notify, TimerNames, TimedNames, DeviceProcs,
            HostEvents
<1>1. sendBackWriteACKMethod(c) => Runs(<<"ackWrite", c>>)
  BY DEF sendBackWriteACKMethod
<1>2. sendBackReadACKMethod(c) => Runs(<<"ackRead", c>>)
  BY DEF sendBackReadACKMethod
<1>3. memReadMethod(c) => Runs(<<"memRead", c>>)
  BY DEF memReadMethod
<1>4. memAccessReadMethod(c) => Runs(<<"accRead", c>>)
  BY DEF memAccessReadMethod
<1>5. memAccessWriteMethod(c) => Runs(<<"accWrite", c>>)
  BY DEF memAccessWriteMethod
<1>6. PhyDl2Takes(c) => Runs(<<"phyDl2Write", c>>)
  BY DEF PhyDl2Takes
<1>7. PhyDl2Moves(c) => Runs(<<"phyDl2Write", c>>)
  BY DEF PhyDl2Moves
<1>8. PhyDl2Sleeps(c) => Runs(<<"phyDl2Write", c>>)
  BY DEF PhyDl2Sleeps
<1>. QED
  BY <1>1, <1>2, <1>3, <1>4, <1>5, <1>6, <1>7, <1>8

\* The queues of channel d that hold words, credits or both.
OwnQueues(d) == {PendingW(d), PendingR(d), <<"memRead", d>>, <<"checkResp", d>>}

\* The step leaves the queues of channel d alone.
Elsewhere(d) == \A k \in OwnQueues(d) : peq'[k] = peq[k]

\* The queue operations of a step of channel c.
QueueNames == ControllerMethods \cup DeviceProcs
OperatesOn(c) ==
  \/ UNCHANGED peq
  \/ \E n \in QueueNames : \E x : peq' = Post(peq, <<n, c>>, x)
  \/ \E x : peq' = Post(peq, Completion, x)
  \/ \E n \in QueueNames : peq' = Take(peq, <<n, c>>)
  \/ \E n \in QueueNames, k \in QueueNames : \E x : peq' = Post(Take(peq, <<n, c>>), <<k, c>>, x)
  \/ \E n \in QueueNames, k \in QueueNames : \E x : peq' = PostNow(Take(peq, <<n, c>>), <<k, c>>, x)

\* The queue operations of channel c leave the queues of channel d alone.
LEMMA OperationsElsewhere ==
  ASSUME Wakes, NEW c \in Chan, NEW d \in Chan \ {c}, OperatesOn(c)
  PROVE  Elsewhere(d)
<1>1. OwnQueues(d) \subseteq DOMAIN peq
  BY Names DEF OwnQueues, Wakes, QueuesTyped
<1>2. \A n : <<n, c>> \notin OwnQueues(d)
  BY DEF OwnQueues, PendingW, PendingR
<1>3. Completion \notin OwnQueues(d)
  BY DEF OwnQueues, PendingW, PendingR, Completion
<1>4. SUFFICES ASSUME NEW q \in OwnQueues(d) PROVE peq'[q] = peq[q]
  BY DEF Elsewhere
<1>5. q \in DOMAIN peq /\ q # Completion /\ \A n : q # <<n, c>>
  BY <1>1, <1>2, <1>3
<1>6. ASSUME NEW n, NEW x, peq' = Post(peq, <<n, c>>, x) PROVE peq'[q] = peq[q]
  BY <1>5, <1>6 DEF Post
<1>7. ASSUME NEW x, peq' = Post(peq, Completion, x) PROVE peq'[q] = peq[q]
  BY <1>5, <1>7 DEF Post
<1>8. ASSUME NEW n PROVE Take(peq, <<n, c>>)[q] = peq[q] /\ q \in DOMAIN Take(peq, <<n, c>>)
  BY <1>5 DEF Take
<1>9. ASSUME NEW n, NEW k, NEW x,
             \/ peq' = Post(Take(peq, <<n, c>>), <<k, c>>, x)
             \/ peq' = PostNow(Take(peq, <<n, c>>), <<k, c>>, x)
      PROVE  peq'[q] = peq[q]
  <2>. PICK pq : pq = Take(peq, <<n, c>>)
    OBVIOUS
  <2>1. pq[q] = peq[q] /\ q \in DOMAIN pq
    BY <1>8
  <2>2. q # <<k, c>>
    BY <1>5
  <2>3. Post(pq, <<k, c>>, x)[q] = pq[q] /\ PostNow(pq, <<k, c>>, x)[q] = pq[q]
    BY <2>1, <2>2 DEF Post, PostNow
  <2>. QED
    BY <1>9, <2>1, <2>3
<1>10. ASSUME NEW n, peq' = Take(peq, <<n, c>>) PROVE peq'[q] = peq[q]
  BY <1>8, <1>10
<1>. QED
  BY <1>6, <1>7, <1>9, <1>10, Zenon DEF OperatesOn

\* Every step of a channel is one of these.
LEMMA ChannelOperates ==
  ASSUME NEW c \in Chan, ChannelStep(c)
  PROVE  OperatesOn(c)
<1>1. CASE UNCHANGED peq
  BY <1>1 DEF OperatesOn
<1>2. CASE cmdDispatcherProcess(c)
  BY <1>1, <1>2 DEF cmdDispatcherProcess, DispatcherPolls, DispatcherSkips, DispatcherWaits,
                    DispatcherUnlinks, DispatchShortQueue, DispatchLongQueue
<1>3. CASE ManagerTakesShort(c) \/ ManagerTakesLong(c) \/ ManagerWaits(c) \/ WriteWaitsForDL1(c)
  BY <1>1, <1>3 DEF ManagerTakesShort, ManagerTakesLong, ManagerWaits, BackToTop, WriteWaitsForDL1
<1>4. CASE RRAMInterfaceMethod(c) \/ ProcessShortQueueCmd(c) \/ ProcessWriteCmd(c)
  <2>1. \E n \in QueueNames : \E x : peq' = Post(peq, <<n, c>>, x)
    BY <1>4 DEF RRAMInterfaceMethod, nb_transport_fw, QueueOfCode, Codes,
                ProcessShortQueueCmd, PendingR, ProcessWriteCmd, PendingW,
                QueueNames, ControllerMethods, DeviceProcs
  <2>. QED
    BY <2>1 DEF OperatesOn
<1>5. CASE ProcessReadData(c)
  <2>1. UNCHANGED peq \/ \E x : peq' = Post(peq, Completion, x)
    BY <1>5 DEF ProcessReadData
  <2>. QED
    BY <2>1 DEF OperatesOn
<1>6. CASE pendingWriteCmdProcess(c) \/ pendingReadCmdProcess(c) \/ checkRespProcess(c)
  <2>1. UNCHANGED peq \/ \E n \in QueueNames : peq' = Take(peq, <<n, c>>)
    BY <1>6 DEF pendingWriteCmdProcess, PendingW, pendingReadCmdProcess, ReadTimeIsOver, PendingR,
                checkRespProcess, QueueNames, ControllerMethods, DeviceProcs
  <2>. QED
    BY <2>1 DEF OperatesOn
<1>. QED
  BY <1>2, <1>3, <1>4, <1>5, <1>6 DEF ChannelStep, chanManagerProcess

\* So is every step of the device.
LEMMA DeviceOperates ==
  ASSUME NEW c \in Chan, DeviceStep(c)
  PROVE  OperatesOn(c)
<1>1. CASE PhyDl2Takes(c) \/ PhyDl2Moves(c) \/ PhyDl2Sleeps(c)
  BY <1>1 DEF PhyDl2Takes, PhyDl2Moves, PhyDl2Sleeps, OperatesOn
<1>2. CASE memAccessReadMethod(c)
  <2>1. \E n \in QueueNames : peq' = Take(peq, <<n, c>>)
    BY <1>2 DEF memAccessReadMethod, QueueNames, DeviceProcs
  <2>. QED
    BY <2>1 DEF OperatesOn
<1>3. CASE sendBackWriteACKMethod(c) \/ sendBackReadACKMethod(c) \/ memReadMethod(c)
  <2>1. {"ackWrite", "ackRead", "memRead", "accRead", "accWrite", "checkResp"} \subseteq QueueNames
    BY DEF QueueNames, ControllerMethods, DeviceProcs
  <2>2. \/ \E x : peq' = Post(Take(peq, <<"ackWrite", c>>), <<"accWrite", c>>, x)
        \/ \E x : peq' = Post(Take(peq, <<"ackRead", c>>), <<"accRead", c>>, x)
        \/ \E x : peq' = Post(Take(peq, <<"memRead", c>>), <<"checkResp", c>>, x)
    BY <1>3, Zenon DEF sendBackWriteACKMethod, sendBackReadACKMethod, memReadMethod
  <2>3. \E n \in QueueNames, k \in QueueNames : \E x : peq' = Post(Take(peq, <<n, c>>), <<k, c>>, x)
    BY <2>1, <2>2
  <2>. QED
    BY <2>3 DEF OperatesOn
<1>4. CASE memAccessWriteMethod(c)
  <2>1. \E n \in QueueNames, k \in QueueNames : \E x : peq' = PostNow(Take(peq, <<n, c>>), <<k, c>>, x)
    BY <1>4 DEF memAccessWriteMethod, QueueNames, ControllerMethods, DeviceProcs
  <2>. QED
    BY <2>1 DEF OperatesOn
<1>. QED
  BY <1>1, <1>2, <1>3, <1>4 DEF DeviceStep

\* A step of one channel leaves the others alone.
LEMMA OthersSame ==
  ASSUME Wakes, LocalsTyped, NEW c \in Chan, NEW d \in Chan \ {c}, ChannelStep(c)
  PROVE  ChannelSame(d)
<1>. DEFINE Locals == /\ manager'[d] = manager[d] /\ dispatch'[d] = dispatch[d]
                      /\ mAscq'[d] = mAscq[d] /\ mAlcq'[d] = mAlcq[d]
                      /\ mAvailableCredit'[d] = mAvailableCredit[d]
<1>. USE DEF LocalsTyped
<1>1. Elsewhere(d)
  BY ChannelOperates, OperationsElsewhere
<1>2. cmdDispatcherProcess(c) => Locals
  <2>1. ASSUME DispatcherPolls(c) \/ DispatcherSkips(c) \/ DispatcherWaits(c) PROVE Locals
    BY <2>1 DEF DispatcherPolls, DispatcherSkips, DispatcherWaits
  <2>2. ASSUME DispatcherUnlinks(c) PROVE Locals
    BY <2>2 DEF DispatcherUnlinks
  <2>3. ASSUME DispatchShortQueue(c) PROVE Locals
    BY <2>3 DEF DispatchShortQueue
  <2>4. ASSUME DispatchLongQueue(c) PROVE Locals
    BY <2>4 DEF DispatchLongQueue
  <2>. QED
    BY <2>1, <2>2, <2>3, <2>4 DEF cmdDispatcherProcess
<1>3. chanManagerProcess(c) => Locals
  <2>1. ManagerTakesShort(c) => Locals
    BY DEF ManagerTakesShort, Issue
  <2>2. ManagerTakesLong(c) => Locals
    BY DEF ManagerTakesLong, Issue
  <2>3. ManagerWaits(c) \/ WriteWaitsForDL1(c) => Locals
    BY DEF ManagerWaits, BackToTop, WriteWaitsForDL1, controllerVars
  <2>4. RRAMInterfaceMethod(c) => Locals
    BY DEF RRAMInterfaceMethod
  <2>5. ProcessShortQueueCmd(c) \/ ProcessWriteCmd(c) \/ ProcessReadData(c) => Locals
    BY DEF ProcessShortQueueCmd, ProcessWriteCmd, ProcessReadData, BackToTop
  <2>. QED
    BY <2>1, <2>2, <2>3, <2>4, <2>5 DEF chanManagerProcess
<1>4. pendingWriteCmdProcess(c) \/ checkRespProcess(c) => Locals
  BY DEF pendingWriteCmdProcess, checkRespProcess
<1>5. pendingReadCmdProcess(c) => Locals
  BY DEF pendingReadCmdProcess, ReadTimeIsOver
<1>6. Locals
  BY <1>2, <1>3, <1>4, <1>5 DEF ChannelStep
<1>. QED
  BY <1>1, <1>6 DEF Elsewhere, ChannelSame, OwnQueues

\* A step of the device for one channel leaves the others alone.
LEMMA OthersSameInDevice ==
  ASSUME Wakes, NEW c \in Chan, NEW d \in Chan \ {c}, DeviceStep(c), UNCHANGED controllerVars
  PROVE  ChannelSame(d)
  BY DeviceOperates, OperationsElsewhere DEF Elsewhere, ChannelSame, OwnQueues, controllerVars

(***************************************************************************)
(* The dispatcher.                                                         *)
(***************************************************************************)
\* A place with one word.
LEMMA EnumOne ==
  ASSUME NEW a
  PROVE  /\ Enumerates(<<a>>, {a})
         /\ \A S : Enumerates(<<a>>, S) => S = {a}
<1>1. Enumerates(<<a>>, {a})
  <2>1. Enumerates(Append(<<>>, a), {} \cup {a})
    BY EnumEmpty, EnumAppend
  <2>. QED
    BY <2>1
<1>2. ASSUME NEW S, Enumerates(<<a>>, S) PROVE S = {a}
  <2>1. S = Range(<<a>>)
    BY <1>2, EnumRange
  <2>. QED
    BY <2>1 DEF Range
<1>. QED
  BY <1>1, <1>2

\* An empty place.
LEMMA EnumNone ==
  ASSUME NEW S, Enumerates(<<>>, S)
  PROVE  S = {}
  BY EnumRange

\* The credits of a channel, term by term.
LEMMA CreditParts ==
  ASSUME Typed, NEW c \in Chan
  PROVE  /\ Managed(c) \in Nat /\ ReadTimed(c) \in Nat /\ LongReads(c) \in Nat
         /\ Selects(c) \in Nat /\ Answers(c) \in Nat /\ mAvailableCredit[c] \in Nat
<1>0. QueuesTyped(peq) /\ LocalsTyped
  BY DEF Typed, Wakes
<1>1. ASSUME NEW T, NEW e \in QueueOf(T) PROVE All(e) \in Seq(T) /\ Len(All(e)) \in Nat
  <2>1. e.run \in Seq(T) /\ e.due \in Seq(T)
    BY DEF QueueOf
  <2>2. All(e) \in Seq(T)
    BY <2>1, ConcatProperties DEF All
  <2>. QED
    BY <2>2
<1>2. /\ peq[PendingR(c)] \in QueueOf(Addr)
      /\ peq[<<"checkResp", c>>] \in QueueOf({"READ", "WRITE"})
      /\ \E T : peq[<<"memRead", c>>] \in QueueOf(T)
  BY <1>0, QueueTypes
<1>3. Len(All(peq[PendingR(c)])) \in Nat /\ Len(All(peq[<<"memRead", c>>])) \in Nat
  BY <1>1, <1>2
<1>4. CountOf(All(peq[<<"checkResp", c>>]), {"READ"}) \in Nat
  BY <1>1, <1>2, CountIsNat
<1>5. CountOf(mAlcq[c], Reading) \in Nat
  BY <1>0, CountIsNat DEF LocalsTyped
<1>6. mAvailableCredit[c] \in Nat
  BY <1>0 DEF LocalsTyped
<1>. QED
  BY <1>3, <1>4, <1>5, <1>6 DEF Managed, ReadTimed, LongReads, Selects, Answers

\* Reads stay reads.
LEMMA ReadingSame == UNCHANGED mSlotTable => Reading' = Reading
  BY DEF Reading, Kind

\* The location after a bank.
LEMMA NextBankTyped ==
  ASSUME NEW b \in Bank
  PROVE  /\ NextBank(b) \in [at : {"check", "bank"}, bank : Bank, addr : {Nil}]
         /\ NextBank(b).at # "push"
<1>1. b \in Nat /\ NumBanks \in Nat \ {0}
  BY DeviceAssumption DEF Bank
<1>2. 0 \in Bank /\ (b + 1 < NumBanks => b + 1 \in Bank)
  BY <1>1 DEF Bank
<1>. QED
  BY <1>2 DEF NextBank

\* Steps of the dispatcher without a word.
LEMMA DispatcherLooks ==
  ASSUME NEW place, NEW r, NEW m, DimmInv(place, r, m), NEW c \in Chan,
         DispatcherPolls(c) \/ DispatcherSkips(c) \/ DispatcherWaits(c)
  PROVE  Follows(place)
<1>0. Typed /\ Wakes /\ LocalsTyped
  BY DEF DimmInv, Typed
<1>1. /\ UNCHANGED <<bankVars, doneVars, mAscq, mAlcq, mAvailableCredit, manager, peq>>
      /\ UNCHANGED mSlotTable
  BY DEF DispatcherPolls, DispatcherSkips, DispatcherWaits, bankVars
<1>2. /\ dispatch[c].at # "push" /\ dispatch'[c].at # "push"
      /\ dispatch' \in [Chan -> [at : {"check", "bank", "push"}, bank : Bank,
                                 addr : Addr \cup {Nil}]]
  <2>1. dispatch[c].bank \in Bank /\ 0 \in Bank
    BY <1>0, DeviceAssumption DEF LocalsTyped, Bank
  <2>2. CASE DispatcherPolls(c)
    BY <1>0, <2>1, <2>2 DEF DispatcherPolls, LocalsTyped
  <2>3. CASE DispatcherSkips(c) \/ DispatcherWaits(c)
    <3>1. PICK n : n = NextBank(dispatch[c].bank)
      OBVIOUS
    <3>2. dispatch' = [dispatch EXCEPT ![c] = n] /\ dispatch[c].at = "bank"
      BY <2>3, <3>1 DEF DispatcherSkips, DispatcherWaits
    <3>3. n \in [at : {"check", "bank"}, bank : Bank, addr : {Nil}] /\ n.at # "push"
      BY <2>1, <3>1, NextBankTyped
    <3>. QED
      BY <1>0, <3>2, <3>3 DEF LocalsTyped
  <2>. QED
    BY <2>2, <2>3
<1>3. cmdDispatcherProcess(c)
  BY DEF cmdDispatcherProcess
<1>4. Wakes'
  <2>1. Dispatcher(c) \notin TimedProcs
    BY DEF Dispatcher, TimedProcs, TimedNames, DeviceProcs, Completion
  <2>. QED
    BY <1>0, <1>1, <1>3, <2>1, Runners, RunWithoutQueues
<1>5. LocalsTyped'
  BY <1>0, <1>1, <1>2 DEF LocalsTyped
<1>6. \A d \in Chan \ {c} : ChannelSame(d)
  BY <1>0, <1>3, OthersSame DEF ChannelStep
<1>7. \A p \in Held : Content(c, p)' = Content(c, p)
  BY <1>1, <1>2, TimedSame DEF Content, Held
<1>8. ManagerFits(c)'
  BY <1>1 DEF DimmInv, Kinds, ManagerFits, Kind
<1>9. mAvailableCredit'[c] + CreditUse(c)' = mAvailableCredit[c] + CreditUse(c)
  BY <1>1, ReadingSame DEF CreditUse, Managed, ReadTimed, LongReads,
                                Selects, Answers
<1>. QED
  BY <1>1, <1>4, <1>5, <1>6, <1>7, <1>8, <1>9, FrameKeepsInv

\* The word of the dispatcher goes to a queue, or waits until it is not full.
LEMMA DispatcherPushes ==
  ASSUME NEW place, NEW r, NEW m, DimmInv(place, r, m), NEW c \in Chan,
         DispatchShortQueue(c) \/ DispatchLongQueue(c)
  PROVE  Follows(place)
<1>. DEFINE a == dispatch[c].addr
<1>0. Typed /\ Wakes /\ LocalsTyped
  BY DEF DimmInv, Typed
<1>1. /\ UNCHANGED <<bankVars, doneVars, mAvailableCredit, manager, peq>>
      /\ UNCHANGED mSlotTable /\ dispatch[c].at = "push"
  BY DEF DispatchShortQueue, DispatchLongQueue, bankVars
<1>2. /\ Enumerates(Content(c, "disp"), In(place, c, "disp"))
      /\ Enumerates(mAscq[c], In(place, c, "ascq"))
      /\ Enumerates(mAlcq[c], In(place, c, "alcq"))
  BY DEF DimmInv, Located, Held, Content
<1>3. In(place, c, "disp") = {a}
  BY <1>1, <1>2, EnumOne DEF Content
<1>4. a \in Addr /\ place[a] = "disp" /\ a \notin In(place, c, "ascq") \cup In(place, c, "alcq")
  BY <1>3 DEF In
<1>5. cmdDispatcherProcess(c)
  BY DEF cmdDispatcherProcess
<1>6. Wakes'
  <2>1. Dispatcher(c) \notin TimedProcs
    BY DEF Dispatcher, TimedProcs, TimedNames, DeviceProcs, Completion
  <2>. QED
    BY <1>0, <1>1, <1>5, <2>1, Runners, RunWithoutQueues
<1>7. \A d \in Chan \ {c} : ChannelSame(d)
  BY <1>0, <1>5, OthersSame DEF ChannelStep
<1>8. ManagerFits(c)'
  BY <1>1 DEF DimmInv, Kinds, ManagerFits, Kind
<1>9. CASE UNCHANGED <<mAscq, mAlcq, dispatch>>
  <2>1. LocalsTyped'
    BY <1>0, <1>1, <1>9 DEF LocalsTyped
  <2>2. \A p \in Held : Content(c, p)' = Content(c, p)
    BY <1>1, <1>9, TimedSame DEF Content, Held
  <2>3. mAvailableCredit'[c] + CreditUse(c)' = mAvailableCredit[c] + CreditUse(c)
    BY <1>1, <1>9, ReadingSame DEF CreditUse, Managed, ReadTimed, LongReads,
                                Selects, Answers
  <2>. QED
    BY <1>1, <1>6, <1>7, <1>8, <2>1, <2>2, <2>3, FrameKeepsInv
<1>10. PICK n : n = NextBank(dispatch[c].bank)
  OBVIOUS
<1>11. n \in [at : {"check", "bank"}, bank : Bank, addr : {Nil}] /\ n.at # "push"
  BY <1>0, <1>10, NextBankTyped DEF LocalsTyped
<1>12. ASSUME dispatch' = [dispatch EXCEPT ![c] = n]
       PROVE  /\ dispatch' \in [Chan -> [at : {"check", "bank", "push"}, bank : Bank,
                                         addr : Addr \cup {Nil}]]
              /\ Content(c, "disp")' = <<>>
  BY <1>0, <1>11, <1>12 DEF LocalsTyped, Content
<1>13. Enumerates(<<>>, In(place, c, "disp") \ {a})
  BY <1>3, EnumEmpty
<1>14. CASE /\ DispatchShortQueue(c) /\ mAscq' = [mAscq EXCEPT ![c] = Append(@, a)]
            /\ dispatch' = [dispatch EXCEPT ![c] = n]
  <2>1. UNCHANGED mAlcq /\ Kind(a) = "READ" /\ mAscq'[c] = Append(mAscq[c], a)
    BY <1>0, <1>14 DEF DispatchShortQueue, LocalsTyped
  <2>2. LocalsTyped'
    BY <1>0, <1>1, <1>4, <1>12, <1>14, <2>1 DEF LocalsTyped
  <2>3. Enumerates(Append(mAscq[c], a), In(place, c, "ascq") \cup {a})
    BY <1>2, <1>4, EnumAppend
  <2>4. Content(c, "ascq")' = Append(mAscq[c], a)
    BY <2>1 DEF Content
  <2>5. \A p \in Held \ {"disp", "ascq"} : Content(c, p)' = Content(c, p)
    BY <1>1, <2>1, TimedSame DEF Content, Held
  <2>6. mAvailableCredit'[c] + CreditUse(c)' = mAvailableCredit[c] + CreditUse(c)
    BY <1>1, <2>1, ReadingSame DEF CreditUse, Managed, ReadTimed, LongReads,
                                Selects, Answers
  <2>7. KindFits(a, "ascq")
    BY <2>1 DEF KindFits
  <2>8. /\ Enumerates(Content(c, "disp")', In(place, c, "disp") \ {a})
        /\ Enumerates(Content(c, "ascq")', In(place, c, "ascq") \cup {a})
    BY <1>12, <1>13, <1>14, <2>3, <2>4
  <2>. HIDE DEF a
  <2>9. "disp" \in Held /\ "ascq" \in Held \ {"disp"} /\ a \in In(place, c, "disp")
        /\ "disp" \in NeedsData /\ peq'[Completion] = peq[Completion]
    BY <1>1, <1>3 DEF Held, NeedsData
  <2>. QED
    BY <1>1, <1>6, <1>7, <1>8, <2>2, <2>5, <2>6, <2>7, <2>8, <2>9, MoveKeepsInv
<1>15. CASE /\ DispatchLongQueue(c) /\ mAlcq' = [mAlcq EXCEPT ![c] = Append(@, a)]
            /\ dispatch' = [dispatch EXCEPT ![c] = n]
  <2>1. UNCHANGED mAscq /\ Kind(a) = "WRITE" /\ mAlcq'[c] = Append(mAlcq[c], a)
    BY <1>0, <1>15 DEF DispatchLongQueue, LocalsTyped
  <2>2. LocalsTyped'
    BY <1>0, <1>1, <1>4, <1>12, <1>15, <2>1 DEF LocalsTyped
  <2>3. Enumerates(Append(mAlcq[c], a), In(place, c, "alcq") \cup {a})
    BY <1>2, <1>4, EnumAppend
  <2>4. Content(c, "alcq")' = Append(mAlcq[c], a)
    BY <2>1 DEF Content
  <2>5. \A p \in Held \ {"disp", "alcq"} : Content(c, p)' = Content(c, p)
    BY <1>1, <2>1, TimedSame DEF Content, Held
  <2>6. mAvailableCredit'[c] + CreditUse(c)' = mAvailableCredit[c] + CreditUse(c)
    <3>1. CountOf(mAlcq'[c], Reading) = CountOf(mAlcq[c], Reading)
      <4>1. mAlcq[c] \in Seq(Addr) /\ a \notin Reading
        BY <1>0, <2>1 DEF LocalsTyped, Reading
      <4>2. CountOf(Append(mAlcq[c], a), Reading) = CountOf(mAlcq[c], Reading) + 0
        BY <1>4, <4>1, CountAppend
      <4>3. CountOf(mAlcq[c], Reading) \in Nat
        BY <4>1, CountIsNat
      <4>. QED
        BY <2>1, <4>2, <4>3
    <3>. QED
      BY <1>1, <3>1, ReadingSame DEF CreditUse, Managed, ReadTimed, LongReads,
                                Selects, Answers
  <2>7. KindFits(a, "alcq")
    BY <2>1 DEF KindFits
  <2>8. /\ Enumerates(Content(c, "disp")', In(place, c, "disp") \ {a})
        /\ Enumerates(Content(c, "alcq")', In(place, c, "alcq") \cup {a})
    BY <1>12, <1>13, <1>15, <2>3, <2>4
  <2>. HIDE DEF a
  <2>9. "disp" \in Held /\ "alcq" \in Held \ {"disp"} /\ a \in In(place, c, "disp")
        /\ "disp" \in NeedsData /\ peq'[Completion] = peq[Completion]
    BY <1>1, <1>3 DEF Held, NeedsData
  <2>. QED
    BY <1>1, <1>6, <1>7, <1>8, <2>2, <2>5, <2>6, <2>7, <2>8, <2>9, MoveKeepsInv
<1>. QED
  BY <1>9, <1>10, <1>14, <1>15 DEF DispatchShortQueue, DispatchLongQueue

(***************************************************************************)
(* The channel manager.                                                    *)
(***************************************************************************)
\* The manager's timers are its own.
LEMMA ManagerNotTimed ==
  ASSUME NEW c
  PROVE  Manager(c) \notin TimedProcs
  BY DEF Manager, TimedProcs, TimedNames, DeviceProcs, Completion

\* What the word of the manager is.
LEMMA ManagerHolds ==
  ASSUME NEW place, Located(place), NEW c \in Chan,
         manager[c].at \notin {"top", "long"}, NEW a, a = manager[c].addr
  PROVE  /\ In(place, c, "mgr") = {a} /\ a \in Addr /\ place[a] = "mgr" /\ ChanOf(a) = c
         /\ Enumerates(<<>>, In(place, c, "mgr") \ {a})
<1>1. Enumerates(<<a>>, In(place, c, "mgr"))
  BY DEF Located, Held, Content
<1>2. In(place, c, "mgr") = {a}
  BY <1>1, EnumOne
<1>. QED
  BY <1>2, EnumEmpty DEF In

\* The manager takes the first read of the short queue, and a credit.
LEMMA ManagerTakesRead ==
  ASSUME NEW place, NEW r, NEW m, DimmInv(place, r, m), NEW c \in Chan, ManagerTakesShort(c)
  PROVE  Follows(place)
<1>0. Typed /\ Wakes /\ LocalsTyped /\ Located(place)
  BY DEF DimmInv, Typed
<1>. PICK a, q : a = Head(mAscq[c]) /\ q = mAscq[c]
  OBVIOUS
<1>1. /\ UNCHANGED <<bankVars, doneVars, dispatch, mAlcq, peq>> /\ UNCHANGED mSlotTable
      /\ manager[c].at = "top" /\ mAvailableCredit[c] # 0 /\ q # <<>>
      /\ mAvailableCredit' = [mAvailableCredit EXCEPT ![c] = mAvailableCredit[c] - 1]
      /\ mAscq' = [mAscq EXCEPT ![c] = Tail(q)]
      /\ manager' = [manager EXCEPT ![c] = [at |-> "ONFI_READ_COMMAND", addr |-> a]]
  BY DEF ManagerTakesShort, Issue, bankVars
<1>2. /\ Enumerates(Content(c, "mgr"), In(place, c, "mgr"))
      /\ Enumerates(q, In(place, c, "ascq"))
  BY <1>0 DEF Located, Held, Content
<1>3. a \in In(place, c, "ascq") /\ Enumerates(Tail(q), In(place, c, "ascq") \ {a})
  BY <1>1, <1>2, EnumTail
<1>4. a \in Addr /\ place[a] = "ascq" /\ Kind(a) = "READ"
  BY <1>3 DEF In, DimmInv, Kinds, KindFits
<1>5. In(place, c, "mgr") = {}
  BY <1>1, <1>2, EnumNone DEF Content
<1>6. chanManagerProcess(c)
  BY DEF chanManagerProcess
<1>7. Wakes'
  BY <1>0, <1>1, <1>6, ManagerNotTimed, Runners, RunWithoutQueues
<1>8. \A d \in Chan \ {c} : ChannelSame(d)
  BY <1>0, <1>6, OthersSame DEF ChannelStep
<1>9. manager'[c] = [at |-> "ONFI_READ_COMMAND", addr |-> a]
  BY <1>0, <1>1 DEF LocalsTyped
<1>10. ManagerFits(c)'
  BY <1>1, <1>4, <1>9 DEF ManagerFits, Kind, WritePlaces
<1>11. LocalsTyped'
  <2>1. mAscq' \in [Chan -> Seq(Addr)]
    BY <1>0, <1>1 DEF LocalsTyped
  <2>2. mAvailableCredit' \in [Chan -> Nat]
    BY <1>0, <1>1 DEF LocalsTyped
  <2>3. manager' \in [Chan -> [at : {"top", "long"} \cup ReadPlaces \cup WritePlaces,
                               addr : Addr \cup {Nil}]]
    BY <1>0, <1>1, <1>4 DEF LocalsTyped, ReadPlaces
  <2>. QED
    BY <1>0, <1>1, <2>1, <2>2, <2>3 DEF LocalsTyped
<1>12. Content(c, "ascq")' = Tail(q) /\ Content(c, "mgr")' = <<a>>
  BY <1>0, <1>1, <1>9 DEF Content, LocalsTyped
<1>13. Enumerates(<<a>>, In(place, c, "mgr") \cup {a})
  BY <1>5, EnumOne
<1>14. \A p \in Held \ {"ascq", "mgr"} : Content(c, p)' = Content(c, p)
  BY <1>1, TimedSame DEF Content, Held
<1>15. mAvailableCredit'[c] + CreditUse(c)' = mAvailableCredit[c] + CreditUse(c)
  <2>1. Managed(c) = 0 /\ Managed(c)' = 1
    BY <1>1, <1>9 DEF Managed, HasCredit
  <2>2. /\ ReadTimed(c)' = ReadTimed(c) /\ LongReads(c)' = LongReads(c)
        /\ Selects(c)' = Selects(c) /\ Answers(c)' = Answers(c)
    BY <1>1, ReadingSame DEF ReadTimed, LongReads, Selects, Answers
  <2>3. mAvailableCredit'[c] = mAvailableCredit[c] - 1
    BY <1>0, <1>1 DEF LocalsTyped
  <2>. QED
    BY <1>0, <2>1, <2>2, <2>3, CreditParts DEF CreditUse
<1>16. KindFits(a, "mgr") /\ "ascq" \in Held /\ "mgr" \in Held \ {"ascq"}
       /\ peq'[Completion] = peq[Completion]
  BY <1>1, <1>4 DEF KindFits, Held
<1>. QED
  BY <1>1, <1>3, <1>4, <1>7, <1>8, <1>10, <1>11, <1>12, <1>13, <1>14, <1>15, <1>16, MoveKeepsInv

\* The manager takes the first word of the long queue.
LEMMA ManagerTakesWord ==
  ASSUME NEW place, NEW r, NEW m, DimmInv(place, r, m), NEW c \in Chan, ManagerTakesLong(c)
  PROVE  Follows(place)
<1>0. Typed /\ Wakes /\ LocalsTyped /\ Located(place)
  BY DEF DimmInv, Typed
<1>. PICK a, q, at : /\ a = Head(mAlcq[c]) /\ q = mAlcq[c]
                     /\ at = IF Kind(a) = "WRITE" THEN "ONFI_WRITE_COMMAND"
                             ELSE "ONFI_BANK_SELECT_COMMAND"
  OBVIOUS
<1>1. /\ UNCHANGED <<bankVars, doneVars, dispatch, mAscq, mAvailableCredit, peq>>
      /\ UNCHANGED mSlotTable
      /\ manager[c].at \in {"top", "long"} /\ q # <<>>
      /\ mAlcq' = [mAlcq EXCEPT ![c] = Tail(q)]
      /\ manager' = [manager EXCEPT ![c] = [at |-> at, addr |-> a]]
  BY DEF ManagerTakesLong, PicksLong, Issue, bankVars
<1>2. /\ Enumerates(Content(c, "mgr"), In(place, c, "mgr"))
      /\ Enumerates(q, In(place, c, "alcq"))
  BY <1>0 DEF Located, Held, Content
<1>3. a \in In(place, c, "alcq") /\ Enumerates(Tail(q), In(place, c, "alcq") \ {a})
  BY <1>1, <1>2, EnumTail
<1>4. a \in Addr /\ place[a] = "alcq" /\ Kind(a) \in {"READ", "WRITE"}
  BY <1>3 DEF In, DimmInv, Kinds, KindFits
<1>5. In(place, c, "mgr") = {}
  BY <1>1, <1>2, EnumNone DEF Content
<1>6. chanManagerProcess(c)
  BY DEF chanManagerProcess
<1>7. Wakes'
  BY <1>0, <1>1, <1>6, ManagerNotTimed, Runners, RunWithoutQueues
<1>8. \A d \in Chan \ {c} : ChannelSame(d)
  BY <1>0, <1>6, OthersSame DEF ChannelStep
<1>9. manager'[c] = [at |-> at, addr |-> a]
  BY <1>0, <1>1 DEF LocalsTyped
<1>10. ManagerFits(c)'
  BY <1>1, <1>4, <1>9 DEF ManagerFits, Kind, WritePlaces, ReadPlaces
<1>11. LocalsTyped'
  <2>1. mAlcq' \in [Chan -> Seq(Addr)]
    BY <1>0, <1>1 DEF LocalsTyped
  <2>3. manager' \in [Chan -> [at : {"top", "long"} \cup ReadPlaces \cup WritePlaces,
                               addr : Addr \cup {Nil}]]
    BY <1>0, <1>1, <1>4 DEF LocalsTyped, ReadPlaces, WritePlaces
  <2>. QED
    BY <1>0, <1>1, <2>1, <2>3 DEF LocalsTyped
<1>12. Content(c, "alcq")' = Tail(q) /\ Content(c, "mgr")' = <<a>>
  BY <1>0, <1>1, <1>9 DEF Content, LocalsTyped
<1>13. Enumerates(<<a>>, In(place, c, "mgr") \cup {a})
  BY <1>5, EnumOne
<1>14. \A p \in Held \ {"alcq", "mgr"} : Content(c, p)' = Content(c, p)
  BY <1>1, TimedSame DEF Content, Held
<1>15. mAvailableCredit'[c] + CreditUse(c)' = mAvailableCredit[c] + CreditUse(c)
  <2>. PICK one : one = IF a \in Reading THEN 1 ELSE 0
    OBVIOUS
  <2>1. Managed(c) = 0 /\ Managed(c)' = one
    BY <1>1, <1>4, <1>9 DEF Managed, HasCredit, Reading
  <2>2. /\ ReadTimed(c)' = ReadTimed(c) /\ Selects(c)' = Selects(c) /\ Answers(c)' = Answers(c)
    BY <1>1 DEF ReadTimed, Selects, Answers
  <2>3. CountOf(q, Reading) = one + CountOf(Tail(q), Reading)
    BY <1>0, <1>1, CountTail DEF LocalsTyped
  <2>4. CountOf(Tail(q), Reading) \in Nat /\ one \in Nat
    <3>1. mAlcq[c] \in Seq(Addr)
      BY <1>0 DEF LocalsTyped
    <3>2. Tail(q) \in Seq(Addr)
      BY <1>1, <3>1
    <3>3. CountOf(Tail(q), Reading) \in Nat
      BY <3>2, CountIsNat
    <3>. QED
      BY <3>3
  <2>5. mAlcq'[c] = Tail(q)
    BY <1>0, <1>1 DEF LocalsTyped
  <2>6. LongReads(c) = one + LongReads(c)' /\ LongReads(c)' \in Nat
    BY <1>1, <2>3, <2>4, <2>5, ReadingSame DEF LongReads
  <2>7. CreditUse(c)' = CreditUse(c)
    BY <1>0, <2>1, <2>2, <2>4, <2>6, CreditParts DEF CreditUse
  <2>. QED
    BY <1>1, <2>7
<1>16. KindFits(a, "mgr") /\ "alcq" \in Held /\ "mgr" \in Held \ {"alcq"}
       /\ peq'[Completion] = peq[Completion] /\ "alcq" \in NeedsData
  BY <1>1, <1>4 DEF KindFits, Held, NeedsData
<1>. QED
  BY <1>1, <1>3, <1>4, <1>7, <1>8, <1>10, <1>11, <1>12, <1>13, <1>14, <1>15, <1>16, MoveKeepsInv

\* Steps in which the manager waits.
LEMMA ManagerStays ==
  ASSUME NEW place, NEW r, NEW m, DimmInv(place, r, m), NEW c \in Chan,
         ManagerWaits(c) \/ WriteWaitsForDL1(c)
  PROVE  Follows(place)
<1>0. Typed /\ Wakes /\ LocalsTyped /\ Located(place)
  BY DEF DimmInv, Typed
<1>1. /\ UNCHANGED <<bankVars, doneVars, dispatch, mAscq, mAlcq, mAvailableCredit, peq>>
      /\ UNCHANGED mSlotTable
  BY DEF ManagerWaits, WriteWaitsForDL1, bankVars, controllerVars
<1>2. /\ manager' \in [Chan -> [at : {"top", "long"} \cup ReadPlaces \cup WritePlaces,
                                addr : Addr \cup {Nil}]]
      /\ manager'[c] # manager[c] =>
           manager[c].at \in {"top", "long"} /\ manager'[c].at \in {"top", "long"}
  <2>1. CASE WriteWaitsForDL1(c)
    BY <1>0, <2>1 DEF WriteWaitsForDL1, LocalsTyped, controllerVars
  <2>2. CASE ManagerWaits(c) /\ manager' = [manager EXCEPT ![c].at = "long"]
    BY <1>0, <2>2 DEF ManagerWaits, PicksLong, LocalsTyped
  <2>3. CASE ManagerWaits(c) /\ manager' = [manager EXCEPT ![c] = [at |-> "top", addr |-> Nil]]
    BY <1>0, <2>3 DEF ManagerWaits, PicksLong, LocalsTyped
  <2>. QED
    BY <2>1, <2>2, <2>3 DEF ManagerWaits, BackToTop
<1>3. chanManagerProcess(c)
  BY DEF chanManagerProcess
<1>4. Wakes'
  BY <1>0, <1>1, <1>3, ManagerNotTimed, Runners, RunWithoutQueues
<1>5. \A d \in Chan \ {c} : ChannelSame(d)
  BY <1>0, <1>3, OthersSame DEF ChannelStep
<1>6. LocalsTyped'
  BY <1>0, <1>1, <1>2 DEF LocalsTyped
<1>7. \A p \in Held : Content(c, p)' = Content(c, p)
  BY <1>1, <1>2, TimedSame DEF Content, Held
<1>8. ManagerFits(c)'
  <2>1. ManagerFits(c)
    BY DEF DimmInv, Kinds
  <2>. QED
    BY <1>1, <1>2, <2>1 DEF ManagerFits, Kind, ReadPlaces, WritePlaces
<1>9. mAvailableCredit'[c] + CreditUse(c)' = mAvailableCredit[c] + CreditUse(c)
  BY <1>1, <1>2, ReadingSame DEF CreditUse, Managed, ReadTimed, LongReads, Selects, Answers,
                                HasCredit
<1>. QED
  BY <1>1, <1>4, <1>5, <1>6, <1>7, <1>8, <1>9, FrameKeepsInv

\* The request goes to the device.
LEMMA ManagerSends ==
  ASSUME NEW place, NEW r, NEW m, DimmInv(place, r, m), NEW c \in Chan, RRAMInterfaceMethod(c)
  PROVE  Follows(place)
<1>0. Typed /\ Wakes /\ LocalsTyped /\ Located(place)
  BY DEF DimmInv, Typed
<1>. PICK code, at, q :
       /\ code = manager[c].at
       /\ q = QueueOfCode(code, c)
       /\ at = IF code = "ONFI_READ_COMMAND" THEN "readSent"
               ELSE IF code = "ONFI_WRITE_COMMAND" THEN "writeSent" ELSE "selectSent"
  OBVIOUS
<1>1. /\ UNCHANGED <<bankVars, doneVars, dispatch, mAscq, mAlcq, mAvailableCredit>>
      /\ UNCHANGED mSlotTable
      /\ code \in Codes
      /\ manager' = [manager EXCEPT ![c].at = at]
  <2>1. CASE code = "ONFI_READ_COMMAND"
    BY <2>1 DEF RRAMInterfaceMethod, bankVars
  <2>2. CASE code = "ONFI_WRITE_COMMAND"
    BY <2>2 DEF RRAMInterfaceMethod, bankVars
  <2>3. CASE code = "ONFI_BANK_SELECT_COMMAND"
    BY <2>3 DEF RRAMInterfaceMethod, bankVars
  <2>. QED
    BY <2>1, <2>2, <2>3 DEF RRAMInterfaceMethod, Codes
<1>2. PICK x : peq' = Post(peq, q, x)
  BY DEF RRAMInterfaceMethod, nb_transport_fw
<1>3. /\ q \in {<<"ackWrite", c>>, <<"ackRead", c>>, <<"memRead", c>>}
      /\ q = <<"memRead", c>> <=> code = "ONFI_BANK_SELECT_COMMAND"
  BY <1>1 DEF Codes, QueueOfCode
<1>4. chanManagerProcess(c)
  BY DEF chanManagerProcess
<1>5. /\ Wakes' /\ Posted(peq'[q], peq[q], x)
      /\ \A k \in DOMAIN peq \ {q} : peq'[k] = peq[k]
  <2>1. q \in Peqs /\ Fits(q, x)
    BY <1>3, Names, FitsWhere
  <2>. QED
    BY <1>0, <1>2, <1>4, <2>1, ManagerNotTimed, Runners, RunPosts
<1>6. /\ peq'[PendingW(c)] = peq[PendingW(c)] /\ peq'[PendingR(c)] = peq[PendingR(c)]
      /\ peq'[Completion] = peq[Completion]
      /\ peq'[<<"checkResp", c>>] = peq[<<"checkResp", c>>]
      /\ q # <<"memRead", c>> => peq'[<<"memRead", c>>] = peq[<<"memRead", c>>]
  <2>1. {PendingW(c), PendingR(c), Completion, <<"checkResp", c>>, <<"memRead", c>>}
          \subseteq DOMAIN peq
    BY <1>0, Names DEF Wakes, QueuesTyped
  <2>2. q \notin {PendingW(c), PendingR(c), Completion, <<"checkResp", c>>}
    BY <1>3 DEF PendingW, PendingR, Completion
  <2>. QED
    BY <1>5, <2>1, <2>2
<1>7. /\ manager'[c].at = at /\ manager'[c].addr = manager[c].addr
      /\ manager' \in [Chan -> [at : {"top", "long"} \cup ReadPlaces \cup WritePlaces,
                                addr : Addr \cup {Nil}]]
  BY <1>0, <1>1 DEF LocalsTyped, ReadPlaces, WritePlaces, Codes
<1>8. LocalsTyped'
  BY <1>0, <1>1, <1>7 DEF LocalsTyped
<1>9. \A d \in Chan \ {c} : ChannelSame(d)
  BY <1>0, <1>4, OthersSame DEF ChannelStep
<1>10. \A p \in Held : Content(c, p)' = Content(c, p)
  BY <1>1, <1>6, <1>7, TimedSame DEF Content, Held, Codes
<1>11. ManagerFits(c)'
  <2>1. ManagerFits(c)
    BY DEF DimmInv, Kinds
  <2>. QED
    BY <1>1, <1>7, <2>1 DEF ManagerFits, Kind, ReadPlaces, WritePlaces, Codes
<1>12. CreditUse(c)' = CreditUse(c)
  <2>1. ReadTimed(c)' = ReadTimed(c) /\ LongReads(c)' = LongReads(c) /\ Answers(c)' = Answers(c)
    BY <1>1, <1>6, ReadingSame DEF ReadTimed, LongReads, Answers
  <2>2. CASE code = "ONFI_BANK_SELECT_COMMAND"
    <3>1. Managed(c) = 1 /\ Managed(c)' = 0
      BY <1>1, <1>7, <2>2 DEF Managed, HasCredit
    <3>2. Selects(c)' = Selects(c) + 1
      <4>1. PICK T : Suits(q, T) /\ peq[q] \in QueueOf(T)
        BY <1>0, <1>3, Names DEF Wakes, QueuesTyped
      <4>2. PICK U : U = T \cup {x}
        OBVIOUS
      <4>3. peq[q] \in QueueOf(U) /\ x \in U
        BY <4>1, <4>2, SeqMonotonic DEF QueueOf
      <4>4. Len(All(peq'[q])) = Len(All(peq[q])) + 1
        BY <1>5, <4>3, AllPosted
      <4>. QED
        BY <1>3, <2>2, <4>4 DEF Selects
    <3>. QED
      BY <1>0, <2>1, <3>1, <3>2, CreditParts DEF CreditUse
  <2>3. CASE code # "ONFI_BANK_SELECT_COMMAND"
    <3>1. Managed(c)' = Managed(c)
      BY <1>1, <1>7, <2>3 DEF Managed, HasCredit, Codes
    <3>2. Selects(c)' = Selects(c)
      BY <1>3, <1>6, <2>3 DEF Selects
    <3>. QED
      BY <2>1, <3>1, <3>2 DEF CreditUse
  <2>. QED
    BY <2>2, <2>3
<1>. QED
  BY <1>1, <1>5, <1>6, <1>8, <1>9, <1>10, <1>11, <1>12, FrameKeepsInv

\* The other queues of a channel.
LEMMA QueuesApart ==
  ASSUME Wakes, NEW c \in Chan,
         NEW q \in {PendingW(c), PendingR(c), <<"memRead", c>>, <<"checkResp", c>>, Completion},
         \A k \in DOMAIN peq \ {q} : peq'[k] = peq[k]
  PROVE  \A k \in {PendingW(c), PendingR(c), <<"memRead", c>>, <<"checkResp", c>>, Completion} \ {q} :
           peq'[k] = peq[k] /\ Timed(k)' = Timed(k)
<1>1. {PendingW(c), PendingR(c), <<"memRead", c>>, <<"checkResp", c>>, Completion}
        \subseteq DOMAIN peq
  BY Names DEF Wakes, QueuesTyped
<1>. QED
  BY <1>1, TimedSame

\* These queues are different ones.
LEMMA QueuesDiffer ==
  ASSUME NEW c \in Chan
  PROVE  /\ PendingW(c) \notin {PendingR(c), <<"memRead", c>>, <<"checkResp", c>>, Completion}
         /\ PendingR(c) \notin {PendingW(c), <<"memRead", c>>, <<"checkResp", c>>, Completion}
         /\ <<"memRead", c>> \notin {PendingW(c), PendingR(c), <<"checkResp", c>>, Completion}
         /\ <<"checkResp", c>> \notin {PendingW(c), PendingR(c), <<"memRead", c>>, Completion}
         /\ Completion \notin {PendingW(c), PendingR(c), <<"memRead", c>>, <<"checkResp", c>>}
  BY DEF PendingW, PendingR, Completion

\* The end of the manager's loop.
LEMMA ManagerReturns ==
  ASSUME LocalsTyped, NEW c \in Chan, BackToTop(c), UNCHANGED <<dispatch, mAscq, mAlcq>>,
         mAvailableCredit' = mAvailableCredit
  PROVE  /\ LocalsTyped' /\ manager'[c].at = "top" /\ ManagerFits(c)'
         /\ Content(c, "mgr")' = <<>>
         /\ \A p \in {"disp", "ascq", "alcq"} : Content(c, p)' = Content(c, p)
<1>1. manager' = [manager EXCEPT ![c] = [at |-> "top", addr |-> Nil]]
  BY DEF BackToTop
<1>2. /\ manager' \in [Chan -> [at : {"top", "long"} \cup ReadPlaces \cup WritePlaces,
                                addr : Addr \cup {Nil}]]
      /\ manager'[c].at = "top"
  BY <1>1 DEF LocalsTyped
<1>. QED
  BY <1>2 DEF LocalsTyped, ManagerFits, ReadPlaces, WritePlaces, Content

\* The read was accepted: its time runs.
LEMMA ManagerTimesRead ==
  ASSUME NEW place, NEW r, NEW m, DimmInv(place, r, m), NEW c \in Chan, ProcessShortQueueCmd(c)
  PROVE  Follows(place)
<1>0. Typed /\ Wakes /\ LocalsTyped /\ Located(place)
  BY DEF DimmInv, Typed
<1>. PICK a, q : a = manager[c].addr /\ q = PendingR(c)
  OBVIOUS
<1>1. /\ UNCHANGED <<bankVars, doneVars, dispatch, mAscq, mAlcq, mAvailableCredit>>
      /\ UNCHANGED mSlotTable
      /\ manager[c].at = "readSent" /\ BackToTop(c) /\ peq' = Post(peq, q, a)
  BY DEF ProcessShortQueueCmd, bankVars
<1>2. /\ In(place, c, "mgr") = {a} /\ a \in Addr /\ place[a] = "mgr"
      /\ Enumerates(<<>>, In(place, c, "mgr") \ {a})
  BY <1>0, <1>1, ManagerHolds
<1>3. Kind(a) = "READ"
  BY <1>1 DEF DimmInv, Kinds, ManagerFits, ReadPlaces
<1>4. chanManagerProcess(c)
  BY DEF chanManagerProcess
<1>5. /\ Wakes' /\ Posted(peq'[q], peq[q], a)
      /\ \A k \in DOMAIN peq \ {q} : peq'[k] = peq[k]
  <2>1. q \in Peqs /\ Fits(q, a)
    BY <1>2, Names, FitsWhere
  <2>. QED
    BY <1>0, <1>1, <1>4, <2>1, ManagerNotTimed, Runners, RunPosts
<1>6. \A d \in Chan \ {c} : ChannelSame(d)
  BY <1>0, <1>4, OthersSame DEF ChannelStep
<1>7. \A k \in {PendingW(c), <<"memRead", c>>, <<"checkResp", c>>, Completion} :
        peq'[k] = peq[k] /\ Timed(k)' = Timed(k)
  BY <1>0, <1>5, QueuesApart, QueuesDiffer
<1>8. /\ LocalsTyped' /\ manager'[c].at = "top" /\ ManagerFits(c)'
      /\ Content(c, "mgr")' = <<>>
      /\ \A p \in {"disp", "ascq", "alcq"} : Content(c, p)' = Content(c, p)
  BY <1>0, <1>1, ManagerReturns
<1>9. /\ Len(All(peq'[q])) = Len(All(peq[q])) + 1
      /\ OneMore(All(peq'[q]), All(peq[q]), a)
  <2>1. peq[q] \in QueueOf(Addr)
    BY <1>0, QueueTypes DEF Wakes
  <2>. QED
    BY <1>2, <1>5, <2>1, AllPosted
<1>10. Enumerates(Content(c, "pr")', In(place, c, "pr") \cup {a})
  <2>1. Enumerates(All(peq[q]), In(place, c, "pr"))
    BY <1>0 DEF Located, Held, Content, Timed, All
  <2>2. a \notin In(place, c, "pr")
    BY <1>2 DEF In
  <2>3. Enumerates(All(peq'[q]), In(place, c, "pr") \cup {a})
    BY <1>9, <2>1, <2>2 DEF OneMore
  <2>. QED
    BY <2>3 DEF Content, Timed, All
<1>11. \A p \in Held \ {"mgr", "pr"} : Content(c, p)' = Content(c, p)
  <2>1. Content(c, "pw")' = Content(c, "pw")
    BY <1>7 DEF Content
  <2>. QED
    BY <1>8, <2>1 DEF Held
<1>12. CreditUse(c)' = CreditUse(c)
  <2>1. Managed(c) = 1 /\ Managed(c)' = 0
    BY <1>1, <1>8 DEF Managed, HasCredit
  <2>2. ReadTimed(c)' = ReadTimed(c) + 1
    BY <1>9 DEF ReadTimed
  <2>3. LongReads(c)' = LongReads(c) /\ Selects(c)' = Selects(c) /\ Answers(c)' = Answers(c)
    BY <1>1, <1>7, ReadingSame DEF LongReads, Selects, Answers
  <2>. QED
    BY <1>0, <2>1, <2>2, <2>3, CreditParts DEF CreditUse
<1>13. KindFits(a, "pr") /\ "mgr" \in Held /\ "pr" \in Held \ {"mgr"}
       /\ a \in In(place, c, "mgr") /\ peq'[Completion] = peq[Completion] /\ "mgr" \in NeedsData
       /\ Enumerates(Content(c, "mgr")', In(place, c, "mgr") \ {a})
       /\ mAvailableCredit'[c] = mAvailableCredit[c]
  BY <1>1, <1>2, <1>3, <1>7, <1>8 DEF KindFits, Held, NeedsData
<1>. QED
  BY <1>1, <1>5, <1>6, <1>8, <1>10, <1>11, <1>12, <1>13, MoveKeepsInv

\* The write was accepted and has its latch: its time runs.
LEMMA ManagerTimesWrite ==
  ASSUME NEW place, NEW r, NEW m, DimmInv(place, r, m), NEW c \in Chan, ProcessWriteCmd(c)
  PROVE  Follows(place)
<1>0. Typed /\ Wakes /\ LocalsTyped /\ Located(place)
  BY DEF DimmInv, Typed
<1>. PICK a, q : a = manager[c].addr /\ q = PendingW(c)
  OBVIOUS
<1>1. /\ UNCHANGED <<bankVars, doneVars, dispatch, mAscq, mAlcq, mAvailableCredit>>
      /\ UNCHANGED mSlotTable
      /\ manager[c].at = "writeSent" /\ BackToTop(c) /\ peq' = Post(peq, q, a)
  BY DEF ProcessWriteCmd, bankVars
<1>2. /\ In(place, c, "mgr") = {a} /\ a \in Addr /\ place[a] = "mgr"
      /\ Enumerates(<<>>, In(place, c, "mgr") \ {a})
  BY <1>0, <1>1, ManagerHolds
<1>3. Kind(a) = "WRITE"
  BY <1>1 DEF DimmInv, Kinds, ManagerFits, WritePlaces
<1>4. chanManagerProcess(c)
  BY DEF chanManagerProcess
<1>5. /\ Wakes' /\ Posted(peq'[q], peq[q], a)
      /\ \A k \in DOMAIN peq \ {q} : peq'[k] = peq[k]
  <2>1. q \in Peqs /\ Fits(q, a)
    BY <1>2, Names, FitsWhere
  <2>. QED
    BY <1>0, <1>1, <1>4, <2>1, ManagerNotTimed, Runners, RunPosts
<1>6. \A d \in Chan \ {c} : ChannelSame(d)
  BY <1>0, <1>4, OthersSame DEF ChannelStep
<1>7. \A k \in {PendingR(c), <<"memRead", c>>, <<"checkResp", c>>, Completion} :
        peq'[k] = peq[k] /\ Timed(k)' = Timed(k)
  BY <1>0, <1>5, QueuesApart, QueuesDiffer
<1>8. /\ LocalsTyped' /\ manager'[c].at = "top" /\ ManagerFits(c)'
      /\ Content(c, "mgr")' = <<>>
      /\ \A p \in {"disp", "ascq", "alcq"} : Content(c, p)' = Content(c, p)
  BY <1>0, <1>1, ManagerReturns
<1>9. OneMore(All(peq'[q]), All(peq[q]), a)
  <2>1. peq[q] \in QueueOf(Addr)
    BY <1>0, QueueTypes DEF Wakes
  <2>. QED
    BY <1>2, <1>5, <2>1, AllPosted
<1>10. Enumerates(Content(c, "pw")', In(place, c, "pw") \cup {a})
  <2>1. Enumerates(All(peq[q]), In(place, c, "pw"))
    BY <1>0 DEF Located, Held, Content, Timed, All
  <2>2. a \notin In(place, c, "pw")
    BY <1>2 DEF In
  <2>3. Enumerates(All(peq'[q]), In(place, c, "pw") \cup {a})
    BY <1>9, <2>1, <2>2 DEF OneMore
  <2>. QED
    BY <2>3 DEF Content, Timed, All
<1>11. \A p \in Held \ {"mgr", "pw"} : Content(c, p)' = Content(c, p)
  <2>1. Content(c, "pr")' = Content(c, "pr")
    BY <1>7 DEF Content
  <2>. QED
    BY <1>8, <2>1 DEF Held
<1>12. CreditUse(c)' = CreditUse(c)
  <2>1. Managed(c) = 0 /\ Managed(c)' = 0
    BY <1>1, <1>8 DEF Managed, HasCredit
  <2>2. LongReads(c)' = LongReads(c) /\ Selects(c)' = Selects(c) /\ Answers(c)' = Answers(c)
        /\ ReadTimed(c)' = ReadTimed(c)
    BY <1>1, <1>7, ReadingSame DEF LongReads, Selects, Answers, ReadTimed
  <2>. QED
    BY <2>1, <2>2 DEF CreditUse
<1>13. KindFits(a, "pw") /\ "mgr" \in Held /\ "pw" \in Held \ {"mgr"}
       /\ a \in In(place, c, "mgr") /\ peq'[Completion] = peq[Completion] /\ "mgr" \in NeedsData
       /\ Enumerates(Content(c, "mgr")', In(place, c, "mgr") \ {a})
       /\ mAvailableCredit'[c] = mAvailableCredit[c]
  BY <1>1, <1>2, <1>3, <1>7, <1>8 DEF KindFits, Held, NeedsData
<1>. QED
  BY <1>1, <1>5, <1>6, <1>8, <1>10, <1>11, <1>12, <1>13, MoveKeepsInv

(***************************************************************************)
(* The method that waits for the read time, and the responses.             *)
(***************************************************************************)
\* The read time is over, but there is no room in the long queue yet.
LEMMA ReadWaits ==
  ASSUME NEW place, NEW r, NEW m, DimmInv(place, r, m), NEW c \in Chan,
         pendingReadCmdProcess(c), IsFull(mAlcq[c])
  PROVE  Follows(place)
<1>0. Typed /\ Wakes /\ LocalsTyped
  BY DEF DimmInv, Typed
<1>. PICK p : p = PendingR(c)
  OBVIOUS
<1>1. /\ UNCHANGED <<bankVars, doneVars, dispatch, mAscq, mAlcq, mAvailableCredit, manager, peq>>
      /\ UNCHANGED mSlotTable
      /\ Turn(p)
  BY DEF pendingReadCmdProcess, bankVars
<1>2. Runs(p) /\ p \in TimedProcs
  BY Runners, Names
<1>3. Wakes'
  <2>1. peq[p].due # <<>>
    BY <1>0, <1>1, <1>2, TurnHasDue
  <2>. QED
    BY <1>0, <1>1, <1>2, <2>1, WakesKept DEF Runs, Wakes, QueuesTyped
<1>4. \A d \in Chan \ {c} : ChannelSame(d)
  BY <1>0, OthersSame DEF ChannelStep
<1>5. LocalsTyped'
  BY <1>0, <1>1 DEF LocalsTyped
<1>6. \A x \in Held : Content(c, x)' = Content(c, x)
  BY <1>1, TimedSame DEF Content, Held
<1>7. ManagerFits(c)'
  BY <1>1 DEF DimmInv, Kinds, ManagerFits, Kind
<1>8. CreditUse(c)' = CreditUse(c)
  BY <1>1, ReadingSame DEF CreditUse, Managed, ReadTimed, LongReads, Selects, Answers
<1>. QED
  BY <1>1, <1>3, <1>4, <1>5, <1>6, <1>7, <1>8, FrameKeepsInv

\* The read time is over: the word goes to the long queue.
LEMMA ReadGoesOn ==
  ASSUME NEW place, NEW r, NEW m, DimmInv(place, r, m), NEW c \in Chan,
         pendingReadCmdProcess(c), ReadTimeIsOver(c)
  PROVE  Follows(place)
<1>0. Typed /\ Wakes /\ LocalsTyped /\ Located(place) /\ QueuesTyped(peq)
  BY DEF DimmInv, Typed, Wakes
<1>. PICK p, a, q : p = PendingR(c) /\ a = Head(peq[p].due) /\ q = mAlcq[c]
  OBVIOUS
<1>1. /\ UNCHANGED <<bankVars, doneVars, dispatch, mAscq, mAvailableCredit, manager>>
      /\ UNCHANGED mSlotTable
      /\ Turn(p)
      /\ mAlcq' = [mAlcq EXCEPT ![c] = Append(q, a)]
      /\ peq' = Take(peq, p) /\ EndOfLoop(p, peq')
  BY DEF pendingReadCmdProcess, ReadTimeIsOver, bankVars
<1>2. Runs(p) /\ p \in TimedProcs /\ p \in Peqs
  BY Runners, Names
<1>3. peq[p].due # <<>>
  BY <1>0, <1>1, <1>2, TurnHasDue
<1>4. /\ Wakes' /\ Taken(peq'[p], peq[p])
      /\ \A k \in DOMAIN peq \ {p} : peq'[k] = peq[k]
  BY <1>0, <1>1, <1>2, <1>3, RunTakes
<1>5. /\ Len(All(peq[p])) = Len(All(peq'[p])) + 1
      /\ OneLess(All(peq'[p]), All(peq[p]), a)
  <2>1. peq[p] \in QueueOf(Addr)
    BY <1>0, QueueTypes
  <2>. QED
    BY <1>4, <2>1, AllTaken
<1>6. a \in In(place, c, "pr") /\ Enumerates(All(peq'[p]), In(place, c, "pr") \ {a})
  <2>1. Enumerates(All(peq[p]), In(place, c, "pr"))
    BY <1>0 DEF Located, Held, Content, Timed, All
  <2>. QED
    BY <1>5, <2>1 DEF OneLess
<1>7. a \in Addr /\ place[a] = "pr" /\ Kind(a) = "READ"
  BY <1>6 DEF In, DimmInv, Kinds, KindFits
<1>8. \A k \in {PendingW(c), <<"memRead", c>>, <<"checkResp", c>>, Completion} :
        peq'[k] = peq[k] /\ Timed(k)' = Timed(k)
  BY <1>0, <1>4, QueuesApart, QueuesDiffer
<1>9. \A d \in Chan \ {c} : ChannelSame(d)
  BY <1>0, OthersSame DEF ChannelStep
<1>10. LocalsTyped' /\ mAlcq'[c] = Append(q, a)
  <2>1. q \in Seq(Addr)
    BY <1>0 DEF LocalsTyped
  <2>2. Append(q, a) \in Seq(Addr)
    BY <1>7, <2>1
  <2>3. mAlcq' \in [Chan -> Seq(Addr)] /\ mAlcq'[c] = Append(q, a)
    BY <1>0, <1>1, <2>2 DEF LocalsTyped
  <2>. QED
    BY <1>0, <1>1, <2>3 DEF LocalsTyped
<1>11. Enumerates(Content(c, "alcq")', In(place, c, "alcq") \cup {a})
  <2>1. Enumerates(q, In(place, c, "alcq")) /\ a \notin In(place, c, "alcq")
    BY <1>0, <1>7 DEF Located, Held, Content, In
  <2>2. Enumerates(Append(q, a), In(place, c, "alcq") \cup {a})
    BY <2>1, EnumAppend
  <2>. QED
    BY <1>10, <2>2 DEF Content
<1>12. Enumerates(Content(c, "pr")', In(place, c, "pr") \ {a})
  BY <1>6 DEF Content, Timed, All
<1>13. \A x \in Held \ {"pr", "alcq"} : Content(c, x)' = Content(c, x)
  BY <1>1, <1>8 DEF Content, Held
<1>14. ManagerFits(c)'
  BY <1>1 DEF DimmInv, Kinds, ManagerFits, Kind
<1>15. CreditUse(c)' = CreditUse(c)
  <2>1. ReadTimed(c) = ReadTimed(c)' + 1
    BY <1>5 DEF ReadTimed
  <2>2. LongReads(c)' = LongReads(c) + 1
    <3>1. q \in Seq(Addr) /\ a \in Reading
      BY <1>0, <1>7 DEF LocalsTyped, Reading
    <3>2. CountOf(Append(q, a), Reading) = CountOf(q, Reading) + 1
      BY <1>7, <3>1, CountAppend
    <3>. QED
      BY <1>1, <1>10, <3>2, ReadingSame DEF LongReads
  <2>3. Managed(c)' = Managed(c) /\ Selects(c)' = Selects(c) /\ Answers(c)' = Answers(c)
    BY <1>1, <1>8 DEF Managed, Selects, Answers
  <2>4. ReadTimed(c)' \in Nat
    BY <1>0, <2>1, AllTaken, <1>4, QueueTypes DEF ReadTimed
  <2>. QED
    BY <1>0, <2>1, <2>2, <2>3, <2>4, CreditParts DEF CreditUse
<1>16. KindFits(a, "alcq") /\ "pr" \in Held /\ "alcq" \in Held \ {"pr"}
       /\ peq'[Completion] = peq[Completion] /\ mAvailableCredit'[c] = mAvailableCredit[c]
  BY <1>1, <1>7, <1>8 DEF KindFits, Held
<1>. QED
  BY <1>1, <1>4, <1>6, <1>7, <1>9, <1>10, <1>11, <1>12, <1>13, <1>14, <1>15, <1>16, MoveKeepsInv

\* A response is taken: a read's returns its credit.
LEMMA ResponseTaken ==
  ASSUME NEW place, NEW r, NEW m, DimmInv(place, r, m), NEW c \in Chan, checkRespProcess(c)
  PROVE  Follows(place)
<1>0. Typed /\ Wakes /\ LocalsTyped /\ Located(place) /\ QueuesTyped(peq)
  BY DEF DimmInv, Typed, Wakes
<1>. PICK p : p = <<"checkResp", c>>
  OBVIOUS
<1>1. /\ UNCHANGED <<bankVars, doneVars, dispatch, mAscq, mAlcq, manager>>
      /\ UNCHANGED mSlotTable
  BY DEF checkRespProcess, bankVars
<1>2. Runs(p) /\ p \in Peqs /\ p \notin TimedProcs
  BY Runners, Names DEF TimedProcs, TimedNames, DeviceProcs, Completion
<1>3. \A d \in Chan \ {c} : ChannelSame(d)
  BY <1>0, OthersSame DEF ChannelStep
<1>4. ManagerFits(c)'
  BY <1>1 DEF DimmInv, Kinds, ManagerFits, Kind
<1>5. CASE peq[p].due = <<>>
  <2>1. UNCHANGED <<mAvailableCredit, peq>>
    BY <1>5 DEF checkRespProcess
  <2>2. Wakes'
    BY <1>0, <1>2, <2>1, RunWithoutQueues
  <2>3. LocalsTyped'
    BY <1>0, <1>1, <2>1 DEF LocalsTyped
  <2>4. \A x \in Held : Content(c, x)' = Content(c, x)
    BY <1>1, <2>1, TimedSame DEF Content, Held
  <2>5. CreditUse(c)' = CreditUse(c)
    BY <1>1, <2>1, ReadingSame DEF CreditUse, Managed, ReadTimed, LongReads, Selects, Answers
  <2>. QED
    BY <1>1, <1>3, <1>4, <2>1, <2>2, <2>3, <2>4, <2>5, FrameKeepsInv
<1>6. CASE peq[p].due # <<>>
  <2>. PICK x, one : x = Head(peq[p].due) /\ one = CreditOf(x)
    OBVIOUS
  <2>1. /\ mAvailableCredit' = [mAvailableCredit EXCEPT ![c] = mAvailableCredit[c] + one]
        /\ peq' = Take(peq, p)
    BY <1>6 DEF checkRespProcess
  <2>2. /\ Wakes' /\ Taken(peq'[p], peq[p])
        /\ \A k \in DOMAIN peq \ {p} : peq'[k] = peq[k]
    BY <1>0, <1>2, <1>6, <2>1, RunTakes
  <2>3. OneLess(All(peq'[p]), All(peq[p]), x) /\ All(peq'[p]) \in Seq({"READ", "WRITE"})
    <3>1. peq[p] \in QueueOf({"READ", "WRITE"})
      BY <1>0, QueueTypes
    <3>. QED
      BY <2>2, <3>1, AllTaken
  <2>4. one \in Nat /\ one = IF x \in {"READ"} THEN 1 ELSE 0
    BY DEF CreditOf
  <2>5. Answers(c) = Answers(c)' + one /\ Answers(c)' \in Nat
    <3>1. CountOf(All(peq[p]), {"READ"}) = CountOf(All(peq'[p]), {"READ"}) + one
      BY <2>3, <2>4 DEF OneLess
    <3>2. CountOf(All(peq'[p]), {"READ"}) \in Nat
      BY <2>3, CountIsNat
    <3>. QED
      BY <3>1, <3>2 DEF Answers
  <2>6. mAvailableCredit' \in [Chan -> Nat] /\ mAvailableCredit'[c] = mAvailableCredit[c] + one
    BY <1>0, <2>1, <2>4 DEF LocalsTyped
  <2>7. LocalsTyped'
    BY <1>0, <1>1, <2>6 DEF LocalsTyped
  <2>8. \A k \in {PendingW(c), PendingR(c), <<"memRead", c>>, Completion} :
          peq'[k] = peq[k] /\ Timed(k)' = Timed(k)
    BY <1>0, <2>2, QueuesApart, QueuesDiffer
  <2>9. \A y \in Held : Content(c, y)' = Content(c, y)
    BY <1>1, <2>8 DEF Content, Held
  <2>10. /\ Managed(c)' = Managed(c) /\ ReadTimed(c)' = ReadTimed(c)
         /\ LongReads(c)' = LongReads(c) /\ Selects(c)' = Selects(c)
    BY <1>1, <2>8, ReadingSame DEF Managed, ReadTimed, LongReads, Selects
  <2>11. mAvailableCredit'[c] + CreditUse(c)' = mAvailableCredit[c] + CreditUse(c)
    BY <1>0, <2>4, <2>5, <2>6, <2>10, CreditParts DEF CreditUse
  <2>12. peq'[Completion] = peq[Completion]
    BY <2>8
  <2>. QED
    BY <1>1, <1>3, <1>4, <2>2, <2>7, <2>9, <2>11, <2>12, FrameKeepsInv
<1>. QED
  BY <1>5, <1>6

(***************************************************************************)
(* The memory device.                                                      *)
(***************************************************************************)
\* A step of the device keeps the invariant if credits neither come nor go.
LEMMA DeviceKeeps ==
  ASSUME NEW place, NEW r, NEW m, DimmInv(place, r, m), NEW c \in Chan, DeviceStep(c),
         UNCHANGED controllerVars, Wakes',
         \A k \in {PendingW(c), PendingR(c), Completion} : peq'[k] = peq[k],
         Selects(c)' + Answers(c)' = Selects(c) + Answers(c)
  PROVE  Follows(place)
<1>0. Typed /\ Typed' /\ Wakes /\ LocalsTyped /\ LocalsTyped'
  BY DEF DimmInv, Typed, controllerVars, TableTyped, LocalsTyped, DoneTyped, bankVars, doneVars
<1>1. /\ UNCHANGED <<bankVars, doneVars, dispatch, mAscq, mAlcq, mAvailableCredit, manager>>
      /\ UNCHANGED mSlotTable
  BY DEF controllerVars, bankVars
<1>2. \A d \in Chan \ {c} : ChannelSame(d)
  BY <1>0, OthersSameInDevice
<1>3. \A x \in Held : Content(c, x)' = Content(c, x)
  BY <1>1, TimedSame DEF Content, Held
<1>4. ManagerFits(c)'
  BY <1>1 DEF DimmInv, Kinds, ManagerFits, Kind
<1>5. CreditUse(c)' = CreditUse(c)
  <2>1. Managed(c)' = Managed(c) /\ ReadTimed(c)' = ReadTimed(c) /\ LongReads(c)' = LongReads(c)
    BY <1>1, ReadingSame DEF Managed, ReadTimed, LongReads
  <2>2. /\ Selects(c) \in Nat /\ Answers(c) \in Nat /\ Managed(c) \in Nat
        /\ ReadTimed(c) \in Nat /\ LongReads(c) \in Nat
    BY <1>0, CreditParts
  <2>3. Selects(c)' \in Nat /\ Answers(c)' \in Nat
    <3>1. Len(All(peq'[<<"memRead", c>>])) \in Nat
      <4>1. PICK T : peq'[<<"memRead", c>>] \in QueueOf(T)
        BY <1>0, Names DEF Wakes, QueuesTyped
      <4>2. peq'[<<"memRead", c>>].run \in Seq(T) /\ peq'[<<"memRead", c>>].due \in Seq(T)
        BY <4>1 DEF QueueOf
      <4>3. All(peq'[<<"memRead", c>>]) \in Seq(T)
        BY <4>2, ConcatProperties DEF All
      <4>. QED
        BY <4>3
    <3>2. CountOf(All(peq'[<<"checkResp", c>>]), {"READ"}) \in Nat
      <4>1. PICK T : peq'[<<"checkResp", c>>] \in QueueOf(T)
        BY <1>0, Names DEF Wakes, QueuesTyped
      <4>2. peq'[<<"checkResp", c>>].run \in Seq(T) /\ peq'[<<"checkResp", c>>].due \in Seq(T)
        BY <4>1 DEF QueueOf
      <4>3. All(peq'[<<"checkResp", c>>]) \in Seq(T)
        BY <4>2, ConcatProperties DEF All
      <4>. QED
        BY <4>3, CountIsNat
    <3>. QED
      BY <3>1, <3>2 DEF Selects, Answers
  <2>. QED
    BY <2>1, <2>2, <2>3 DEF CreditUse
<1>. QED
  BY <1>0, <1>1, <1>2, <1>3, <1>4, <1>5, FrameKeepsInv

\* Queues of channel c the controller shares with the device are not those
\* the device works with on its own.
LEMMA DeviceQueuesApart ==
  ASSUME Wakes, NEW c \in Chan,
         NEW Q \in SUBSET {<<"ackWrite", c>>, <<"ackRead", c>>, <<"accRead", c>>, <<"accWrite", c>>},
         NEW X \in SUBSET {<<"memRead", c>>, <<"checkResp", c>>},
         \A k \in DOMAIN peq \ (Q \cup X) : peq'[k] = peq[k]
  PROVE  \A k \in {PendingW(c), PendingR(c), Completion, <<"memRead", c>>, <<"checkResp", c>>} \ X :
           peq'[k] = peq[k]
<1>1. {PendingW(c), PendingR(c), Completion, <<"memRead", c>>, <<"checkResp", c>>}
        \subseteq DOMAIN peq
  BY Names DEF Wakes, QueuesTyped
<1>2. {PendingW(c), PendingR(c), Completion, <<"memRead", c>>, <<"checkResp", c>>} \cap Q = {}
  BY DEF PendingW, PendingR, Completion
<1>. QED
  BY <1>1, <1>2 DEF PendingW, PendingR, Completion

\* Every step of the device keeps the invariant.
LEMMA DeviceMoves ==
  ASSUME NEW place, NEW r, NEW m, DimmInv(place, r, m), NEW c \in Chan, DeviceStep(c),
         UNCHANGED controllerVars
  PROVE  Follows(place)
<1>0. Wakes /\ QueuesTyped(peq)
  BY DEF DimmInv, Typed, Wakes
<1>1. ASSUME sendBackWriteACKMethod(c) \/ sendBackReadACKMethod(c) PROVE Follows(place)
  <2>1. PICK p, q, x :
          /\ p \in {<<"ackWrite", c>>, <<"ackRead", c>>} /\ q \in {<<"accWrite", c>>, <<"accRead", c>>}
          /\ Runs(p) /\ EndOfLoop(p, peq') /\ peq' = Post(Take(peq, p), q, x)
    <3>1. CASE sendBackWriteACKMethod(c)
      BY <3>1, DeviceRunners DEF sendBackWriteACKMethod
    <3>2. CASE sendBackReadACKMethod(c)
      BY <3>2, DeviceRunners DEF sendBackReadACKMethod
    <3>. QED
      BY <1>1, <3>1, <3>2
  <2>2. p \in TimedProcs /\ q \in Peqs \ {p} /\ Fits(q, x)
    <3>1. p \in TimedProcs /\ q \in TimedProcs /\ TimedProcs \subseteq Peqs
      BY <2>1, Names
    <3>2. Fits(q, x)
      BY <2>1, FitsWhere
    <3>3. p # q
      BY <2>1
    <3>. QED
      BY <3>1, <3>2, <3>3
  <2>3. Wakes' /\ \A k \in DOMAIN peq \ {p, q} : peq'[k] = peq[k]
    BY <1>0, <2>1, <2>2, RunTakesAndPosts
  <2>4. \A k \in {PendingW(c), PendingR(c), Completion, <<"memRead", c>>, <<"checkResp", c>>} :
          peq'[k] = peq[k]
    <3>1. PICK Q, X : Q = {p, q} /\ X = {}
      OBVIOUS
    <3>2. \A k \in DOMAIN peq \ (Q \cup X) : peq'[k] = peq[k]
      BY <2>3, <3>1
    <3>3. /\ Q \in SUBSET {<<"ackWrite", c>>, <<"ackRead", c>>, <<"accRead", c>>, <<"accWrite", c>>}
          /\ X \in SUBSET {<<"memRead", c>>, <<"checkResp", c>>}
      BY <2>1, <3>1
    <3>4. \A k \in {PendingW(c), PendingR(c), Completion, <<"memRead", c>>, <<"checkResp", c>>} \ X :
            peq'[k] = peq[k]
      BY <1>0, <3>2, <3>3, DeviceQueuesApart
    <3>. QED
      BY <3>1, <3>4
  <2>5. Selects(c)' = Selects(c) /\ Answers(c)' = Answers(c)
    BY <2>4 DEF Selects, Answers
  <2>. QED
    BY <2>3, <2>4, <2>5, DeviceKeeps
<1>2. ASSUME memReadMethod(c) PROVE Follows(place)
  <2>. PICK p, q : p = <<"memRead", c>> /\ q = <<"checkResp", c>>
    OBVIOUS
  <2>1. Runs(p) /\ EndOfLoop(p, peq') /\ peq' = Post(Take(peq, p), q, "READ")
    BY <1>2, DeviceRunners DEF memReadMethod
  <2>2. p \in TimedProcs /\ q \in Peqs \ {p} /\ Fits(q, "READ")
    BY Names, FitsWhere, QueuesDiffer
  <2>3. /\ Wakes' /\ \A k \in DOMAIN peq \ {p, q} : peq'[k] = peq[k]
        /\ Taken(peq'[p], peq[p]) /\ Posted(peq'[q], peq[q], "READ")
    BY <1>0, <2>1, <2>2, RunTakesAndPosts
  <2>4. \A k \in {PendingW(c), PendingR(c), Completion} : peq'[k] = peq[k]
    <3>1. PICK Q, X : Q = {} /\ X = {p, q}
      OBVIOUS
    <3>2. \A k \in DOMAIN peq \ (Q \cup X) : peq'[k] = peq[k]
      BY <2>3, <3>1
    <3>3. /\ Q \in SUBSET {<<"ackWrite", c>>, <<"ackRead", c>>, <<"accRead", c>>, <<"accWrite", c>>}
          /\ X \in SUBSET {<<"memRead", c>>, <<"checkResp", c>>}
      BY <3>1
    <3>4. \A k \in {PendingW(c), PendingR(c), Completion, <<"memRead", c>>, <<"checkResp", c>>} \ X :
            peq'[k] = peq[k]
      BY <1>0, <3>2, <3>3, DeviceQueuesApart
    <3>. QED
      BY <3>1, <3>4, QueuesDiffer
  <2>5. Selects(c) = Selects(c)' + 1 /\ Selects(c)' \in Nat
    <3>1. PICK T : peq[p] \in QueueOf(T)
      BY <1>0, QueueTypes
    <3>2. Len(All(peq[p])) = Len(All(peq'[p])) + 1 /\ Len(All(peq'[p])) \in Nat
      BY <2>3, <3>1, AllTaken
    <3>. QED
      BY <3>2 DEF Selects
  <2>6. Answers(c)' = Answers(c) + 1 /\ Answers(c) \in Nat
    <3>1. peq[q] \in QueueOf({"READ", "WRITE"})
      BY <1>0, QueueTypes
    <3>2. OneMore(All(peq'[q]), All(peq[q]), "READ")
      BY <2>3, <3>1, AllPosted
    <3>3. CountOf(All(peq'[q]), {"READ"}) = CountOf(All(peq[q]), {"READ"}) + 1
      BY <3>2 DEF OneMore
    <3>. QED
      BY <3>3, CreditParts DEF Answers, DimmInv
  <2>. QED
    BY <2>3, <2>4, <2>5, <2>6, DeviceKeeps
<1>3. ASSUME memAccessReadMethod(c) PROVE Follows(place)
  <2>. PICK p : p = <<"accRead", c>>
    OBVIOUS
  <2>1. Turn(p) /\ Runs(p) /\ EndOfLoop(p, peq') /\ peq' = Take(peq, p)
    BY <1>3, DeviceRunners DEF memAccessReadMethod
  <2>2. p \in TimedProcs /\ p \in Peqs
    BY Names
  <2>3. Wakes' /\ \A k \in DOMAIN peq \ {p} : peq'[k] = peq[k]
    BY <1>0, <2>1, <2>2, TurnHasDue, RunTakes
  <2>4. \A k \in {PendingW(c), PendingR(c), Completion, <<"memRead", c>>, <<"checkResp", c>>} :
          peq'[k] = peq[k]
    <3>1. PICK Q, X : Q = {p} /\ X = {}
      OBVIOUS
    <3>. QED
      BY <1>0, <2>3, <3>1, DeviceQueuesApart
  <2>5. Selects(c)' = Selects(c) /\ Answers(c)' = Answers(c)
    BY <2>4 DEF Selects, Answers
  <2>. QED
    BY <2>3, <2>4, <2>5, DeviceKeeps
<1>4. ASSUME memAccessWriteMethod(c) PROVE Follows(place)
  <2>. PICK p, q : p = <<"accWrite", c>> /\ q = <<"checkResp", c>>
    OBVIOUS
  <2>1. Runs(p) /\ EndOfLoop(p, peq') /\ peq' = PostNow(Take(peq, p), q, "WRITE")
    BY <1>4, DeviceRunners DEF memAccessWriteMethod
  <2>2. p \in TimedProcs /\ q \in Peqs \ {p} /\ q[1] = "checkResp"
    BY Names
  <2>3. /\ Wakes' /\ \A k \in DOMAIN peq \ {p, q} : peq'[k] = peq[k]
        /\ PostedNow(peq'[q], peq[q], "WRITE")
    BY <1>0, <2>1, <2>2, RunTakesAndResponds
  <2>4. \A k \in {PendingW(c), PendingR(c), Completion, <<"memRead", c>>} : peq'[k] = peq[k]
    <3>1. PICK Q, X : Q = {p} /\ X = {q}
      OBVIOUS
    <3>. QED
      BY <1>0, <2>3, <3>1, DeviceQueuesApart, QueuesDiffer
  <2>5. Selects(c)' = Selects(c)
    BY <2>4 DEF Selects
  <2>6. Answers(c)' = Answers(c)
    <3>1. peq[q] \in QueueOf({"READ", "WRITE"})
      BY <1>0, QueueTypes
    <3>2. \A R : CountOf(All(peq'[q]), R) = CountOf(All(peq[q]), R) + (IF "WRITE" \in R THEN 1 ELSE 0)
      BY <2>3, <3>1, AllPostedNow
    <3>3. CountOf(All(peq[q]), {"READ"}) \in Nat
      BY CreditParts DEF Answers, DimmInv
    <3>4. CountOf(All(peq'[q]), {"READ"}) = CountOf(All(peq[q]), {"READ"})
      BY <3>2, <3>3
    <3>. QED
      BY <3>4 DEF Answers
  <2>. QED
    BY <2>3, <2>4, <2>5, <2>6, DeviceKeeps
<1>5. ASSUME PhyDl2Takes(c) \/ PhyDl2Moves(c) \/ PhyDl2Sleeps(c) PROVE Follows(place)
  <2>. PICK p : p = <<"phyDl2Write", c>>
    OBVIOUS
  <2>1. Runs(p) /\ UNCHANGED peq /\ p \notin TimedProcs
    BY <1>5, DeviceRunners DEF PhyDl2Takes, PhyDl2Moves, PhyDl2Sleeps, TimedProcs, TimedNames,
         DeviceProcs, Completion
  <2>2. Wakes'
    BY <1>0, <2>1, RunWithoutQueues
  <2>3. Selects(c)' = Selects(c) /\ Answers(c)' = Answers(c)
    BY <2>1 DEF Selects, Answers
  <2>. QED
    BY <2>1, <2>2, <2>3, DeviceKeeps
<1>. QED
  BY <1>1, <1>2, <1>3, <1>4, <1>5 DEF DeviceStep

(***************************************************************************)
(* The kernel.                                                             *)
(***************************************************************************)
\* The tables, the lists, the countdowns and the data do not depend on time.
LEMMA TablesStay ==
  ASSUME NEW place, NEW r, NEW m, DimmInv(place, r, m), UNCHANGED controllerVars, Wakes',
         Len(Timed(Completion)') = Len(Timed(Completion))
  PROVE  /\ Typed' /\ Lists(place, r, m)' /\ Kinds(place)' /\ Finished(place)' /\ DataHeld(place)'
         /\ \A s \in Slot : StateOf(place, s)' = StateOf(place, s)
<1>1. Typed'
  BY DEF DimmInv, Typed, controllerVars, TableTyped, LocalsTyped, DoneTyped, bankVars, doneVars
<1>2. Lists(place, r, m)'
  BY ListsKept DEF DimmInv, controllerVars, bankVars
<1>3. Kinds(place)'
  BY DEF DimmInv, Kinds, KindFits, ManagerFits, Kind, controllerVars, bankVars
<1>4. Finished(place)'
  BY FinishedKept DEF DimmInv, controllerVars, bankVars, doneVars
<1>5. DataHeld(place)'
  BY DataKept DEF DimmInv, controllerVars, bankVars, doneVars
<1>6. \A s \in Slot : StateOf(place, s)' = StateOf(place, s)
  BY StatesKept DEF controllerVars
<1>. QED
  BY <1>1, <1>2, <1>3, <1>4, <1>5, <1>6

\* The places and the credits, if every queue holds the same entries.
LEMMA PlacesStay ==
  ASSUME NEW place, Located(place), CreditsKept,
         UNCHANGED <<dispatch, manager, mAscq, mAlcq, mAvailableCredit, mSlotTable, mCmdQueue>>,
         \A q \in Peqs : SameEntries(Timed(q)', Timed(q))
  PROVE  Located(place)' /\ CreditsKept'
<1>0. UNCHANGED <<dispatch, manager, mAscq, mAlcq, mAvailableCredit, mSlotTable, mCmdQueue>>
  OBVIOUS
<1>1. ASSUME NEW c \in Chan
      PROVE  /\ SameEntries(Timed(PendingW(c))', Timed(PendingW(c)))
             /\ SameEntries(Timed(PendingR(c))', Timed(PendingR(c)))
             /\ SameEntries(Timed(<<"memRead", c>>)', Timed(<<"memRead", c>>))
             /\ SameEntries(Timed(<<"checkResp", c>>)', Timed(<<"checkResp", c>>))
  <2>1. /\ PendingW(c) \in Peqs /\ PendingR(c) \in Peqs
        /\ <<"memRead", c>> \in Peqs /\ <<"checkResp", c>> \in Peqs
    BY Names
  <2>. QED
    BY <2>1
<1>2. ASSUME NEW c \in Chan, NEW p \in Held
      PROVE  Enumerates(Content(c, p), In(place, c, p))'
  <2>1. Enumerates(Content(c, p), In(place, c, p)) /\ In(place, c, p)' = In(place, c, p)
    BY <1>0 DEF Located, In, ChanOf
  <2>2. CASE p \in {"disp", "mgr", "ascq", "alcq"}
    <3>1. Content(c, p)' = Content(c, p)
      BY <1>0, <2>2 DEF Content
    <3>. QED
      BY <2>1, <3>1 DEF Enumerates
  <2>3. CASE p = "pw"
    <3>1. Content(c, p) = Timed(PendingW(c)) /\ Content(c, p)' = Timed(PendingW(c))'
      BY <2>3 DEF Content
    <3>2. Enumerates(Timed(PendingW(c))', In(place, c, p))
      BY <1>1, <2>1, <3>1 DEF SameEntries
    <3>. QED
      BY <2>1, <3>1, <3>2
  <2>4. CASE p = "pr"
    <3>1. Content(c, p) = Timed(PendingR(c)) /\ Content(c, p)' = Timed(PendingR(c))'
      BY <2>4 DEF Content
    <3>2. Enumerates(Timed(PendingR(c))', In(place, c, p))
      BY <1>1, <2>1, <3>1 DEF SameEntries
    <3>. QED
      BY <2>1, <3>1, <3>2
  <2>. QED
    BY <2>2, <2>3, <2>4 DEF Held
<1>3. ASSUME NEW c \in Chan PROVE CreditUse(c)' = CreditUse(c)
  <2>1. Managed(c)' = Managed(c) /\ LongReads(c)' = LongReads(c)
    BY <1>0, ReadingSame DEF Managed, LongReads
  <2>2. /\ Len(Timed(PendingR(c))') = Len(Timed(PendingR(c)))
        /\ Len(Timed(<<"memRead", c>>)') = Len(Timed(<<"memRead", c>>))
        /\ CountOf(Timed(<<"checkResp", c>>)', {"READ"}) = CountOf(Timed(<<"checkResp", c>>), {"READ"})
    BY <1>1 DEF SameEntries
  <2>3. ReadTimed(c)' = ReadTimed(c) /\ Selects(c)' = Selects(c) /\ Answers(c)' = Answers(c)
    BY <2>2 DEF ReadTimed, Selects, Answers, All, Timed
  <2>. QED
    BY <2>1, <2>3 DEF CreditUse
<1>. QED
  BY <1>0, <1>2, <1>3 DEF Located, CreditsKept

\* The same queues hold the same entries.
LEMMA SameIsSame ==
  ASSUME UNCHANGED peq
  PROVE  \A q \in Peqs : SameEntries(Timed(q)', Timed(q))
  BY DEF SameEntries, Timed

\* Delivery of the notifications.
LEMMA DeltaKeepsInv ==
  ASSUME NEW place, NEW r, NEW m, DimmInv(place, r, m), Delta, UNCHANGED controllerVars
  PROVE  Follows(place)
<1>1. Wakes' /\ UNCHANGED peq
  BY DeltaWakes DEF DimmInv, Typed, Delta
<1>2. Located(place)' /\ CreditsKept'
  BY <1>1, SameIsSame, PlacesStay DEF DimmInv, controllerVars, bankVars
<1>3. /\ Typed' /\ Lists(place, r, m)' /\ Kinds(place)' /\ Finished(place)' /\ DataHeld(place)'
      /\ \A s \in Slot : StateOf(place, s)' = StateOf(place, s)
  <2>1. Timed(Completion)' = Timed(Completion)
    BY <1>1 DEF Timed
  <2>. QED
    BY <1>1, <2>1, TablesStay
<1>. QED
  BY <1>2, <1>3 DEF Follows, Serves, DimmInv, controllerVars, bankVars

\* Timers expire.
LEMMA ExpireKeepsInv ==
  ASSUME NEW place, NEW r, NEW m, DimmInv(place, r, m), NEW S \in SUBSET Timers, Expire(S),
         UNCHANGED controllerVars
  PROVE  Follows(place)
<1>1. Wakes' /\ \A q \in Peqs : SameEntries(Timed(q)', Timed(q))
  BY ExpireKeeps DEF DimmInv, Typed
<1>2. Located(place)' /\ CreditsKept'
  BY <1>1, PlacesStay DEF DimmInv, controllerVars, bankVars
<1>3. /\ Typed' /\ Lists(place, r, m)' /\ Kinds(place)' /\ Finished(place)' /\ DataHeld(place)'
      /\ \A s \in Slot : StateOf(place, s)' = StateOf(place, s)
  <2>1. Completion \in Peqs
    BY DEF Peqs
  <2>2. Len(Timed(Completion)') = Len(Timed(Completion))
    BY <1>1, <2>1 DEF SameEntries
  <2>. QED
    BY <1>1, <2>2, TablesStay
<1>. QED
  BY <1>2, <1>3 DEF Follows, Serves, DimmInv, controllerVars, bankVars

(***************************************************************************)
(* The dispatcher takes the head of a list.                                *)
(***************************************************************************)
\* A list without its head is a list.
LEMMA LinkedWithoutHead ==
  ASSUME NEW S \in SUBSET Addr, NEW r \in [Addr -> Nat], NEW h, NEW t, NEW q,
         Linked(S, r, h, t, q), S # {},
         NEW h2, h2 = (IF h = t THEN Nil ELSE q[h].next),
         NEW t2, t2 = (IF h = t THEN Nil ELSE t)
  PROVE  Linked(S \ {h}, r, h2, t2, q)
<1>1. /\ h \in S /\ t \in S /\ h # Nil /\ t # Nil
      /\ \A a \in S : r[h] <= r[a] /\ r[a] <= r[t]
      /\ \A a, x \in S : r[a] = r[x] => a = x
      /\ \A a \in S \ {t} : /\ q[a].next \in S /\ r[a] < r[q[a].next]
                            /\ \A x \in S : r[a] < r[x] => r[q[a].next] <= r[x]
  BY DEF Linked
<1>2. \A a \in S : r[a] \in Nat /\ a # Nil
  BY ControllerAssumption DEF Addr, Nil
<1>3. CASE h = t
  <2>1. S = {h}
    BY <1>1, <1>2, <1>3
  <2>. QED
    BY <1>3, <2>1 DEF Linked
<1>4. CASE h # t
  <2>1. \A a \in S \ {h} : r[h] < r[a]
    BY <1>1, <1>2
  <2>2. h2 = q[h].next /\ t2 = t /\ h2 \in S \ {h} /\ t \in S \ {h}
    BY <1>1, <1>2, <1>4
  <2>3. \A a \in S \ {h} : r[h2] <= r[a] /\ r[a] <= r[t]
    BY <1>1, <1>4, <2>1, <2>2
  <2>4. ASSUME NEW a \in (S \ {h}) \ {t}
        PROVE  /\ q[a].next \in S \ {h} /\ r[a] < r[q[a].next]
               /\ \A x \in S \ {h} : r[a] < r[x] => r[q[a].next] <= r[x]
    <3>1. q[a].next \in S /\ r[a] < r[q[a].next]
          /\ \A x \in S : r[a] < r[x] => r[q[a].next] <= r[x]
      BY <1>1
    <3>2. q[a].next # h
      BY <1>2, <2>1, <3>1
    <3>. QED
      BY <3>1, <3>2
  <2>5. h2 # Nil /\ t2 # Nil /\ S \ {h} # {}
    BY <1>2, <2>2
  <2>. QED
    BY <1>1, <2>2, <2>3, <2>4, <2>5 DEF Linked
<1>. QED
  BY <1>3, <1>4

\* The head of a list is one of its words.
LEMMA HeadIsListed ==
  ASSUME NEW place, NEW r, NEW m, Lists(place, r, m), NEW c \in Chan, NEW b \in Bank,
         head[c][b] # Nil
  PROVE  /\ head[c][b] \in Listed(place, c, b) /\ head[c][b] \in Addr
         /\ place[head[c][b]] = "list" /\ ChanOf(head[c][b]) = c /\ BankOf(head[c][b]) = b
<1>1. Linked(Listed(place, c, b), r, head[c][b], tail[c][b], mCmdQueue)
  BY DEF Lists
<1>2. head[c][b] \in Listed(place, c, b)
  BY <1>1 DEF Linked
<1>. QED
  BY <1>2 DEF Listed

\* The list of a bank after a step.
LEMMA LinkedNext ==
  ASSUME NEW place, NEW r, NEW d, NEW e, NEW q, mCmdQueue' = q,
         NEW S, Listed(place, d, e)' = S, NEW h, head'[d][e] = h, NEW t, tail'[d][e] = t,
         Linked(S, r, h, t, q)
  PROVE  Linked(Listed(place, d, e), r, head[d][e], tail[d][e], mCmdQueue)'
  BY DEF Linked

\* The dispatcher unlinks a head.
LEMMA DispatcherTakes ==
  ASSUME NEW place, NEW r, NEW m, DimmInv(place, r, m), NEW c \in Chan, DispatcherUnlinks(c)
  PROVE  Follows(place)
<1>0. Typed /\ Wakes /\ LocalsTyped /\ TableTyped /\ Located(place) /\ Lists(place, r, m)
  BY DEF DimmInv, Typed
<1>. PICK b, a, h2, t2 : /\ b = dispatch[c].bank /\ a = head[c][b]
                         /\ h2 = HeadAfter(c, b)
                         /\ t2 = (IF a = tail[c][b] THEN Nil ELSE tail[c][b])
  OBVIOUS
<1>1. /\ UNCHANGED <<mCmdQueue, mSlotTable, doneVars, mAscq, mAlcq, mAvailableCredit, manager, peq>>
      /\ dispatch[c].at = "bank" /\ CanDispatch(c, b)
      /\ head' = [head EXCEPT ![c][b] = h2]
      /\ tail' = [tail EXCEPT ![c][b] = t2]
      /\ dispatch' = [dispatch EXCEPT ![c].at = "push", ![c].addr = a]
  BY DEF DispatcherUnlinks
<1>2. b \in Bank /\ a # Nil
  <2>1. CanDispatch(c, b) => HasWork(c, b)
    BY Zenon DEF CanDispatch
  <2>. QED
    BY <1>0, <1>1, <2>1 DEF LocalsTyped, HasWork
<1>3. /\ a \in Listed(place, c, b) /\ a \in Addr
      /\ place[a] = "list" /\ ChanOf(a) = c /\ BankOf(a) = b
  BY <1>0, <1>2, HeadIsListed
<1>4. h2 = IF a = tail[c][b] THEN Nil ELSE mCmdQueue[a].next
  BY DEF HeadAfter
<1>. PICK place2 : place2 = [place EXCEPT ![a] = "disp"]
  OBVIOUS
<1>5. /\ place \in [Addr -> Places] /\ place2 \in [Addr -> Places] /\ place2[a] = "disp"
      /\ \A x \in Addr \ {a} : place2[x] = place[x]
  BY <1>0, <1>3 DEF Located, Places, Held
<1>6. Listed(place2, c, b) = Listed(place, c, b) \ {a}
  BY <1>5 DEF Listed
<1>7. \A d \in Chan, e \in Bank : Listed(place2, d, e)' = Listed(place2, d, e)
  BY <1>1 DEF Listed, ChanOf, BankOf
<1>8. \A d \in Chan, e \in Bank : <<d, e>> # <<c, b>> => Listed(place2, d, e) = Listed(place, d, e)
  BY <1>3, <1>5 DEF Listed
<1>9. /\ h2 \in Addr \cup {Nil} /\ t2 \in Addr \cup {Nil}
      /\ Linked(Listed(place2, c, b), r, h2, t2, mCmdQueue)
  <2>1. /\ h2 \in Addr \cup {Nil} /\ t2 \in Addr \cup {Nil}
    BY <1>0, <1>2, <1>3, <1>4 DEF TableTyped, Entries
  <2>2. Linked(Listed(place, c, b), r, a, tail[c][b], mCmdQueue)
    BY <1>0, <1>2 DEF Lists
  <2>3. Listed(place, c, b) \in SUBSET Addr /\ r \in [Addr -> Nat] /\ Listed(place, c, b) # {}
    BY <1>0, <1>3 DEF Lists, Listed
  <2>4. Linked(Listed(place, c, b) \ {a}, r, h2, t2, mCmdQueue)
    BY <1>4, <2>2, <2>3, LinkedWithoutHead
  <2>. QED
    BY <1>6, <2>1, <2>4
<1>10. /\ head' \in [Chan -> [Bank -> Addr \cup {Nil}]]
       /\ tail' \in [Chan -> [Bank -> Addr \cup {Nil}]]
       /\ head'[c][b] = h2 /\ tail'[c][b] = t2
       /\ \A d \in Chan, e \in Bank : <<d, e>> # <<c, b>> =>
            head'[d][e] = head[d][e] /\ tail'[d][e] = tail[d][e]
  BY <1>0, <1>1, <1>2, <1>9 DEF TableTyped
<1>11. Lists(place2, r, m)'
  <2>1. ASSUME NEW d \in Chan, NEW e \in Bank
        PROVE  Linked(Listed(place2, d, e), r, head[d][e], tail[d][e], mCmdQueue)'
    <3>. PICK S, q : S = Listed(place2, d, e) /\ q = mCmdQueue
      OBVIOUS
    <3>0. Listed(place2, d, e)' = S /\ mCmdQueue' = q
      BY <1>1, <1>7
    <3>1. CASE d = c /\ e = b
      <4>1. Linked(S, r, h2, t2, q) /\ head'[d][e] = h2 /\ tail'[d][e] = t2
        BY <1>9, <1>10, <3>1
      <4>. QED
        BY <3>0, <4>1, LinkedNext
    <3>2. CASE ~(d = c /\ e = b)
      <4>. PICK h, t : h = head[d][e] /\ t = tail[d][e]
        OBVIOUS
      <4>1. <<d, e>> # <<c, b>>
        BY <3>2
      <4>2. Linked(S, r, h, t, q) /\ head'[d][e] = h /\ tail'[d][e] = t
        BY <1>0, <1>8, <1>10, <4>1 DEF Lists
      <4>. QED
        BY <3>0, <4>2, LinkedNext
    <3>. QED
      BY <3>1, <3>2
  <2>. QED
    BY <1>0, <2>1 DEF Lists
<1>12. cmdDispatcherProcess(c)
  BY DEF cmdDispatcherProcess
<1>13. Wakes'
  <2>1. Dispatcher(c) \notin TimedProcs
    BY DEF Dispatcher, TimedProcs, TimedNames, DeviceProcs, Completion
  <2>. QED
    BY <1>0, <1>1, <1>12, <2>1, Runners, RunWithoutQueues
<1>14. \A d \in Chan \ {c} : ChannelSame(d)
  BY <1>0, <1>12, OthersSame DEF ChannelStep
<1>15. ManagerFits(c)'
  BY <1>1 DEF DimmInv, Kinds, ManagerFits, Kind
<1>16. LocalsTyped' /\ dispatch'[c].at = "push" /\ dispatch'[c].addr = a
  <2>1. /\ dispatch' \in [Chan -> [at : {"check", "bank", "push"}, bank : Bank, addr : Addr \cup {Nil}]]
        /\ dispatch'[c].at = "push" /\ dispatch'[c].addr = a
    BY <1>0, <1>1, <1>3 DEF LocalsTyped
  <2>. QED
    BY <1>0, <1>1, <2>1 DEF LocalsTyped
<1>17. Typed'
  BY <1>0, <1>1, <1>10, <1>13, <1>16 DEF Typed, TableTyped, DoneTyped, doneVars
<1>18. ASSUME NEW p \in Held PROVE Enumerates(Content(c, p)', In(place2, c, p))
  <2>1. CASE p = "disp"
    <3>1. In(place, c, "disp") = {}
      <4>1. Enumerates(Content(c, "disp"), In(place, c, "disp"))
        BY <1>0 DEF Located, Held
      <4>2. Content(c, "disp") = <<>>
        BY <1>1 DEF Content
      <4>. QED
        BY <4>1, <4>2, EnumNone
    <3>2. In(place2, c, "disp") = {a}
      BY <1>3, <1>5, <3>1 DEF In
    <3>3. Content(c, "disp")' = <<a>>
      BY <1>16 DEF Content
    <3>. QED
      BY <2>1, <3>2, <3>3, EnumOne
  <2>2. CASE p # "disp"
    <3>1. Content(c, p)' = Content(c, p)
      BY <1>1, <2>2, TimedSame DEF Content, Held
    <3>2. In(place2, c, p) = In(place, c, p)
      BY <1>3, <1>5, <2>2 DEF In, Held
    <3>. QED
      BY <1>0, <3>1, <3>2 DEF Located
  <2>. QED
    BY <2>1, <2>2
<1>19. \A x \in Addr : place2[x] # place[x] => ChanOf(x) = c /\ KindFits(x, place2[x])
  <2>1. KindFits(a, "list")
    BY <1>3 DEF DimmInv, Kinds
  <2>. QED
    BY <1>3, <1>5, <2>1 DEF KindFits
<1>20. Finished(place2)'
  <2>1. \A x \in Addr : place[x] = "none" <=> place2[x] = "none"
    BY <1>3, <1>5
  <2>2. Timed(Completion)' = Timed(Completion)
    BY <1>1 DEF Timed
  <2>. QED
    BY <1>1, <2>1, <2>2, FinishedKept DEF DimmInv, doneVars
<1>21. DataHeld(place2)'
  <2>1. \A x \in Addr : place2[x] \in NeedsData => place[x] \in NeedsData
    BY <1>3, <1>5 DEF NeedsData
  <2>. QED
    BY <1>1, <2>1, DataKept DEF DimmInv, doneVars
<1>22. mAvailableCredit'[c] + CreditUse(c)' = mAvailableCredit[c] + CreditUse(c)
  BY <1>1, ReadingSame DEF CreditUse, Managed, ReadTimed, LongReads, Selects, Answers
<1>23. DimmInv(place2, r, m)'
  BY <1>1, <1>5, <1>11, <1>14, <1>15, <1>17, <1>18, <1>19, <1>20, <1>21, <1>22, ChannelKeepsInv
<1>24. \A x \in Addr : place[x] = "none" <=> place2[x] = "none"
  BY <1>3, <1>5
<1>25. \A s \in Slot : StateOf(place2, s)' = StateOf(place, s)
  BY <1>1, <1>24, StatesKept
<1>. QED
  BY <1>1, <1>23, <1>25 DEF Follows, Serves

(***************************************************************************)
(* The countdown of a slot.                                                *)
(***************************************************************************)
\* Products of natural numbers.
LEMMA ProductBelow ==
  ASSUME NEW n \in Nat, NEW k \in Nat, NEW q \in Int, NEW x \in Nat,
         x < n, n * q + x \in 0 .. k * n - 1
  PROVE  q \in 0 .. k - 1
<1>1. CASE q < 0
  <2>1. n * q <= -n
    <3>1. n * q = -n + n * (q + 1) /\ q + 1 <= 0
      BY <1>1
    <3>2. n * (q + 1) <= 0
      BY <3>1
    <3>. QED
      BY <3>1, <3>2
  <2>. QED
    BY <2>1
<1>2. CASE q >= k
  <2>1. n * q = k * n + n * (q - k) /\ q - k \in Nat
    BY <1>2
  <2>2. n * (q - k) >= 0 /\ n * (q - k) \in Int /\ k * n \in Int
    BY <2>1
  <2>. QED
    BY <2>1, <2>2
<1>. QED
  BY <1>1, <1>2

\* An address is in a slot.
LEMMA SlotOfTyped ==
  ASSUME NEW a \in Addr
  PROVE  SlotOf(a) \in Slot
<1>1. /\ SlotCws \in Nat \ {0} /\ NumSlots \in Nat \ {0} /\ a \in Int
      /\ a \in 0 .. NumSlots * SlotCws - 1
  BY ControllerAssumption DEF Addr
<1>2. PICK q \in Int, x \in Nat : q = a \div SlotCws /\ x < SlotCws /\ a = SlotCws * q + x
  <2>1. a \div SlotCws \in Int
    BY <1>1
  <2>2. a % SlotCws \in 0 .. SlotCws - 1
    BY <1>1
  <2>3. a = SlotCws * (a \div SlotCws) + (a % SlotCws)
    BY <1>1
  <2>. QED
    BY <1>1, <2>1, <2>2, <2>3
<1>3. q \in 0 .. NumSlots - 1
  BY <1>1, <1>2, ProductBelow
<1>. QED
  BY <1>2, <1>3 DEF SlotOf, Slot

\* The words of a slot are finitely many.
LEMMA LeftIsFinite ==
  ASSUME NEW place, NEW s
  PROVE  IsFiniteSet(Left(place, s)) /\ Cardinality(Left(place, s)) \in Nat
<1>1. IsFiniteSet(Addr)
  <2>1. 0 \in Int /\ NumSlots * SlotCws - 1 \in Int
    BY ControllerAssumption
  <2>. QED
    BY <2>1, FS_Interval, Zenon DEF Addr
<1>2. Left(place, s) \in SUBSET Addr
  BY DEF Left
<1>. QED
  BY <1>1, <1>2, FS_Subset, FS_CardinalityType

\* The countdown of slot s is at cnt and exact without word a.
CountedDown(place, place2, a, s, cnt) ==
  /\ s \in Slot /\ cnt \in 0 .. SlotCws /\ cnt = Cardinality(Left(place2, s))
  /\ mIntermediateQueue' \in [Slot -> 0 .. SlotCws]
  /\ \A x \in Slot : Counted(place2, x)'
  /\ a \in Left(place, s) /\ a \notin Left(place2, s)
  /\ \A x \in Slot : Left(place2, x) \subseteq Left(place, x)

\* A word ends: the countdown of its slot goes down by one.
LEMMA CountsDown ==
  ASSUME NEW place, place \in [Addr -> Places], DoneTyped, TableTyped,
         \A x \in Slot : Counted(place, x),
         NEW a \in Addr, place[a] # "none", NEW s, s = SlotOf(a),
         NEW place2, place2 = [place EXCEPT ![a] = "none"],
         UNCHANGED mSlotTable, NEW cnt, cnt = UpdatedCount(s),
         mIntermediateQueue' = [mIntermediateQueue EXCEPT ![s] = cnt]
  PROVE  CountedDown(place, place2, a, s, cnt)
<1>1. s \in Slot
  BY SlotOfTyped
<1>2. /\ place2[a] = "none" /\ \A x \in Addr \ {a} : place2[x] = place[x]
  OBVIOUS
<1>3. /\ a \in Left(place, s) /\ Left(place2, s) = Left(place, s) \ {a}
      /\ \A x \in Slot \ {s} : Left(place2, x) = Left(place, x)
  BY <1>2 DEF Left
<1>. PICK n : n = Cardinality(Left(place2, s))
  OBVIOUS
<1>4. n \in Nat /\ Cardinality(Left(place, s)) = n + 1
  <2>1. IsFiniteSet(Left(place, s)) /\ Cardinality(Left(place, s)) \in Nat /\ n \in Nat
    BY LeftIsFinite
  <2>2. Cardinality(Left(place, s) \ {a}) = Cardinality(Left(place, s)) - 1
    BY <1>3, <2>1, FS_RemoveElement
  <2>3. n = Cardinality(Left(place, s) \ {a})
    BY <1>3, Zenon
  <2>4. n = Cardinality(Left(place, s)) - 1
    BY <2>2, <2>3, Zenon
  <2>. QED
    BY <2>1, <2>4
<1>5. /\ mIntermediateQueue[s] \in 0 .. SlotCws /\ mSlotTable[s].cnt \in 0 .. SlotCws
      /\ mIntermediateQueue \in [Slot -> 0 .. SlotCws] /\ SlotCws \in Nat
  BY <1>1, ControllerAssumption DEF DoneTyped, TableTyped, Commands
<1>6. Counted(place, s)
  BY <1>1
<1>7. cnt = n /\ cnt \in 0 .. SlotCws
  <2>1. CASE mIntermediateQueue[s] # 0
    <3>1. n + 1 = mIntermediateQueue[s] /\ cnt = mIntermediateQueue[s] - 1
      BY <1>4, <1>6, <2>1 DEF Counted, UpdatedCount
    <3>. QED
      BY <1>4, <1>5, <3>1
  <2>2. CASE mIntermediateQueue[s] = 0
    <3>1. n + 1 \in {0, mSlotTable[s].cnt} /\ cnt = mSlotTable[s].cnt - 1
      BY <1>4, <1>6, <2>2 DEF Counted, UpdatedCount
    <3>. QED
      BY <1>4, <1>5, <3>1
  <2>. QED
    BY <2>1, <2>2
<1>8. /\ mIntermediateQueue' \in [Slot -> 0 .. SlotCws] /\ mIntermediateQueue'[s] = cnt
      /\ \A x \in Slot \ {s} : mIntermediateQueue'[x] = mIntermediateQueue[x]
  BY <1>1, <1>5, <1>7
<1>9. ASSUME NEW x \in Slot PROVE Counted(place2, x)'
  <2>0. Left(place2, x)' = Left(place2, x)
    BY DEF Left, SlotOf
  <2>1. CASE x = s
    BY <1>4, <1>7, <1>8, <2>0, <2>1 DEF Counted
  <2>2. CASE x # s
    <3>1. Counted(place, x) /\ Left(place2, x) = Left(place, x)
          /\ mIntermediateQueue'[x] = mIntermediateQueue[x]
      BY <1>3, <1>8, <2>2
    <3>. QED
      BY <2>0, <3>1 DEF Counted
  <2>. QED
    BY <2>1, <2>2
<1>10. a \notin Left(place2, s) /\ \A x \in Slot : Left(place2, x) \subseteq Left(place, x)
  BY <1>3
<1>. QED
  BY <1>1, <1>3, <1>7, <1>8, <1>9, <1>10 DEF CountedDown

(***************************************************************************)
(* Reports of finished commands.                                           *)
(***************************************************************************)
\* The two queues of reports, as sets.
LEMMA ReportedParts ==
  ASSUME DoneTyped, IsInjective(reported)
  PROVE  /\ Enumerates(mSlotNumQueue, Range(mSlotNumQueue))
         /\ Enumerates(mCompletionQueue, Range(mCompletionQueue))
         /\ Range(mSlotNumQueue) \cap Range(mCompletionQueue) = {}
         /\ Range(reported) = Range(mSlotNumQueue) \cup Range(mCompletionQueue)
<1>1. mSlotNumQueue \in Seq(Slot) /\ mCompletionQueue \in Seq(Slot)
  BY DEF DoneTyped
<1>2. mSlotNumQueue \o mCompletionQueue \in Seq(Slot)
  BY <1>1, ConcatProperties
<1>3. Enumerates(mSlotNumQueue \o mCompletionQueue, Range(reported))
  BY <1>2, EnumFrom DEF reported
<1>. QED
  BY <1>1, <1>3, EnumSplit

\* The reports after a step.
LEMMA ReportedNext ==
  ASSUME NEW A, NEW B, Enumerates(mSlotNumQueue', A), Enumerates(mCompletionQueue', B),
         A \cap B = {}
  PROVE  IsInjective(reported)' /\ Range(reported)' = A \cup B
<1>1. Enumerates(reported', A \cup B)
  BY EnumJoin DEF reported
<1>. QED
  BY <1>1, EnumRange

\* A slot that is not reported yet is reported by the first queue.
LEMMA ReportsFirst ==
  ASSUME DoneTyped, IsInjective(reported), NEW s \in Slot, s \notin Range(reported),
         mSlotNumQueue' = Append(mSlotNumQueue, s), UNCHANGED mCompletionQueue
  PROVE  /\ IsInjective(reported)' /\ Range(reported)' = Range(reported) \cup {s}
         /\ mSlotNumQueue' \in Seq(Slot) /\ mCompletionQueue' \in Seq(Slot)
         /\ Len(mSlotNumQueue') = Len(mSlotNumQueue) + 1
<1>1. /\ Enumerates(mSlotNumQueue, Range(mSlotNumQueue))
      /\ Enumerates(mCompletionQueue, Range(mCompletionQueue))
      /\ Range(mSlotNumQueue) \cap Range(mCompletionQueue) = {}
      /\ Range(reported) = Range(mSlotNumQueue) \cup Range(mCompletionQueue)
  BY ReportedParts
<1>. PICK A, B : A = Range(mSlotNumQueue) /\ B = Range(mCompletionQueue)
  OBVIOUS
<1>2. s \notin A /\ s \notin B
  BY <1>1
<1>3. Enumerates(mSlotNumQueue', A \cup {s})
  BY <1>1, <1>2, EnumAppend
<1>4. Enumerates(mCompletionQueue', B)
  BY <1>1
<1>5. (A \cup {s}) \cap B = {}
  BY <1>1, <1>2
<1>6. IsInjective(reported)' /\ Range(reported)' = (A \cup {s}) \cup B
  BY <1>3, <1>4, <1>5, ReportedNext
<1>7. /\ mSlotNumQueue' \in Seq(Slot) /\ mCompletionQueue' \in Seq(Slot)
      /\ Len(mSlotNumQueue') = Len(mSlotNumQueue) + 1
  BY DEF DoneTyped
<1>8. Range(reported)' = Range(reported) \cup {s}
  BY <1>1, <1>6
<1>. QED
  BY <1>6, <1>7, <1>8

\* A slot that is not reported yet is reported to the host.
LEMMA ReportsAtOnce ==
  ASSUME DoneTyped, IsInjective(reported), NEW s \in Slot, s \notin Range(reported),
         mCompletionQueue' = Append(mCompletionQueue, s), UNCHANGED mSlotNumQueue
  PROVE  /\ IsInjective(reported)' /\ Range(reported)' = Range(reported) \cup {s}
         /\ mSlotNumQueue' \in Seq(Slot) /\ mCompletionQueue' \in Seq(Slot)
<1>1. /\ Enumerates(mSlotNumQueue, Range(mSlotNumQueue))
      /\ Enumerates(mCompletionQueue, Range(mCompletionQueue))
      /\ Range(mSlotNumQueue) \cap Range(mCompletionQueue) = {}
      /\ Range(reported) = Range(mSlotNumQueue) \cup Range(mCompletionQueue)
  BY ReportedParts
<1>. PICK A, B : A = Range(mSlotNumQueue) /\ B = Range(mCompletionQueue)
  OBVIOUS
<1>2. s \notin A /\ s \notin B
  BY <1>1
<1>3. Enumerates(mSlotNumQueue', A)
  BY <1>1
<1>4. Enumerates(mCompletionQueue', B \cup {s})
  BY <1>1, <1>2, EnumAppend
<1>5. A \cap (B \cup {s}) = {}
  BY <1>1, <1>2
<1>6. IsInjective(reported)' /\ Range(reported)' = A \cup (B \cup {s})
  BY <1>3, <1>4, <1>5, ReportedNext
<1>7. mSlotNumQueue' \in Seq(Slot) /\ mCompletionQueue' \in Seq(Slot)
  BY DEF DoneTyped
<1>8. Range(reported)' = Range(reported) \cup {s}
  BY <1>1, <1>6
<1>. QED
  BY <1>6, <1>7, <1>8

\* The first report goes on to the host, by the queue or by a status.
LEMMA ReportsOn ==
  ASSUME DoneTyped, IsInjective(reported), mSlotNumQueue # <<>>,
         NEW s, s = Head(mSlotNumQueue), mSlotNumQueue' = Tail(mSlotNumQueue)
  PROVE  /\ s \in Slot /\ s \in Range(reported)
         /\ mSlotNumQueue' \in Seq(Slot) /\ Len(mSlotNumQueue) = Len(mSlotNumQueue') + 1
         /\ mCompletionQueue' = Append(mCompletionQueue, s) =>
              /\ IsInjective(reported)' /\ Range(reported)' = Range(reported)
              /\ mCompletionQueue' \in Seq(Slot)
         /\ mCompletionQueue' = mCompletionQueue =>
              IsInjective(reported)' /\ Range(reported)' = Range(reported) \ {s}
<1>1. /\ Enumerates(mSlotNumQueue, Range(mSlotNumQueue))
      /\ Enumerates(mCompletionQueue, Range(mCompletionQueue))
      /\ Range(mSlotNumQueue) \cap Range(mCompletionQueue) = {}
      /\ Range(reported) = Range(mSlotNumQueue) \cup Range(mCompletionQueue)
  BY ReportedParts
<1>. PICK A, B : A = Range(mSlotNumQueue) /\ B = Range(mCompletionQueue)
  OBVIOUS
<1>2. s \in A /\ Enumerates(mSlotNumQueue', A \ {s})
  BY <1>1, EnumTail
<1>3. s \in Slot /\ mSlotNumQueue' \in Seq(Slot) /\ Len(mSlotNumQueue) = Len(mSlotNumQueue') + 1
  BY DEF DoneTyped
<1>4. s \notin B /\ s \in Range(reported)
  BY <1>1, <1>2
<1>5. ASSUME mCompletionQueue' = Append(mCompletionQueue, s)
      PROVE  /\ IsInjective(reported)' /\ Range(reported)' = Range(reported)
             /\ mCompletionQueue' \in Seq(Slot)
  <2>1. Enumerates(mCompletionQueue', B \cup {s})
    BY <1>1, <1>4, <1>5, EnumAppend
  <2>2. (A \ {s}) \cap (B \cup {s}) = {} /\ (A \ {s}) \cup (B \cup {s}) = Range(reported)
    BY <1>1, <1>2
  <2>3. IsInjective(reported)' /\ Range(reported)' = (A \ {s}) \cup (B \cup {s})
    BY <1>2, <2>1, <2>2, ReportedNext
  <2>4. mCompletionQueue' \in Seq(Slot)
    BY <1>3, <1>5 DEF DoneTyped
  <2>. QED
    BY <2>2, <2>3, <2>4
<1>6. ASSUME mCompletionQueue' = mCompletionQueue
      PROVE  IsInjective(reported)' /\ Range(reported)' = Range(reported) \ {s}
  <2>1. Enumerates(mCompletionQueue', B)
    BY <1>1, <1>6
  <2>2. (A \ {s}) \cap B = {} /\ (A \ {s}) \cup B = Range(reported) \ {s}
    BY <1>1, <1>4
  <2>3. IsInjective(reported)' /\ Range(reported)' = (A \ {s}) \cup B
    BY <1>2, <2>1, <2>2, ReportedNext
  <2>. QED
    BY <2>2, <2>3
<1>. QED
  BY <1>3, <1>4, <1>5, <1>6

\* The countdown has reached cnt: the slot is reported with its last word.
StillCounting ==
  /\ Len(Timed(Completion)') = Len(Timed(Completion))
  /\ UNCHANGED <<mSlotNumQueue, mCompletionQueue, mCompletionQueue_mcore>>
ReportedFirst(s) ==
  /\ Len(Timed(Completion)') = Len(Timed(Completion)) + 1
  /\ mSlotNumQueue' = Append(mSlotNumQueue, s)
  /\ UNCHANGED <<mCompletionQueue, mCompletionQueue_mcore>>
ReportedAtOnce(s) ==
  /\ Len(Timed(Completion)') = Len(Timed(Completion))
  /\ Complete(s) /\ UNCHANGED mSlotNumQueue
Ended(s, cnt) == IF cnt # 0 THEN StillCounting ELSE ReportedFirst(s) \/ ReportedAtOnce(s)

\* Slot s alone may be reported, once.
ReportsOnly(s, cnt) ==
  /\ IsInjective(reported)' /\ Len(mSlotNumQueue') = Len(Timed(Completion)')
  /\ mSlotNumQueue' \in Seq(Slot) /\ mCompletionQueue' \in Seq(Slot)
  /\ mCompletionQueue_mcore' \in [Slot -> BOOLEAN]
  /\ \A x \in Slot \ {s} : /\ x \in Range(reported)' <=> x \in Range(reported)
                           /\ mCompletionQueue_mcore'[x] = mCompletionQueue_mcore[x]
  /\ s \in Range(reported)' \/ mCompletionQueue_mcore'[s] <=> cnt = 0
  /\ s \in Range(reported)' => ~mCompletionQueue_mcore'[s]

\* No other slot is reported.
LEMMA EndReportsOnly ==
  ASSUME DoneTyped, IsInjective(reported), NEW s \in Slot, s \notin Range(reported),
         ~mCompletionQueue_mcore[s], Len(mSlotNumQueue) = Len(Timed(Completion)),
         NEW cnt, Ended(s, cnt)
  PROVE  ReportsOnly(s, cnt)
<1>1. /\ mCompletionQueue_mcore \in [Slot -> BOOLEAN]
      /\ mSlotNumQueue \in Seq(Slot) /\ mCompletionQueue \in Seq(Slot)
  BY DEF DoneTyped
<1>2. CASE cnt # 0
  <2>1. StillCounting
    BY <1>2 DEF Ended
  <2>2. reported' = reported /\ Range(reported)' = Range(reported)
    BY <2>1 DEF reported, StillCounting, Range
  <2>. QED
    BY <1>1, <1>2, <2>1, <2>2 DEF ReportsOnly, StillCounting
<1>3. CASE cnt = 0 /\ ReportedFirst(s)
  <2>1. /\ IsInjective(reported)' /\ Range(reported)' = Range(reported) \cup {s}
        /\ mSlotNumQueue' \in Seq(Slot) /\ mCompletionQueue' \in Seq(Slot)
        /\ Len(mSlotNumQueue') = Len(mSlotNumQueue) + 1
    BY <1>3, ReportsFirst DEF ReportedFirst
  <2>2. /\ mCompletionQueue_mcore' = mCompletionQueue_mcore
        /\ Len(Timed(Completion)') = Len(Timed(Completion)) + 1
    BY <1>3 DEF ReportedFirst
  <2>. QED
    BY <1>1, <1>3, <2>1, <2>2 DEF ReportsOnly
<1>4. CASE cnt = 0 /\ ReportedAtOnce(s)
  <2>1. Complete(s) /\ UNCHANGED mSlotNumQueue /\ Len(Timed(Completion)') = Len(Timed(Completion))
    BY <1>4 DEF ReportedAtOnce
  <2>2. CASE Mode = 0
    <3>1. /\ IsInjective(reported)' /\ Range(reported)' = Range(reported) \cup {s}
          /\ mSlotNumQueue' \in Seq(Slot) /\ mCompletionQueue' \in Seq(Slot)
          /\ mCompletionQueue_mcore' = mCompletionQueue_mcore
      BY <2>1, <2>2, ReportsAtOnce DEF Complete
    <3>. QED
      BY <1>1, <1>4, <2>1, <3>1 DEF ReportsOnly
  <2>3. CASE Mode # 0
    <3>1. /\ mCompletionQueue' = mCompletionQueue
          /\ mCompletionQueue_mcore' = [mCompletionQueue_mcore EXCEPT ![s] = TRUE]
      BY <2>1, <2>3 DEF Complete
    <3>2. reported' = reported
      BY <2>1, <3>1 DEF reported
    <3>3. /\ mCompletionQueue_mcore' \in [Slot -> BOOLEAN]
          /\ \A x \in Slot \ {s} : mCompletionQueue_mcore'[x] = mCompletionQueue_mcore[x]
      BY <1>1, <3>1
    <3>. QED
      BY <1>1, <1>4, <2>1, <3>1, <3>2, <3>3 DEF ReportsOnly
  <2>. QED
    BY <2>2, <2>3
<1>. QED
  BY <1>2, <1>3, <1>4 DEF Ended

\* A word that ends is reported with the last one of its slot.
LEMMA EndReported ==
  ASSUME NEW place, DoneTyped, Reports(place),
         NEW s \in Slot, NEW cnt, Ended(s, cnt), Left(place, s) # {},
         NEW place2, \A x \in Slot : Left(place2, x) \subseteq Left(place, x),
         \A x \in Slot \ {s} : Left(place2, x) = Left(place, x),
         cnt = 0 <=> Left(place2, s) = {}, UNCHANGED mSlotTable
  PROVE  /\ Reports(place2)'
         /\ mSlotNumQueue' \in Seq(Slot) /\ mCompletionQueue' \in Seq(Slot)
         /\ mCompletionQueue_mcore' \in [Slot -> BOOLEAN]
         /\ Serves(place, place2)
<1>1. /\ IsInjective(reported) /\ s \notin Range(reported) /\ ~mCompletionQueue_mcore[s]
      /\ \A x \in Slot : /\ x \in Range(reported) \/ mCompletionQueue_mcore[x] => Left(place, x) = {}
                         /\ x \in Range(reported) => ~mCompletionQueue_mcore[x]
      /\ Len(mSlotNumQueue) = Len(Timed(Completion))
  BY DEF Reports
<1>2. \A x : Left(place2, x)' = Left(place2, x)
  BY DEF Left, SlotOf
<1>3. ReportsOnly(s, cnt)
  BY <1>1, EndReportsOnly
<1>4. ASSUME NEW x \in Slot
      PROVE  /\ x \in Range(reported)' \/ mCompletionQueue_mcore'[x] => Left(place2, x) = {}
             /\ x \in Range(reported)' => ~mCompletionQueue_mcore'[x]
  BY <1>1, <1>3 DEF ReportsOnly
<1>5. Reports(place2)'
  BY <1>2, <1>3, <1>4 DEF Reports, ReportsOnly
<1>6. /\ StateOf(place, s) = "busy"
      /\ StateOf(place2, s)' = IF cnt = 0 THEN "done" ELSE "busy"
      /\ \A x \in Slot \ {s} : StateOf(place2, x)' = StateOf(place, x)
  BY <1>1, <1>2, <1>3 DEF StateOf, ReportsOnly
<1>7. Serves(place, place2)
  <2>1. CASE cnt = 0
    BY <1>6, <2>1 DEF Serves
  <2>2. CASE cnt # 0
    BY <1>6, <2>2 DEF Serves
  <2>. QED
    BY <2>1, <2>2
<1>. QED
  BY <1>3, <1>5, <1>7 DEF ReportsOnly

\* A step in which word a ends.
LEMMA WordEnds ==
  ASSUME NEW place, NEW r, NEW m, DimmInv(place, r, m), Wakes', LocalsTyped', UNCHANGED bankVars,
         NEW c \in Chan, \A d \in Chan \ {c} : ChannelSame(d),
         NEW p \in Held, NEW a \in In(place, c, p), NEW s, s = SlotOf(a),
         NEW cnt, cnt = UpdatedCount(s), Ended(s, cnt),
         mIntermediateQueue' = [mIntermediateQueue EXCEPT ![s] = cnt],
         IsFcn(mDataBuffer)', DOMAIN mDataBuffer' = Addr,
         \A x \in Addr \ {a} : mDataBuffer'[x] = mDataBuffer[x],
         Enumerates(Content(c, p)', In(place, c, p) \ {a}),
         \A x \in Held \ {p} : Content(c, x)' = Content(c, x),
         ManagerFits(c)',
         mAvailableCredit'[c] + CreditUse(c)' = mAvailableCredit[c] + CreditUse(c)
  PROVE  Follows(place)
<1>. PICK place2 : place2 = [place EXCEPT ![a] = "none"]
  OBVIOUS
<1>0. /\ place \in [Addr -> Places] /\ a \in Addr /\ place[a] = p /\ ChanOf(a) = c
      /\ place2 \in [Addr -> Places] /\ place2[a] = "none"
      /\ \A x \in Addr \ {a} : place2[x] = place[x]
      /\ p # "none" /\ p # "list"
  BY DEF DimmInv, Located, In, Held, Places
<1>1. Typed /\ DoneTyped /\ TableTyped /\ Finished(place) /\ UNCHANGED <<mSlotTable, mCmdQueue>>
  BY DEF DimmInv, Typed, bankVars
<1>2. /\ s \in Slot /\ cnt \in 0 .. SlotCws /\ cnt = Cardinality(Left(place2, s))
      /\ mIntermediateQueue' \in [Slot -> 0 .. SlotCws]
      /\ \A x \in Slot : Counted(place2, x)'
      /\ a \in Left(place, s) /\ a \notin Left(place2, s)
      /\ \A x \in Slot : Left(place2, x) \subseteq Left(place, x)
  <2>1. \A x \in Slot : Counted(place, x)
    BY <1>1 DEF Finished
  <2>2. CountedDown(place, place2, a, s, cnt)
    BY <1>0, <1>1, <2>1, CountsDown
  <2>. QED
    BY <2>2 DEF CountedDown
<1>3. cnt = 0 <=> Left(place2, s) = {}
  <2>1. IsFiniteSet(Left(place2, s))
    BY LeftIsFinite
  <2>2. Cardinality(Left(place2, s)) = 0 <=> Left(place2, s) = {}
    BY <2>1, FS_EmptySet
  <2>. QED
    BY <1>2, <2>2
<1>4. /\ Reports(place2)'
      /\ mSlotNumQueue' \in Seq(Slot) /\ mCompletionQueue' \in Seq(Slot)
      /\ mCompletionQueue_mcore' \in [Slot -> BOOLEAN]
      /\ Serves(place, place2)
  <2>1. \A x \in Slot \ {s} : Left(place2, x) = Left(place, x)
    BY <1>0 DEF Left
  <2>. QED
    BY <1>1, <1>2, <1>3, <2>1, EndReported DEF Finished
<1>5. Typed'
  BY <1>1, <1>2, <1>4 DEF Typed, TableTyped, DoneTyped, bankVars
<1>6. Finished(place2)'
  BY <1>2, <1>4 DEF Finished
<1>7. Lists(place2, r, m)'
  BY <1>0, ListsKept DEF DimmInv, bankVars
<1>8. DataHeld(place2)'
  BY <1>0, <1>1 DEF DimmInv, DataHeld, Kind, Word, SlotOf, NeedsData
<1>9. ASSUME NEW x \in Held PROVE Enumerates(Content(c, x)', In(place2, c, x))
  <2>1. CASE x = p
    <3>1. In(place2, c, p) = In(place, c, p) \ {a}
      BY <1>0 DEF In
    <3>. QED
      BY <2>1, <3>1
  <2>2. CASE x # p
    <3>1. In(place2, c, x) = In(place, c, x)
      BY <1>0, <2>2 DEF In, Held
    <3>. QED
      BY <2>2, <3>1 DEF DimmInv, Located
  <2>. QED
    BY <2>1, <2>2
<1>10. \A x \in Addr : place2[x] # place[x] => ChanOf(x) = c /\ KindFits(x, place2[x])
  BY <1>0 DEF KindFits
<1>11. DimmInv(place2, r, m)'
  BY <1>0, <1>1, <1>5, <1>6, <1>7, <1>8, <1>9, <1>10, ChannelKeepsInv
<1>. QED
  BY <1>4, <1>11 DEF Follows

\* The manager stores the data of a read.
LEMMA ReadEnds ==
  ASSUME NEW place, NEW r, NEW m, DimmInv(place, r, m), NEW c \in Chan, ProcessReadData(c)
  PROVE  Follows(place)
<1>0. Typed /\ Wakes /\ LocalsTyped /\ DoneTyped /\ Located(place) /\ QueuesTyped(peq)
  BY DEF DimmInv, Typed, Wakes
<1>. PICK a, s, cnt, q : a = manager[c].addr /\ s = SlotOf(a) /\ cnt = UpdatedCount(s) /\ q = Completion
  OBVIOUS
<1>1. /\ UNCHANGED <<bankVars, dispatch, mAscq, mAlcq, mCompletionQueue, mCompletionQueue_mcore>>
      /\ mAvailableCredit' = mAvailableCredit
      /\ UNCHANGED mSlotTable
      /\ manager[c].at = "selectSent" /\ BackToTop(c)
      /\ mDataBuffer' = [mDataBuffer EXCEPT ![a] = readData[c]]
      /\ mIntermediateQueue' = [mIntermediateQueue EXCEPT ![s] = cnt]
  BY DEF ProcessReadData, bankVars
<1>2. /\ cnt # 0 => UNCHANGED <<mSlotNumQueue, peq>>
      /\ cnt = 0 => mSlotNumQueue' = Append(mSlotNumQueue, s) /\ peq' = Post(peq, q, s)
  BY DEF ProcessReadData
<1>3. /\ In(place, c, "mgr") = {a} /\ a \in Addr /\ place[a] = "mgr"
      /\ Enumerates(<<>>, In(place, c, "mgr") \ {a})
  BY <1>0, <1>1, ManagerHolds
<1>4. chanManagerProcess(c) /\ s \in Slot
  BY <1>3, SlotOfTyped DEF chanManagerProcess
<1>5. /\ Wakes'
      /\ \A k \in DOMAIN peq \ {q} : peq'[k] = peq[k]
      /\ cnt = 0 => Len(Timed(Completion)') = Len(Timed(Completion)) + 1
  <2>1. CASE cnt = 0
    <3>1. q \in Peqs /\ Fits(q, s)
      BY <1>4, Names, FitsWhere DEF Peqs
    <3>2. /\ Wakes' /\ \A k \in DOMAIN peq \ {q} : peq'[k] = peq[k]
          /\ Posted(peq'[q], peq[q], s)
      BY <1>0, <1>2, <1>4, <2>1, <3>1, ManagerNotTimed, Runners, RunPosts
    <3>3. peq[q] \in QueueOf(Slot)
      BY <1>0, QueueTypes
    <3>4. Len(All(peq'[q])) = Len(All(peq[q])) + 1
      BY <1>4, <3>2, <3>3, AllPosted
    <3>. QED
      BY <3>2, <3>4 DEF All, Timed
  <2>2. CASE cnt # 0
    BY <1>0, <1>2, <1>4, <2>2, ManagerNotTimed, Runners, RunWithoutQueues
  <2>. QED
    BY <2>1, <2>2
<1>6. Ended(s, cnt)
  <2>1. CASE cnt = 0
    BY <1>1, <1>2, <1>5, <2>1 DEF Ended, ReportedFirst
  <2>2. CASE cnt # 0
    <3>1. Timed(Completion)' = Timed(Completion)
      BY <1>2, <2>2 DEF Timed
    <3>. QED
      BY <1>1, <1>2, <2>2, <3>1 DEF Ended, StillCounting
  <2>. QED
    BY <2>1, <2>2
<1>7. \A d \in Chan \ {c} : ChannelSame(d)
  BY <1>0, <1>4, OthersSame DEF ChannelStep
<1>8. \A k \in {PendingW(c), PendingR(c), <<"memRead", c>>, <<"checkResp", c>>} :
        peq'[k] = peq[k] /\ Timed(k)' = Timed(k)
  BY <1>0, <1>5, QueuesApart, QueuesDiffer
<1>9. /\ LocalsTyped' /\ manager'[c].at = "top" /\ ManagerFits(c)'
      /\ Content(c, "mgr")' = <<>>
      /\ \A p \in {"disp", "ascq", "alcq"} : Content(c, p)' = Content(c, p)
  BY <1>0, <1>1, ManagerReturns
<1>10. \A p \in Held \ {"mgr"} : Content(c, p)' = Content(c, p)
  <2>1. Content(c, "pr")' = Content(c, "pr") /\ Content(c, "pw")' = Content(c, "pw")
    BY <1>8 DEF Content
  <2>. QED
    BY <1>9, <2>1 DEF Held
<1>11. CreditUse(c)' = CreditUse(c)
  <2>1. Managed(c) = 0 /\ Managed(c)' = 0
    BY <1>1, <1>9 DEF Managed, HasCredit
  <2>2. /\ LongReads(c)' = LongReads(c) /\ Selects(c)' = Selects(c)
        /\ Answers(c)' = Answers(c) /\ ReadTimed(c)' = ReadTimed(c)
    BY <1>1, <1>8, ReadingSame DEF LongReads, Selects, Answers, ReadTimed
  <2>. QED
    BY <2>1, <2>2 DEF CreditUse
<1>12. /\ IsFcn(mDataBuffer)' /\ DOMAIN mDataBuffer' = Addr
       /\ \A x \in Addr \ {a} : mDataBuffer'[x] = mDataBuffer[x]
  BY <1>0, <1>1 DEF DoneTyped, IsFcn
<1>13. "mgr" \in Held /\ a \in In(place, c, "mgr") /\ mAvailableCredit'[c] = mAvailableCredit[c]
       /\ Enumerates(Content(c, "mgr")', In(place, c, "mgr") \ {a})
  BY <1>1, <1>3, <1>9 DEF Held
<1>. QED
  BY <1>1, <1>5, <1>6, <1>7, <1>9, <1>10, <1>11, <1>12, <1>13, WordEnds

\* The program time of a write is over.
LEMMA WriteEnds ==
  ASSUME NEW place, NEW r, NEW m, DimmInv(place, r, m), NEW c \in Chan, pendingWriteCmdProcess(c)
  PROVE  Follows(place)
<1>0. Typed /\ Wakes /\ LocalsTyped /\ DoneTyped /\ Located(place) /\ QueuesTyped(peq)
  BY DEF DimmInv, Typed, Wakes
<1>. PICK p, a, s, cnt : /\ p = PendingW(c) /\ a = Head(peq[p].due) /\ s = SlotOf(a)
                         /\ cnt = UpdatedCount(s)
  OBVIOUS
<1>1. /\ UNCHANGED <<bankVars, dispatch, mAscq, mAlcq, mAvailableCredit, manager, mSlotNumQueue,
                     mDataBuffer>>
      /\ UNCHANGED mSlotTable
      /\ Turn(p)
      /\ mIntermediateQueue' = [mIntermediateQueue EXCEPT ![s] = cnt]
      /\ peq' = Take(peq, p) /\ EndOfLoop(p, peq')
  BY DEF pendingWriteCmdProcess, bankVars
<1>2. /\ cnt = 0 => Complete(s)
      /\ cnt # 0 => UNCHANGED <<mCompletionQueue, mCompletionQueue_mcore>>
  BY DEF pendingWriteCmdProcess
<1>3. Runs(p) /\ p \in TimedProcs /\ p \in Peqs
  BY Runners, Names
<1>4. peq[p].due # <<>>
  BY <1>0, <1>1, <1>3, TurnHasDue
<1>5. /\ Wakes' /\ Taken(peq'[p], peq[p])
      /\ \A k \in DOMAIN peq \ {p} : peq'[k] = peq[k]
  BY <1>0, <1>1, <1>3, <1>4, RunTakes
<1>6. OneLess(All(peq'[p]), All(peq[p]), a)
  <2>1. peq[p] \in QueueOf(Addr)
    BY <1>0, QueueTypes
  <2>. QED
    BY <1>5, <2>1, AllTaken
<1>7. a \in In(place, c, "pw") /\ Enumerates(All(peq'[p]), In(place, c, "pw") \ {a})
  <2>1. Enumerates(All(peq[p]), In(place, c, "pw"))
    BY <1>0 DEF Located, Held, Content, Timed, All
  <2>. QED
    BY <1>6, <2>1 DEF OneLess
<1>8. \A k \in {PendingR(c), <<"memRead", c>>, <<"checkResp", c>>, Completion} :
        peq'[k] = peq[k] /\ Timed(k)' = Timed(k)
  BY <1>0, <1>5, QueuesApart, QueuesDiffer
<1>9. \A d \in Chan \ {c} : ChannelSame(d)
  BY <1>0, OthersSame DEF ChannelStep
<1>10. LocalsTyped'
  BY <1>0, <1>1 DEF LocalsTyped
<1>11. Enumerates(Content(c, "pw")', In(place, c, "pw") \ {a})
  BY <1>7 DEF Content, Timed, All
<1>12. \A x \in Held \ {"pw"} : Content(c, x)' = Content(c, x)
  BY <1>1, <1>8 DEF Content, Held
<1>13. ManagerFits(c)'
  BY <1>1 DEF DimmInv, Kinds, ManagerFits, Kind
<1>14. CreditUse(c)' = CreditUse(c)
  BY <1>1, <1>8, ReadingSame DEF CreditUse, Managed, ReadTimed, LongReads, Selects, Answers
<1>15. Ended(s, cnt)
  <2>1. Timed(Completion)' = Timed(Completion)
    BY <1>8
  <2>2. CASE cnt = 0
    BY <1>1, <1>2, <2>1, <2>2 DEF Ended, ReportedAtOnce
  <2>3. CASE cnt # 0
    BY <1>1, <1>2, <2>1, <2>3 DEF Ended, StillCounting
  <2>. QED
    BY <2>2, <2>3
<1>16. /\ IsFcn(mDataBuffer)' /\ DOMAIN mDataBuffer' = Addr /\ "pw" \in Held
       /\ \A x \in Addr \ {a} : mDataBuffer'[x] = mDataBuffer[x]
       /\ mAvailableCredit'[c] = mAvailableCredit[c]
  BY <1>0, <1>1 DEF DoneTyped, IsFcn, Held
<1>. QED
  BY <1>1, <1>5, <1>7, <1>9, <1>10, <1>11, <1>12, <1>13, <1>14, <1>15, <1>16, WordEnds

\* A completion event hands a report on to the host.
LEMMA CompletionKeepsInv ==
  ASSUME NEW place, NEW r, NEW m, DimmInv(place, r, m), completionMethod
  PROVE  Follows(place)
<1>0. Typed /\ Wakes /\ LocalsTyped /\ DoneTyped /\ TableTyped /\ Located(place) /\ QueuesTyped(peq)
      /\ Reports(place)
  BY DEF DimmInv, Typed, Wakes, Finished
<1>. PICK p, s : p = Completion /\ s = Head(mSlotNumQueue)
  OBVIOUS
<1>1. /\ UNCHANGED <<bankVars, dispatch, mAscq, mAlcq, mAvailableCredit, manager,
                     mIntermediateQueue, mDataBuffer, mSlotTable, mCmdQueue, head, tail>>
      /\ Turn(p)
      /\ mSlotNumQueue' = Tail(mSlotNumQueue) /\ Complete(s)
      /\ peq' = Take(peq, p) /\ Wait(p, {p})
  BY DEF completionMethod, bankVars
<1>2. Runs(p) /\ p \in TimedProcs /\ p \in Peqs
  <2>1. 0 \in Chan
    BY DeviceAssumption DEF Chan
  <2>. QED
    BY <2>1, Runners, Names
<1>3. peq[p].due # <<>>
  BY <1>0, <1>1, <1>2, TurnHasDue
<1>4. /\ QueuesTyped(peq') /\ DOMAIN peq' = DOMAIN peq /\ Taken(peq'[p], peq[p])
      /\ \A k \in DOMAIN peq \ {p} : peq'[k] = peq[k]
  BY <1>0, <1>1, <1>2, <1>3, TakeTyped
<1>5. Wakes'
  <2>1. Asleep(p)'
    BY <1>0, <1>1, <1>2, Names DEF Wait, WaitAfter, Asleep, Wakes, IsFcn
  <2>2. \A q \in TimedProcs \ {p} : peq'[q] = peq[q]
    BY <1>0, <1>4, Names DEF Wakes, QueuesTyped
  <2>. QED
    BY <1>0, <1>2, <1>4, <2>1, <2>2, WakesKept DEF Runs
<1>6. Len(Timed(Completion)) = Len(Timed(Completion)') + 1 /\ Len(Timed(Completion)') \in Nat
  <2>1. 0 \in Chan
    BY DeviceAssumption DEF Chan
  <2>2. peq[p] \in QueueOf(Slot)
    BY <1>0, <2>1, QueueTypes
  <2>3. Len(All(peq[p])) = Len(All(peq'[p])) + 1 /\ Len(All(peq'[p])) \in Nat
    BY <1>4, <2>2, AllTaken
  <2>. QED
    BY <2>3 DEF All, Timed
<1>7. /\ IsInjective(reported) /\ Len(mSlotNumQueue) = Len(Timed(Completion)) /\ mSlotNumQueue # <<>>
      /\ mSlotNumQueue \in Seq(Slot)
  <2>1. /\ IsInjective(reported) /\ Len(mSlotNumQueue) = Len(Timed(Completion))
        /\ mSlotNumQueue \in Seq(Slot)
    BY <1>0 DEF Reports, DoneTyped
  <2>. QED
    BY <1>6, <2>1
<1>8. /\ s \in Slot /\ s \in Range(reported)
      /\ mSlotNumQueue' \in Seq(Slot) /\ Len(mSlotNumQueue) = Len(mSlotNumQueue') + 1
      /\ mCompletionQueue' = Append(mCompletionQueue, s) =>
           /\ IsInjective(reported)' /\ Range(reported)' = Range(reported)
           /\ mCompletionQueue' \in Seq(Slot)
      /\ mCompletionQueue' = mCompletionQueue =>
           IsInjective(reported)' /\ Range(reported)' = Range(reported) \ {s}
  BY <1>0, <1>1, <1>7, ReportsOn
<1>9. /\ IsInjective(reported)' /\ mCompletionQueue' \in Seq(Slot)
      /\ mCompletionQueue_mcore' \in [Slot -> BOOLEAN]
      /\ \A x \in Slot : x \in Range(reported)' => x \in Range(reported) /\ ~mCompletionQueue_mcore'[x]
      /\ \A x \in Slot : mCompletionQueue_mcore'[x] => mCompletionQueue_mcore[x] \/ x = s
      /\ \A x \in Slot : x \in Range(reported)' \/ mCompletionQueue_mcore'[x]
                         <=> x \in Range(reported) \/ mCompletionQueue_mcore[x]
  <2>0. /\ mCompletionQueue \in Seq(Slot) /\ mCompletionQueue_mcore \in [Slot -> BOOLEAN]
        /\ \A x \in Slot : x \in Range(reported) => ~mCompletionQueue_mcore[x]
    BY <1>0 DEF DoneTyped, Reports
  <2>1. CASE Mode = 0
    <3>1. /\ IsInjective(reported)' /\ Range(reported)' = Range(reported)
          /\ mCompletionQueue' \in Seq(Slot)
          /\ mCompletionQueue_mcore' = mCompletionQueue_mcore
      BY <1>1, <1>8, <2>1 DEF Complete
    <3>. QED
      BY <2>0, <3>1
  <2>2. CASE Mode # 0
    <3>1. /\ mCompletionQueue' = mCompletionQueue
          /\ mCompletionQueue_mcore' = [mCompletionQueue_mcore EXCEPT ![s] = TRUE]
      BY <1>1, <2>2 DEF Complete
    <3>2. IsInjective(reported)' /\ Range(reported)' = Range(reported) \ {s}
      BY <1>8, <3>1
    <3>3. /\ mCompletionQueue_mcore' \in [Slot -> BOOLEAN] /\ mCompletionQueue_mcore'[s]
          /\ \A x \in Slot \ {s} : mCompletionQueue_mcore'[x] = mCompletionQueue_mcore[x]
      BY <1>8, <2>0, <3>1
    <3>. QED
      BY <1>8, <2>0, <3>1, <3>2, <3>3
  <2>. QED
    BY <2>1, <2>2
<1>10. \A x : Left(place, x)' = Left(place, x)
  BY DEF Left, SlotOf
<1>11. Reports(place)'
  <2>1. \A x \in Slot : x \in Range(reported) \/ mCompletionQueue_mcore[x] => Left(place, x) = {}
    BY <1>0 DEF Reports
  <2>2. \A x \in Slot : x \in Range(reported)' \/ mCompletionQueue_mcore'[x] => Left(place, x) = {}
    BY <1>8, <1>9, <2>1
  <2>3. Len(mSlotNumQueue') = Len(Timed(Completion)')
    BY <1>6, <1>7, <1>8
  <2>. QED
    BY <1>9, <1>10, <2>2, <2>3 DEF Reports
<1>12. \A x \in Slot : Counted(place, x)'
  BY <1>1, <1>10 DEF DimmInv, Finished, Counted
<1>13. Serves(place, place)
  <2>1. \A x \in Slot : StateOf(place, x)' = StateOf(place, x)
    BY <1>9, <1>10 DEF StateOf
  <2>. QED
    BY <1>1, <2>1 DEF Serves
<1>14. Typed'
  BY <1>0, <1>1, <1>5, <1>8, <1>9 DEF Typed, TableTyped, LocalsTyped, DoneTyped
<1>15. \A d \in Chan : ChannelSame(d)
  <2>1. ASSUME NEW d \in Chan
        PROVE  \A k \in {PendingW(d), PendingR(d), <<"memRead", d>>, <<"checkResp", d>>} : peq'[k] = peq[k]
    BY <1>0, <1>4, QueuesApart, QueuesDiffer
  <2>. QED
    BY <1>1, <2>1 DEF ChannelSame
<1>16. Lists(place, r, m)' /\ DataHeld(place)'
  BY <1>1, ListsKept, DataKept DEF DimmInv
<1>17. PICK c : c \in Chan
  BY DeviceAssumption DEF Chan
<1>18. /\ place \in [Addr -> Places] /\ ManagerFits(c)'
       /\ \A x \in Held : Enumerates(Content(c, x)', In(place, c, x))
       /\ mAvailableCredit'[c] + CreditUse(c)' = mAvailableCredit[c] + CreditUse(c)
  <2>1. /\ \A x \in Held : Content(c, x)' = Content(c, x)
        /\ CreditUse(c)' = CreditUse(c)
        /\ ManagerFits(c) => ManagerFits(c)'
    BY <1>1, <1>15, <1>17, SameHolds
  <2>. QED
    BY <1>0, <1>1, <1>17, <2>1 DEF DimmInv, Kinds, Located
<1>19. DimmInv(place, r, m)'
  <2>1. Finished(place)'
    BY <1>11, <1>12 DEF Finished
  <2>. QED
    BY <1>1, <1>14, <1>15, <1>16, <1>17, <1>18, <2>1, ChannelKeepsInv
<1>. QED
  BY <1>13, <1>19 DEF Follows

(***************************************************************************)
(* A new command: the words of a slot.                                     *)
(***************************************************************************)
\* Division has one result.
LEMMA DivisionIsUnique ==
  ASSUME NEW n \in Nat, NEW q \in Int, NEW s \in Int, NEW x \in Nat, NEW y \in Nat,
         x < n, y < n, n * q + y = n * s + x
  PROVE  q = s
<1>1. CASE q < s
  <2>1. n * s = n * q + n + n * (s - q - 1) /\ s - q - 1 \in Nat
    BY <1>1
  <2>2. n * (s - q - 1) >= 0 /\ n * (s - q - 1) \in Int /\ n * q \in Int
    BY <2>1
  <2>. QED
    BY <2>1, <2>2
<1>2. CASE s < q
  <2>1. n * q = n * s + n + n * (q - s - 1) /\ q - s - 1 \in Nat
    BY <1>2
  <2>2. n * (q - s - 1) >= 0 /\ n * (q - s - 1) \in Int /\ n * s \in Int
    BY <2>1
  <2>. QED
    BY <2>1, <2>2
<1>. QED
  BY <1>1, <1>2

\* The words of a slot's command are addresses of this slot.
LEMMA WordsAreInSlot ==
  ASSUME NEW s \in Slot, NEW cnt \in 1 .. SlotCws
  PROVE  /\ WordsOf(s, cnt) \subseteq Addr /\ \A a \in WordsOf(s, cnt) : SlotOf(a) = s
         /\ \A a \in WordsOf(s, cnt) : a - s * SlotCws \in Nat
         /\ IsFiniteSet(WordsOf(s, cnt)) /\ Cardinality(WordsOf(s, cnt)) = cnt
<1>1. /\ SlotCws \in Nat \ {0} /\ NumSlots \in Nat \ {0} /\ s \in Nat /\ s <= NumSlots - 1
      /\ cnt \in Nat /\ cnt <= SlotCws /\ cnt >= 1
  BY ControllerAssumption DEF Slot
<1>2. ASSUME NEW a \in WordsOf(s, cnt)
      PROVE  a \in Addr /\ SlotOf(a) = s /\ a - s * SlotCws \in Nat
  <2>1. PICK x \in Nat : x < SlotCws /\ a = SlotCws * s + x
    <3>1. s * SlotCws \in Int /\ SlotCws * s = s * SlotCws
      BY <1>1
    <3>2. a \in Int /\ a >= s * SlotCws /\ a <= s * SlotCws + cnt - 1
      BY <1>1, <3>1 DEF WordsOf
    <3>3. PICK z : z = s * SlotCws
      OBVIOUS
    <3>4. z \in Int /\ a >= z /\ a <= z + cnt - 1
      BY <3>1, <3>2, <3>3
    <3>5. a - z \in Nat /\ a - z < SlotCws /\ a = z + (a - z)
      BY <1>1, <3>2, <3>4
    <3>6. a = SlotCws * s + (a - z)
      BY <3>1, <3>3, <3>5
    <3>. QED
      BY <3>5, <3>6
  <2>2. a \in Addr
    <3>1. NumSlots * SlotCws = SlotCws * s + SlotCws + SlotCws * (NumSlots - 1 - s)
          /\ NumSlots - 1 - s \in Nat
      BY <1>1
    <3>2. SlotCws * (NumSlots - 1 - s) >= 0 /\ SlotCws * (NumSlots - 1 - s) \in Int
          /\ SlotCws * s \in Nat
      BY <1>1, <3>1
    <3>. QED
      BY <1>1, <2>1, <3>1, <3>2 DEF Addr
  <2>3. SlotOf(a) = s
    <3>1. PICK q \in Int, y \in Nat : q = a \div SlotCws /\ y < SlotCws /\ a = SlotCws * q + y
      <4>0. a \in Int
        BY <2>2, ControllerAssumption DEF Addr
      <4>1. a \div SlotCws \in Int
        BY <1>1, <4>0
      <4>2. a % SlotCws \in 0 .. SlotCws - 1
        BY <1>1, <4>0
      <4>3. a = SlotCws * (a \div SlotCws) + (a % SlotCws)
        BY <1>1, <4>0
      <4>4. PICK u, v : u = a \div SlotCws /\ v = a % SlotCws
        OBVIOUS
      <4>5. u \in Int /\ v \in 0 .. SlotCws - 1 /\ a = SlotCws * u + v
        BY <4>1, <4>2, <4>3, <4>4
      <4>6. v \in Nat /\ v < SlotCws
        BY <1>1, <4>5
      <4>. QED
        BY <4>4, <4>5, <4>6
    <3>2. q = s
      BY <1>1, <2>1, <3>1, DivisionIsUnique
    <3>. QED
      BY <3>1, <3>2 DEF SlotOf
  <2>4. a - s * SlotCws \in Nat
    <3>1. SlotCws * s = s * SlotCws /\ SlotCws * s \in Int
      BY <1>1
    <3>. QED
      BY <2>1, <3>1
  <2>. QED
    BY <2>2, <2>3, <2>4
<1>3. IsFiniteSet(WordsOf(s, cnt)) /\ Cardinality(WordsOf(s, cnt)) = cnt
  <2>1. PICK lo, hi : lo = s * SlotCws /\ hi = s * SlotCws + cnt - 1
    OBVIOUS
  <2>2. lo \in Int /\ hi \in Int /\ hi = lo + cnt - 1
    BY <1>1, <2>1
  <2>3. IsFiniteSet(lo .. hi) /\ Cardinality(lo .. hi) = IF lo > hi THEN 0 ELSE hi - lo + 1
    BY <2>2, FS_Interval, Zenon
  <2>. QED
    BY <1>1, <2>1, <2>2, <2>3 DEF WordsOf
<1>. QED
  BY <1>2, <1>3

\* Channel and bank of an address of the memory.
LEMMA LbaTyped ==
  ASSUME NEW l \in Nat
  PROVE  LbaChan(l) \in Chan /\ LbaBank(l) \in Bank
<1>1. NumChans \in Nat \ {0} /\ NumBanks \in Nat \ {0}
  BY DeviceAssumption
<1>2. l % NumChans \in 0 .. NumChans - 1 /\ l \div NumChans \in Int
  BY <1>1
<1>3. (l \div NumChans) % NumBanks \in 0 .. NumBanks - 1
  BY <1>1, <1>2
<1>. QED
  BY <1>2, <1>3 DEF LbaChan, LbaBank, Chan, Bank

\* Least and Greatest are what they are called.
LEMMA LeastIsLeast ==
  ASSUME NEW S \in SUBSET Addr, S # {}
  PROVE  /\ Least(S) \in S /\ \A x \in S : Least(S) <= x
         /\ Greatest(S) \in S /\ \A x \in S : Greatest(S) >= x
<1>0. S \subseteq Nat
  BY ControllerAssumption DEF Addr
<1>1. \E a \in S : \A x \in S : a <= x
  BY <1>0, LeastExists
<1>2. \E a \in S : \A x \in S : a >= x
  <2>. PICK K \in Nat : \A x \in S : x <= K
    <3>1. NumSlots * SlotCws - 1 \in Nat
      BY ControllerAssumption
    <3>2. \A x \in S : x <= NumSlots * SlotCws - 1
      BY ControllerAssumption DEF Addr
    <3>. QED
      BY <3>1, <3>2
  <2>. PICK R : R = {K - x : x \in S}
    OBVIOUS
  <2>1. R \in SUBSET Nat /\ R # {}
    <3>1. ASSUME NEW x \in S PROVE K - x \in Nat
      BY <1>0
    <3>. QED
      BY <3>1
  <2>2. PICK k \in R : \A y \in R : k <= y
    BY <2>1, LeastExists
  <2>3. PICK a \in S : k = K - a
    BY <2>2
  <2>4. ASSUME NEW x \in S PROVE a >= x
    <3>1. K - x \in R
      OBVIOUS
    <3>. QED
      BY <1>0, <2>2, <2>3, <3>1
  <2>. QED
    BY <2>4
<1>. QED
  BY <1>1, <1>2 DEF Least, Greatest

\* The words N are linked behind the list S in increasing order.
Extends(S, N, t, q, q2) ==
  /\ \A a \in S \ {t} : q2[a].next = q[a].next
  /\ S # {} /\ N # {} => q2[t].next = Least(N)
  /\ \A a \in N : {x \in N : x > a} # {} => q2[a].next = Least({x \in N : x > a})

\* A list with new words at its end is a list.
LEMMA LinkedExtended ==
  ASSUME NEW S \in SUBSET Addr, NEW N \in SUBSET Addr, S \cap N = {},
         NEW r \in [Addr -> Nat], NEW m \in Nat, \A a \in S : r[a] < m,
         NEW h, NEW t, NEW q, Linked(S, r, h, t, q),
         NEW r2, \A a \in S : r2[a] = r[a], \A a \in N : r2[a] = m + a,
         NEW q2, Extends(S, N, t, q, q2),
         NEW h2, h2 = NewHead(h, N), NEW t2, t2 = NewTail(t, N)
  PROVE  Linked(S \cup N, r2, h2, t2, q2)
<1>0. /\ \A a \in S : r[a] \in Nat /\ a # Nil
      /\ \A a \in N : a \in Nat /\ a # Nil
  BY ControllerAssumption DEF Addr, Nil
<1>2. /\ \A a \in S : r[h] <= r[a] /\ r[a] <= r[t]
      /\ \A a, x \in S : r[a] = r[x] => a = x
      /\ \A a \in S \ {t} : /\ q[a].next \in S /\ r[a] < r[q[a].next]
                            /\ \A x \in S : r[a] < r[x] => r[q[a].next] <= r[x]
  BY DEF Linked
<1>3. CASE N = {}
  <2>1. h2 = h /\ t2 = t /\ S \cup N = S
    BY <1>3 DEF NewHead, NewTail
  <2>2. \A a \in S \ {t} : q2[a].next = q[a].next
    BY DEF Extends
  <2>3. h = Nil <=> S = {}
    BY DEF Linked
  <2>4. t = Nil <=> S = {}
    BY DEF Linked
  <2>5. S # {} => h \in S /\ t \in S
    BY DEF Linked
  <2>. QED
    BY <1>2, <2>1, <2>2, <2>3, <2>4, <2>5 DEF Linked
<1>4. CASE N # {}
  <2>. PICK l, g : l = Least(N) /\ g = Greatest(N)
    OBVIOUS
  <2>1. l \in N /\ g \in N /\ \A x \in N : l <= x /\ x <= g
    BY <1>4, <1>0, LeastIsLeast
  <2>2. t2 = g /\ h2 = IF h = Nil THEN l ELSE h
    BY <1>4 DEF NewHead, NewTail
  <2>3. S = {} => h = Nil
    BY DEF Linked
  <2>4. S # {} => h \in S /\ t \in S /\ h # Nil
    BY <1>0 DEF Linked
  <2>5. h2 \in S \cup N /\ t2 \in S \cup N /\ h2 # Nil /\ t2 # Nil
    BY <1>0, <2>1, <2>2, <2>3, <2>4
  <2>6. ASSUME NEW a \in S \cup N PROVE r2[h2] <= r2[a] /\ r2[a] <= r2[t2]
    <3>1. CASE a \in S
      <4>1. S # {} /\ h2 = h /\ h \in S
        BY <2>2, <2>4, <3>1
      <4>2. r[h] <= r[a] /\ r[a] < m /\ r[h] \in Nat /\ r[a] \in Nat
        BY <1>0, <1>2, <3>1, <4>1
      <4>3. r2[h2] = r[h] /\ r2[a] = r[a] /\ r2[t2] = m + g /\ g \in Nat
        BY <1>0, <2>1, <2>2, <3>1, <4>1
      <4>. QED
        BY <4>2, <4>3
    <3>2. CASE a \in N
      <4>1. r2[a] = m + a /\ r2[t2] = m + g /\ a <= g /\ l <= a /\ a \in Nat /\ g \in Nat /\ l \in Nat
        BY <1>0, <2>1, <2>2, <3>2
      <4>2. CASE S = {}
        <5>1. r2[h2] = m + l
          BY <2>1, <2>2, <2>3, <4>2
        <5>. QED
          BY <4>1, <5>1
      <4>3. CASE S # {}
        <5>1. r2[h2] = r[h] /\ r[h] < m /\ r[h] \in Nat
          BY <1>0, <2>2, <2>4, <4>3
        <5>. QED
          BY <4>1, <5>1
      <4>. QED
        BY <4>2, <4>3
    <3>. QED
      BY <3>1, <3>2
  <2>7. ASSUME NEW a \in S \cup N, NEW x \in S \cup N, r2[a] = r2[x] PROVE a = x
    <3>1. CASE a \in S /\ x \in S
      BY <1>2, <2>7, <3>1
    <3>2. CASE a \in N /\ x \in N
      BY <1>0, <2>7, <3>2
    <3>3. CASE a \in S /\ x \in N
      BY <1>0, <2>7, <3>3
    <3>4. CASE a \in N /\ x \in S
      BY <1>0, <2>7, <3>4
    <3>. QED
      BY <3>1, <3>2, <3>3, <3>4
  <2>8. ASSUME NEW a \in (S \cup N) \ {t2}
        PROVE  /\ q2[a].next \in S \cup N /\ r2[a] < r2[q2[a].next]
               /\ \A x \in S \cup N : r2[a] < r2[x] => r2[q2[a].next] <= r2[x]
    <3>1. CASE a \in S /\ a # t
      <4>. PICK n : n = q[a].next
        OBVIOUS
      <4>1. n \in S /\ r[a] < r[n] /\ \A x \in S : r[a] < r[x] => r[n] <= r[x]
        BY <1>2, <3>1
      <4>2. q2[a].next = n
        BY <3>1 DEF Extends
      <4>3. \A x \in S \cup N : r2[a] < r2[x] => r2[n] <= r2[x]
        <5>1. ASSUME NEW x \in N PROVE r2[n] <= r2[x]
          BY <1>0, <4>1, <5>1
        <5>2. ASSUME NEW x \in S, r2[a] < r2[x] PROVE r2[n] <= r2[x]
          BY <3>1, <4>1, <5>2
        <5>. QED
          BY <5>1, <5>2
      <4>. QED
        BY <3>1, <4>1, <4>2, <4>3
    <3>2. CASE a \in S /\ a = t
      <4>1. q2[a].next = l
        BY <1>4, <3>2 DEF Extends
      <4>2. r2[a] = r[a] /\ r[a] < m /\ r[a] \in Nat /\ r2[l] = m + l /\ l \in Nat
        BY <1>0, <2>1, <3>2
      <4>3. \A x \in S \cup N : r2[a] < r2[x] => r2[l] <= r2[x]
        <5>1. ASSUME NEW x \in N PROVE r2[l] <= r2[x]
          BY <1>0, <2>1, <4>2, <5>1
        <5>2. ASSUME NEW x \in S PROVE ~(r2[a] < r2[x])
          BY <1>0, <1>2, <3>2, <5>2
        <5>. QED
          BY <5>1, <5>2
      <4>. QED
        BY <2>1, <4>1, <4>2, <4>3
    <3>3. CASE a \in N
      <4>. PICK Up, n : Up = {x \in N : x > a} /\ n = Least(Up)
        OBVIOUS
      <4>1. Up # {} /\ Up \in SUBSET Addr
        BY <1>0, <2>1, <2>2, <3>3
      <4>2. n \in N /\ n > a /\ \A x \in N : x > a => n <= x
        BY <4>1, LeastIsLeast
      <4>3. q2[a].next = n
        BY <3>3, <4>1 DEF Extends
      <4>4. r2[a] = m + a /\ r2[n] = m + n /\ a \in Nat /\ n \in Nat
        BY <1>0, <3>3, <4>2
      <4>5. \A x \in S \cup N : r2[a] < r2[x] => r2[n] <= r2[x]
        <5>1. ASSUME NEW x \in N, r2[a] < r2[x] PROVE r2[n] <= r2[x]
          <6>1. r2[x] = m + x /\ x \in Nat
            BY <1>0
          <6>. QED
            BY <4>2, <4>4, <5>1, <6>1
        <5>2. ASSUME NEW x \in S PROVE ~(r2[a] < r2[x])
          <6>1. r2[x] = r[x] /\ r[x] < m /\ r[x] \in Nat
            BY <1>0
          <6>. QED
            BY <4>4, <6>1
        <5>. QED
          BY <5>1, <5>2
      <4>. QED
        BY <4>2, <4>3, <4>4, <4>5
    <3>. QED
      BY <3>1, <3>2, <3>3
  <2>9. S \cup N # {}
    BY <1>4
  <2>. QED
    BY <2>5, <2>6, <2>7, <2>8, <2>9 DEF Linked
<1>. QED
  BY <1>3, <1>4

\* The new words of a bank are words of the command.
LEMMA NewWordsAre ==
  ASSUME NEW s \in Slot, NEW cnt \in 1 .. SlotCws, NEW lba \in Nat, NEW c, NEW b
  PROVE  /\ NewWords(s, lba, cnt, c, b) \subseteq WordsOf(s, cnt)
         /\ NewWords(s, lba, cnt, c, b) \in SUBSET Addr
         /\ \A d, e : NewWords(s, lba, cnt, c, b) \cap NewWords(s, lba, cnt, d, e) # {} => d = c /\ e = b
<1>1. NewWords(s, lba, cnt, c, b) \subseteq WordsOf(s, cnt)
  BY DEF NewWords
<1>2. NewWords(s, lba, cnt, c, b) \in SUBSET Addr
  BY <1>1, WordsAreInSlot
<1>3. ASSUME NEW d, NEW e, NEW a \in NewWords(s, lba, cnt, c, b), a \in NewWords(s, lba, cnt, d, e)
      PROVE  d = c /\ e = b
  BY <1>3, Zenon DEF NewWords
<1>. QED
  BY <1>1, <1>2, <1>3

\* What follows an address is an address.
LEMMA NextAfterTyped ==
  ASSUME NEW s \in Slot, NEW cnt \in 1 .. SlotCws, NEW lba \in Nat, NEW a
  PROVE  NextAfter(a, s, lba, cnt) \in Addr \cup {Nil}
<1>. PICK Mine : /\ Mine \in SUBSET Addr
                 /\ NextAfter(a, s, lba, cnt) = IF Mine = {} THEN Nil ELSE Least(Mine)
  <2>. DEFINE New == {x \in WordsOf(s, cnt) : x > a /\
                        \E c \in Chan, b \in Bank :
                          {a, x} \subseteq NewWords(s, lba, cnt, c, b)}
              After == UNION {NewWords(s, lba, cnt, x[1], x[2]) :
                         x \in {y \in Chan \X Bank :
                            head[y[1]][y[2]] # Nil /\ tail[y[1]][y[2]] = a}}
  <2>1. New \in SUBSET Addr
    BY WordsAreInSlot
  <2>2. After \in SUBSET Addr
    BY NewWordsAre
  <2>3. LET M == IF a \in WordsOf(s, cnt) THEN New ELSE After
        IN NextAfter(a, s, lba, cnt) = IF M = {} THEN Nil ELSE Least(M)
    BY Zenon DEF NextAfter
  <2>. QED
    BY <2>1, <2>2, <2>3
<1>1. Mine # {} => Least(Mine) \in Mine
  BY LeastIsLeast
<1>. QED
  BY <1>1

\* Among the new words of a bank each is followed by the next one.
LEMMA NextOfNew ==
  ASSUME NEW s \in Slot, NEW cnt \in 1 .. SlotCws, NEW lba \in Nat, NEW c \in Chan, NEW b \in Bank,
         NEW a \in NewWords(s, lba, cnt, c, b), NEW N, N = NewWords(s, lba, cnt, c, b),
         {x \in N : x > a} # {}
  PROVE  NextAfter(a, s, lba, cnt) = Least({x \in N : x > a})
<1>. DEFINE New == {x \in WordsOf(s, cnt) : x > a /\
                      \E d \in Chan, e \in Bank :
                        {a, x} \subseteq NewWords(s, lba, cnt, d, e)}
<1>0. a \in WordsOf(s, cnt) /\ N \subseteq WordsOf(s, cnt)
  BY NewWordsAre
<1>1. NextAfter(a, s, lba, cnt) = IF New = {} THEN Nil ELSE Least(New)
  BY <1>0, Zenon DEF NextAfter
<1>2. New = {x \in N : x > a}
  <2>1. ASSUME NEW x \in N, x > a PROVE x \in New
    <3>1. {a, x} \subseteq NewWords(s, lba, cnt, c, b)
      OBVIOUS
    <3>. QED
      BY <1>0, <2>1, <3>1
  <2>2. ASSUME NEW x \in New PROVE x \in N /\ x > a
    <3>. PICK d \in Chan, e \in Bank : {a, x} \subseteq NewWords(s, lba, cnt, d, e)
      OBVIOUS
    <3>1. d = c /\ e = b
      BY NewWordsAre
    <3>. QED
      BY <3>1
  <2>. QED
    BY <2>1, <2>2, Zenon
<1>. HIDE DEF New
<1>. QED
  BY <1>1, <1>2, Zenon

\* A listed word is followed by new words only if it is the tail of its list.
LEMMA NextOfListed ==
  ASSUME NEW place, NEW r, NEW m, Lists(place, r, m),
         NEW s \in Slot, NEW cnt \in 1 .. SlotCws, NEW lba \in Nat, Left(place, s) = {},
         NEW c \in Chan, NEW b \in Bank, NEW a \in Listed(place, c, b),
         NEW N, N = NewWords(s, lba, cnt, c, b)
  PROVE  NextAfter(a, s, lba, cnt) = IF a = tail[c][b] /\ N # {} THEN Least(N) ELSE Nil
<1>. DEFINE Ends == {y \in Chan \X Bank : head[y[1]][y[2]] # Nil /\ tail[y[1]][y[2]] = a}
            After == UNION {NewWords(s, lba, cnt, x[1], x[2]) : x \in Ends}
<1>1. a \notin WordsOf(s, cnt)
  <2>1. a \in Addr /\ place[a] = "list"
    BY DEF Listed
  <2>2. SlotOf(a) # s
    BY <2>1 DEF Left
  <2>. QED
    BY <2>2, WordsAreInSlot
<1>2. NextAfter(a, s, lba, cnt) = IF After = {} THEN Nil ELSE Least(After)
  BY <1>1, Zenon DEF NextAfter
<1>3. \A d \in Chan, e \in Bank : Linked(Listed(place, d, e), r, head[d][e], tail[d][e], mCmdQueue)
  BY DEF Lists
<1>4. ASSUME NEW d \in Chan, NEW e \in Bank, head[d][e] # Nil, tail[d][e] = a
      PROVE  d = c /\ e = b
  <2>1. Listed(place, d, e) # {}
    BY <1>3, <1>4, Zenon DEF Linked
  <2>2. tail[d][e] \in Listed(place, d, e)
    BY <1>3, <2>1, Zenon DEF Linked
  <2>. QED
    BY <1>4, <2>2 DEF Listed
<1>5. head[c][b] # Nil
  <2>1. Listed(place, c, b) # {}
    OBVIOUS
  <2>. QED
    BY <1>3, <2>1, Zenon DEF Linked
<1>6. a = tail[c][b] => Ends = {<<c, b>>}
  BY <1>4, <1>5
<1>7. a # tail[c][b] => Ends = {}
  BY <1>4
<1>8. a = tail[c][b] => After = N
  <2>1. ASSUME a = tail[c][b] PROVE After = UNION {NewWords(s, lba, cnt, x[1], x[2]) : x \in {<<c, b>>}}
    BY <1>6, <2>1, Zenon
  <2>2. {NewWords(s, lba, cnt, x[1], x[2]) : x \in {<<c, b>>}} = {N}
    OBVIOUS
  <2>3. UNION {N} = N
    OBVIOUS
  <2>. QED
    BY <2>1, <2>2, <2>3, Zenon
<1>9. a # tail[c][b] => After = {}
  BY <1>7
<1>. HIDE DEF After
<1>. QED
  BY <1>2, <1>8, <1>9, Zenon

\* The entries after a new command.
LEMMA EntriesLinked ==
  ASSUME mCmdQueue \in [Addr -> Entries],
         NEW s \in Slot, NEW cnt \in 1 .. SlotCws, NEW lba \in Nat, LinkWords(s, lba, cnt)
  PROVE  /\ mCmdQueue' \in [Addr -> Entries]
         /\ \A a \in Addr \ WordsOf(s, cnt) :
              /\ mCmdQueue'[a].lba = mCmdQueue[a].lba
              /\ NextAfter(a, s, lba, cnt) = Nil => mCmdQueue'[a].next = mCmdQueue[a].next
              /\ NextAfter(a, s, lba, cnt) # Nil => mCmdQueue'[a].next = NextAfter(a, s, lba, cnt)
         /\ \A a \in WordsOf(s, cnt) :
              /\ mCmdQueue'[a].lba = lba + (a - s * SlotCws)
              /\ mCmdQueue'[a].next = NextAfter(a, s, lba, cnt)
<1>1. ASSUME NEW a \in Addr, a \notin WordsOf(s, cnt)
      PROVE  /\ mCmdQueue'[a] \in Entries
             /\ mCmdQueue'[a].lba = mCmdQueue[a].lba
             /\ NextAfter(a, s, lba, cnt) = Nil => mCmdQueue'[a].next = mCmdQueue[a].next
             /\ NextAfter(a, s, lba, cnt) # Nil => mCmdQueue'[a].next = NextAfter(a, s, lba, cnt)
  <2>. PICK n : n = NextAfter(a, s, lba, cnt)
    OBVIOUS
  <2>1. mCmdQueue'[a] = IF n # Nil THEN [mCmdQueue[a] EXCEPT !.next = n] ELSE mCmdQueue[a]
    BY <1>1, Zenon DEF LinkWords
  <2>2. mCmdQueue[a] \in Entries /\ n \in Addr \cup {Nil}
    BY NextAfterTyped
  <2>. QED
    BY <2>1, <2>2 DEF Entries
<1>2. ASSUME NEW a \in WordsOf(s, cnt)
      PROVE  /\ mCmdQueue'[a] \in Entries
             /\ mCmdQueue'[a].lba = lba + (a - s * SlotCws)
             /\ mCmdQueue'[a].next = NextAfter(a, s, lba, cnt)
  <2>. PICK n, l : n = NextAfter(a, s, lba, cnt) /\ l = lba + (a - s * SlotCws)
    OBVIOUS
  <2>1. mCmdQueue'[a] = [lba |-> l, next |-> n]
    <3>1. a \in Addr
      BY WordsAreInSlot
    <3>. QED
      BY <3>1, Zenon DEF LinkWords
  <2>2. n \in Addr \cup {Nil}
    BY NextAfterTyped
  <2>3. l \in Nat
    <3>1. a - s * SlotCws \in Nat
      BY WordsAreInSlot
    <3>. QED
      BY <3>1
  <2>. QED
    BY <2>1, <2>2, <2>3 DEF Entries
<1>3. mCmdQueue' \in [Addr -> Entries]
  <2>1. IsFcn(mCmdQueue') /\ DOMAIN mCmdQueue' = Addr
    BY DEF LinkWords, IsFcn
  <2>2. \A a \in Addr : mCmdQueue'[a] \in Entries
    BY <1>1, <1>2
  <2>. QED
    BY <2>1, <2>2 DEF IsFcn
<1>. QED
  BY <1>1, <1>2, <1>3

\* The lists of the banks get the new words.
LEMMA ListsGrow ==
  ASSUME NEW place, NEW r, NEW m, Lists(place, r, m), place \in [Addr -> Places],
         mCmdQueue \in [Addr -> Entries],
         NEW s \in Slot, NEW cnt \in 1 .. SlotCws, NEW lba \in Nat, Left(place, s) = {},
         LinkWords(s, lba, cnt),
         NEW place2, place2 = [a \in Addr |-> IF a \in WordsOf(s, cnt) THEN "list" ELSE place[a]],
         NEW c \in Chan, NEW b \in Bank, NEW S, S = Listed(place, c, b),
         NEW N, N = NewWords(s, lba, cnt, c, b)
  PROVE  /\ Listed(place2, c, b)' = S \cup N /\ S \cap N = {}
         /\ Extends(S, N, tail[c][b], mCmdQueue, mCmdQueue')
<1>. PICK W : W = WordsOf(s, cnt)
  OBVIOUS
<1>0. W \in SUBSET Addr /\ \A a \in W : SlotOf(a) = s
  BY WordsAreInSlot
<1>1. \A a \in S : a \in Addr /\ place[a] = "list" /\ SlotOf(a) # s
  BY DEF Listed, Left
<1>2. S \cap W = {} /\ N \subseteq W /\ N \in SUBSET Addr
  <2>1. N \subseteq W
    BY NewWordsAre
  <2>. QED
    BY <1>0, <1>1, <2>1
<1>3. \A a \in Addr \ W : mCmdQueue'[a].lba = mCmdQueue[a].lba
  BY EntriesLinked
<1>4. \A a \in W : a \in N <=> LbaChan(mCmdQueue'[a].lba) = c /\ LbaBank(mCmdQueue'[a].lba) = b
  <2>. SUFFICES ASSUME NEW a \in W
                PROVE  a \in N <=> LbaChan(mCmdQueue'[a].lba) = c /\ LbaBank(mCmdQueue'[a].lba) = b
    OBVIOUS
  <2>1. mCmdQueue'[a].lba = lba + (a - s * SlotCws)
    BY EntriesLinked
  <2>2. a \in N <=> LbaChan(lba + (a - s * SlotCws)) = c /\ LbaBank(lba + (a - s * SlotCws)) = b
    BY Zenon DEF NewWords
  <2>. QED
    BY <2>1, <2>2, Zenon
<1>5. Listed(place2, c, b)' = S \cup N
  <2>1. ASSUME NEW a \in Addr
        PROVE  /\ a \in Listed(place2, c, b)' <=>
                    place2[a] = "list" /\ LbaChan(mCmdQueue'[a].lba) = c /\ LbaBank(mCmdQueue'[a].lba) = b
               /\ a \in S <=>
                    place[a] = "list" /\ LbaChan(mCmdQueue[a].lba) = c /\ LbaBank(mCmdQueue[a].lba) = b
               /\ place2[a] = IF a \in W THEN "list" ELSE place[a]
    BY DEF Listed, ChanOf, BankOf
  <2>2. ASSUME NEW a \in Addr PROVE a \in Listed(place2, c, b)' <=> a \in S \cup N
    <3>1. CASE a \in W
      BY <1>2, <1>4, <2>1, <3>1
    <3>2. CASE a \notin W
      BY <1>2, <1>3, <2>1, <3>2
    <3>. QED
      BY <3>1, <3>2
  <2>3. Listed(place2, c, b)' \in SUBSET Addr /\ S \in SUBSET Addr
    BY DEF Listed
  <2>. QED
    BY <1>2, <2>2, <2>3
<1>6. ASSUME NEW a \in S, a # tail[c][b] PROVE mCmdQueue'[a].next = mCmdQueue[a].next
  <2>1. NextAfter(a, s, lba, cnt) = Nil
    BY <1>6, NextOfListed
  <2>2. a \in Addr \ W
    BY <1>1, <1>2
  <2>. QED
    BY <2>1, <2>2, EntriesLinked
<1>7. ASSUME S # {}, N # {} PROVE mCmdQueue'[tail[c][b]].next = Least(N)
  <2>. PICK a : a = tail[c][b]
    OBVIOUS
  <2>1. a \in S
    <3>1. Linked(S, r, head[c][b], tail[c][b], mCmdQueue)
      BY DEF Lists
    <3>. QED
      BY <1>7, <3>1 DEF Linked
  <2>2. NextAfter(a, s, lba, cnt) = Least(N)
    BY <1>7, <2>1, NextOfListed
  <2>3. Least(N) # Nil
    <3>1. Least(N) \in Addr
      BY <1>2, <1>7, LeastIsLeast
    <3>. QED
      BY <3>1, ControllerAssumption DEF Addr, Nil
  <2>4. a \in Addr \ W
    BY <1>1, <1>2, <2>1
  <2>. QED
    BY <2>2, <2>3, <2>4, EntriesLinked
<1>8. ASSUME NEW a \in N, {x \in N : x > a} # {}
      PROVE  mCmdQueue'[a].next = Least({x \in N : x > a})
  <2>1. NextAfter(a, s, lba, cnt) = Least({x \in N : x > a})
    BY <1>8, NextOfNew
  <2>2. a \in W
    BY <1>2
  <2>. QED
    BY <2>1, <2>2, EntriesLinked
<1>9. Extends(S, N, tail[c][b], mCmdQueue, mCmdQueue')
  BY <1>6, <1>7, <1>8 DEF Extends
<1>. QED
  BY <1>2, <1>5, <1>9

\* The lists after a new command.
LEMMA ListsExtended ==
  ASSUME NEW place, NEW r, NEW m, Lists(place, r, m), place \in [Addr -> Places], TableTyped,
         NEW s \in Slot, NEW cnt \in 1 .. SlotCws, NEW lba \in Nat, Left(place, s) = {},
         NEW id, NEW cmd, processPCMDQueue(s, id, cmd, lba, cnt),
         NEW place2, place2 = [a \in Addr |-> IF a \in WordsOf(s, cnt) THEN "list" ELSE place[a]]
  PROVE  /\ \E r2, m2 : Lists(place2, r2, m2)'
         /\ head' \in [Chan -> [Bank -> Addr \cup {Nil}]]
         /\ tail' \in [Chan -> [Bank -> Addr \cup {Nil}]]
<1>. PICK W : W = WordsOf(s, cnt)
  OBVIOUS
<1>. PICK K : K = NumSlots * SlotCws
  OBVIOUS
<1>. PICK r2, m2 : r2 = [a \in Addr |-> IF a \in W THEN m + a ELSE r[a]] /\ m2 = m + K
  OBVIOUS
<1>0. /\ W \in SUBSET Addr /\ r \in [Addr -> Nat] /\ m \in Nat /\ \A a \in Addr : r[a] < m
      /\ K \in Nat /\ \A a \in Addr : a \in Nat /\ a < K
  <2>1. W \in SUBSET Addr
    BY WordsAreInSlot
  <2>2. K \in Nat /\ \A a \in Addr : a \in Nat /\ a < K
    BY ControllerAssumption DEF Addr
  <2>. QED
    BY <2>1, <2>2 DEF Lists
<1>1. r2 \in [Addr -> Nat] /\ m2 \in Nat /\ \A a \in Addr : r2[a] < m2
  <2>1. ASSUME NEW a \in Addr PROVE r2[a] \in Nat /\ r2[a] < m2
    <3>1. r[a] \in Nat /\ r[a] < m /\ a \in Nat /\ a < K /\ m + a \in Nat /\ m + a < m2 /\ r[a] < m2
      BY <1>0
    <3>2. r2[a] = m + a \/ r2[a] = r[a]
      OBVIOUS
    <3>. QED
      BY <3>1, <3>2
  <2>2. m2 \in Nat
    BY <1>0
  <2>3. r2 = [a \in Addr |-> r2[a]]
    OBVIOUS
  <2>. QED
    BY <2>1, <2>2, <2>3
<1>2. LinkWords(s, lba, cnt) /\ mCmdQueue \in [Addr -> Entries]
  BY DEF processPCMDQueue, TableTyped
<1>3. ASSUME NEW c \in Chan, NEW b \in Bank
      PROVE  /\ Linked(Listed(place2, c, b), r2, head[c][b], tail[c][b], mCmdQueue)'
             /\ head'[c][b] \in Addr \cup {Nil} /\ tail'[c][b] \in Addr \cup {Nil}
  <2>. PICK S, N, h, t, q, q2 : /\ S = Listed(place, c, b) /\ N = NewWords(s, lba, cnt, c, b)
                                /\ h = head[c][b] /\ t = tail[c][b] /\ q = mCmdQueue /\ q2 = mCmdQueue'
    OBVIOUS
  <2>1. Listed(place2, c, b)' = S \cup N /\ S \cap N = {} /\ Extends(S, N, t, q, q2)
    BY <1>2, ListsGrow
  <2>2. S \in SUBSET Addr /\ N \in SUBSET Addr /\ N \subseteq W
    BY NewWordsAre DEF Listed
  <2>3. Linked(S, r, h, t, q)
    BY DEF Lists
  <2>4. \A a \in S : r2[a] = r[a]
    <3>1. \A a \in S : a \notin W
      BY WordsAreInSlot DEF Listed, Left
    <3>. QED
      BY <2>2, <3>1
  <2>5. \A a \in N : r2[a] = m + a
    BY <2>2
  <2>6. head'[c][b] = NewHead(h, N) /\ tail'[c][b] = NewTail(t, N)
    BY DEF processPCMDQueue
  <2>. PICK h2, t2 : h2 = NewHead(h, N) /\ t2 = NewTail(t, N)
    OBVIOUS
  <2>7. \A a \in S : r[a] < m
    BY <1>0, <2>2
  <2>8. Linked(S \cup N, r2, h2, t2, q2)
    BY <1>0, <2>1, <2>2, <2>3, <2>4, <2>5, <2>7, LinkedExtended
  <2>9. Linked(Listed(place2, c, b), r2, head[c][b], tail[c][b], mCmdQueue)'
    BY <2>1, <2>6, <2>8, LinkedNext
  <2>10. (h2 = Nil \/ h2 \in S \cup N) /\ (t2 = Nil \/ t2 \in S \cup N)
    BY <2>8, Zenon DEF Linked
  <2>. QED
    BY <2>2, <2>6, <2>9, <2>10
<1>4. Lists(place2, r2, m2)'
  BY <1>1, <1>3 DEF Lists
<1>5. /\ IsFcn(head') /\ DOMAIN head' = Chan /\ IsFcn(tail') /\ DOMAIN tail' = Chan
      /\ \A c \in Chan : /\ IsFcn(head'[c]) /\ DOMAIN head'[c] = Bank
                         /\ IsFcn(tail'[c]) /\ DOMAIN tail'[c] = Bank
  BY DEF processPCMDQueue, IsFcn
<1>6. ASSUME NEW c \in Chan
      PROVE  head'[c] \in [Bank -> Addr \cup {Nil}] /\ tail'[c] \in [Bank -> Addr \cup {Nil}]
  BY <1>3, <1>5 DEF IsFcn
<1>7. head' \in [Chan -> [Bank -> Addr \cup {Nil}]] /\ tail' \in [Chan -> [Bank -> Addr \cup {Nil}]]
  BY <1>5, <1>6 DEF IsFcn
<1>. QED
  BY <1>4, <1>7

\* What a new command for slot s leaves alone.
CommandFrame(s, place) ==
  /\ UNCHANGED <<dispatch, mAscq, mAlcq, mAvailableCredit, manager, doneVars>>
  /\ \A q \in Peqs : peq'[q] = peq[q]
  /\ \A a \in Addr : place[a] # "none" =>
       /\ SlotOf(a) # s /\ ChanOf(a)' = ChanOf(a)
       /\ Kind(a)' = Kind(a) /\ Word(a)' = Word(a)

\* The words of the controller do not belong to the new command.
LEMMA CommandFrames ==
  ASSUME NEW place, Located(place), TableTyped, NEW s \in Slot, Left(place, s) = {},
         NEW id, NEW cmd, NEW cnt \in 1 .. SlotCws, NEW lba \in Nat,
         processPCMDQueue(s, id, cmd, lba, cnt),
         UNCHANGED <<dispatch, mAscq, mAlcq, mAvailableCredit, manager, doneVars>>,
         \A q \in Peqs : peq'[q] = peq[q]
  PROVE  CommandFrame(s, place)
<1>1. ASSUME NEW a \in Addr, place[a] # "none"
      PROVE  SlotOf(a) # s /\ ChanOf(a)' = ChanOf(a) /\ Kind(a)' = Kind(a) /\ Word(a)' = Word(a)
  <2>1. SlotOf(a) # s
    BY <1>1 DEF Left
  <2>2. a \notin WordsOf(s, cnt)
    BY <2>1, WordsAreInSlot
  <2>3. mCmdQueue'[a].lba = mCmdQueue[a].lba
    BY <2>2, EntriesLinked DEF processPCMDQueue, TableTyped
  <2>4. mSlotTable'[SlotOf(a)] = mSlotTable[SlotOf(a)]
    BY <2>1, SlotOfTyped DEF processPCMDQueue, TableTyped
  <2>. QED
    BY <2>1, <2>3, <2>4 DEF ChanOf, Kind, Word
<1>. QED
  BY <1>1 DEF CommandFrame

\* The places of the controller hold what they held.
LEMMA CommandLocates ==
  ASSUME NEW place, Located(place), NEW s, CommandFrame(s, place),
         NEW W \in SUBSET Addr, \A a \in W : SlotOf(a) = s,
         NEW place2, place2 = [a \in Addr |-> IF a \in W THEN "list" ELSE place[a]]
  PROVE  Located(place2)'
<1>1. place \in [Addr -> Places]
  BY DEF Located
<1>2. place2 \in [Addr -> Places]
  BY <1>1 DEF Places
<1>3. ASSUME NEW c \in Chan, NEW p \in Held
      PROVE  Enumerates(Content(c, p), In(place2, c, p))'
  <2>1. Content(c, p)' = Content(c, p)
    <3>1. PendingW(c) \in Peqs /\ PendingR(c) \in Peqs
      BY Names
    <3>2. Timed(PendingW(c))' = Timed(PendingW(c)) /\ Timed(PendingR(c))' = Timed(PendingR(c))
      BY <3>1 DEF CommandFrame, Timed
    <3>3. CASE p \in {"disp", "mgr", "ascq", "alcq"}
      <4>1. UNCHANGED <<dispatch, mAscq, mAlcq, manager>>
        BY DEF CommandFrame
      <4>. QED
        BY <3>3, <4>1 DEF Content
    <3>4. CASE p = "pw"
      BY <3>2, <3>4 DEF Content
    <3>5. CASE p = "pr"
      BY <3>2, <3>5 DEF Content
    <3>. QED
      BY <3>3, <3>4, <3>5 DEF Held
  <2>2. In(place2, c, p)' = In(place, c, p)
    <3>1. p # "list" /\ p # "none"
      BY DEF Held
    <3>2. ASSUME NEW a \in Addr
          PROVE  (place2[a] = p /\ ChanOf(a)' = c) <=> (place[a] = p /\ ChanOf(a) = c)
      <4>1. CASE place[a] # "none"
        <5>1. a \notin W /\ ChanOf(a)' = ChanOf(a)
          BY <4>1 DEF CommandFrame
        <5>. QED
          BY <5>1
      <4>2. CASE place[a] = "none"
        BY <3>1, <4>2
      <4>. QED
        BY <4>1, <4>2
    <3>3. /\ In(place2, c, p)' = {a \in Addr : place2[a] = p /\ ChanOf(a)' = c}
          /\ In(place, c, p) = {a \in Addr : place[a] = p /\ ChanOf(a) = c}
      BY DEF In
    <3>. QED
      BY <3>2, <3>3
  <2>3. Enumerates(Content(c, p), In(place, c, p))
    BY DEF Located
  <2>. QED
    BY <2>1, <2>2, <2>3
<1>. QED
  BY <1>2, <1>3 DEF Located

\* Reads and writes still take their own ways.
LEMMA CommandFits ==
  ASSUME NEW place, Located(place), Kinds(place), NEW s \in Slot, CommandFrame(s, place),
         NEW W \in SUBSET Addr, \A a \in W : Kind(a)' \in {"READ", "WRITE"},
         NEW place2, place2 = [a \in Addr |-> IF a \in W THEN "list" ELSE place[a]]
  PROVE  Kinds(place2)'
<1>1. ASSUME NEW a \in Addr PROVE KindFits(a, place2[a])'
  <2>1. CASE a \in W
    BY <2>1 DEF KindFits
  <2>2. CASE a \notin W /\ place[a] # "none"
    <3>1. KindFits(a, place[a]) /\ Kind(a)' = Kind(a)
      BY <2>2 DEF Kinds, CommandFrame
    <3>. QED
      BY <2>2, <3>1 DEF KindFits
  <2>3. CASE a \notin W /\ place[a] = "none"
    BY <2>3 DEF KindFits
  <2>. QED
    BY <2>1, <2>2, <2>3
<1>2. ASSUME NEW c \in Chan PROVE ManagerFits(c)'
  <2>1. manager' = manager /\ ManagerFits(c)
    BY DEF CommandFrame, Kinds
  <2>2. CASE manager[c].at \in {"top", "long"}
    BY <2>1, <2>2 DEF ManagerFits, ReadPlaces, WritePlaces
  <2>3. CASE manager[c].at \notin {"top", "long"}
    <3>. PICK a : a = manager[c].addr
      OBVIOUS
    <3>0. Enumerates(<<a>>, In(place, c, "mgr"))
      <4>1. Content(c, "mgr") = <<a>>
        BY <2>3 DEF Content
      <4>. QED
        BY <4>1 DEF Located, Held
    <3>1. a \in Addr /\ place[a] = "mgr"
      <4>1. In(place, c, "mgr") = {a}
        BY <3>0, EnumOne, Zenon
      <4>2. a \in In(place, c, "mgr")
        BY <4>1, Zenon
      <4>. QED
        BY <4>2, Zenon DEF In
    <3>2. Kind(a)' = Kind(a)
      BY <3>1 DEF CommandFrame
    <3>. QED
      BY <2>1, <3>2 DEF ManagerFits
  <2>. QED
    BY <2>2, <2>3
<1>. QED
  BY <1>1, <1>2 DEF Kinds

\* The countdowns, with a new one for slot s.
LEMMA CommandCounts ==
  ASSUME NEW place, Finished(place), NEW s \in Slot, CommandFrame(s, place), Idle(place, s),
         DoneTyped, TableTyped, NEW cnt \in 1 .. SlotCws,
         NEW W \in SUBSET Addr, \A a \in W : SlotOf(a) = s, Cardinality(W) = cnt,
         mSlotTable'[s].cnt = cnt, \A x \in Slot \ {s} : mSlotTable'[x] = mSlotTable[x],
         NEW place2, place2 = [a \in Addr |-> IF a \in W THEN "list" ELSE place[a]]
  PROVE  /\ Finished(place2)'
         /\ StateOf(place2, s)' = "busy"
         /\ \A x \in Slot \ {s} : StateOf(place2, x)' = StateOf(place, x)
<1>0. UNCHANGED <<mIntermediateQueue, mSlotNumQueue, mCompletionQueue, mCompletionQueue_mcore>>
  BY DEF CommandFrame, doneVars
<1>1. Left(place2, s) = W
  BY DEF Left, Idle
<1>2. \A x \in Slot \ {s} : Left(place2, x) = Left(place, x)
  BY DEF Left
<1>3. mIntermediateQueue[s] = 0
  <2>1. Left(place, s) = {} /\ Counted(place, s) /\ Cardinality({}) = 0
    BY FS_EmptySet DEF Idle, Finished
  <2>. QED
    BY <2>1 DEF Counted
<1>4. Counted(place2, s)'
  <2>1. Cardinality(Left(place2, s)) = cnt
    BY <1>1
  <2>. QED
    BY <1>0, <1>3, <2>1 DEF Counted
<1>5. ASSUME NEW x \in Slot \ {s} PROVE Counted(place2, x)'
  <2>1. Counted(place, x) /\ Left(place2, x) = Left(place, x) /\ mSlotTable'[x] = mSlotTable[x]
    BY <1>2 DEF Finished
  <2>. QED
    BY <1>0, <2>1 DEF Counted
<1>6. Reports(place2)'
  <2>1. Reports(place)
    BY DEF Finished
  <2>2. reported' = reported
    BY <1>0 DEF reported
  <2>3. Timed(Completion)' = Timed(Completion)
    BY DEF CommandFrame, Timed, Peqs
  <2>4. ASSUME NEW x \in Slot
        PROVE  /\ x \in Range(reported)' \/ mCompletionQueue_mcore'[x] => Left(place2, x) = {}
               /\ x \in Range(reported)' => ~mCompletionQueue_mcore'[x]
    <3>1. Range(reported)' = Range(reported)
      BY <2>2 DEF Range
    <3>2. CASE x = s
      BY <1>0, <3>1, <3>2 DEF Idle
    <3>3. CASE x # s
      BY <1>0, <1>2, <2>1, <3>1, <3>3 DEF Reports
    <3>. QED
      BY <3>2, <3>3
  <2>5. IsInjective(reported)'
    BY <2>1, <2>2 DEF Reports
  <2>6. Len(mSlotNumQueue)' = Len(Timed(Completion))'
    BY <1>0, <2>1, <2>3 DEF Reports
  <2>. QED
    BY <2>4, <2>5, <2>6 DEF Reports
<1>7. /\ StateOf(place2, s)' = "busy"
      /\ \A x \in Slot \ {s} : StateOf(place2, x)' = StateOf(place, x)
  <2>1. Range(reported)' = Range(reported)
    BY <1>0 DEF reported, Range
  <2>2. \A x : Left(place2, x)' = Left(place2, x)
    BY DEF Left, SlotOf
  <2>3. W # {}
    BY FS_EmptySet
  <2>. QED
    BY <1>0, <1>1, <1>2, <2>1, <2>2, <2>3 DEF Idle, StateOf
<1>. QED
  BY <1>4, <1>5, <1>6, <1>7 DEF Finished

\* The credits do not depend on a new command.
LEMMA CommandCredits ==
  ASSUME NEW place, Located(place), LocalsTyped, CreditsKept, NEW s, CommandFrame(s, place)
  PROVE  CreditsKept'
<1>0. UNCHANGED <<mAlcq, mAvailableCredit, manager>>
  BY DEF CommandFrame
<1>1. ASSUME NEW c \in Chan PROVE CreditUse(c)' = CreditUse(c)
  <2>1. /\ PendingR(c) \in Peqs /\ <<"memRead", c>> \in Peqs /\ <<"checkResp", c>> \in Peqs
    BY Names
  <2>2. /\ peq'[PendingR(c)] = peq[PendingR(c)] /\ peq'[<<"memRead", c>>] = peq[<<"memRead", c>>]
        /\ peq'[<<"checkResp", c>>] = peq[<<"checkResp", c>>]
    BY <2>1 DEF CommandFrame
  <2>3. ReadTimed(c)' = ReadTimed(c) /\ Selects(c)' = Selects(c) /\ Answers(c)' = Answers(c)
    BY <2>2 DEF ReadTimed, Selects, Answers
  <2>4. Managed(c)' = Managed(c)
    BY <1>0 DEF Managed
  <2>5. LongReads(c)' = LongReads(c)
    <3>. PICK q : q = mAlcq[c]
      OBVIOUS
    <3>1. \A i \in 1 .. Len(q) : q[i] \in Addr /\ place[q[i]] = "alcq"
      <4>1. Enumerates(q, In(place, c, "alcq"))
        <5>1. Content(c, "alcq") = q
          BY DEF Content
        <5>. QED
          BY <5>1 DEF Located, Held
      <4>2. \A i \in 1 .. Len(q) : q[i] \in In(place, c, "alcq")
        BY <4>1, EnumRange
      <4>. QED
        BY <4>2 DEF In
    <3>2. DOMAIN q = 1 .. Len(q)
      BY DEF LocalsTyped
    <3>3. \A i \in DOMAIN q : q[i] \in Reading' <=> q[i] \in Reading
      BY <3>1, <3>2 DEF Reading, CommandFrame
    <3>4. Marks(q, Reading') = Marks(q, Reading)
      BY <3>3, Zenon DEF Marks
    <3>5. mAlcq'[c] = q
      BY <1>0
    <3>. QED
      BY <3>4, <3>5, Zenon DEF LongReads, CountOf
  <2>. QED
    BY <2>3, <2>4, <2>5 DEF CreditUse
<1>. QED
  BY <1>0, <1>1 DEF CreditsKept

\* processPCMDQueue: a command for an idle slot.
LEMMA CommandKeepsInv ==
  ASSUME NEW place, NEW r, NEW m, DimmInv(place, r, m), NEW s \in Slot, Idle(place, s),
         NEW id \in Nat, NEW cmd \in {"READ", "WRITE"}, NEW cnt \in 1 .. SlotCws, NEW lba \in Nat,
         processPCMDQueue(s, id, cmd, lba, cnt),
         cmd = "WRITE" => \A a \in WordsOf(s, cnt) : mDataBuffer[a] = <<id, a % SlotCws>>,
         UNCHANGED <<dispatch, mAscq, mAlcq, mAvailableCredit, manager, doneVars>>,
         \A q \in Peqs : peq'[q] = peq[q], Wakes'
  PROVE  \E place2, r2, m2 : /\ DimmInv(place2, r2, m2)'
                             /\ StateOf(place2, s)' = "busy"
                             /\ \A x \in Slot \ {s} : StateOf(place2, x)' = StateOf(place, x)
<1>. PICK W, place2 : /\ W = WordsOf(s, cnt)
                      /\ place2 = [a \in Addr |-> IF a \in W THEN "list" ELSE place[a]]
  OBVIOUS
<1>0. W \in SUBSET Addr /\ (\A a \in W : SlotOf(a) = s) /\ Cardinality(W) = cnt
  BY WordsAreInSlot
<1>1. Located(place) /\ TableTyped /\ Left(place, s) = {}
  BY DEF DimmInv, Typed, Idle
<1>2. CommandFrame(s, place)
  BY <1>1, CommandFrames
<1>3. Located(place2)'
  BY <1>0, <1>1, <1>2, CommandLocates
<1>4. /\ \E r2, m2 : Lists(place2, r2, m2)'
      /\ head' \in [Chan -> [Bank -> Addr \cup {Nil}]]
      /\ tail' \in [Chan -> [Bank -> Addr \cup {Nil}]]
  <2>1. Lists(place, r, m) /\ place \in [Addr -> Places]
    BY DEF DimmInv, Located
  <2>2. place2 = [a \in Addr |-> IF a \in WordsOf(s, cnt) THEN "list" ELSE place[a]]
    BY Zenon
  <2>. QED
    BY <1>1, <2>1, <2>2, ListsExtended
<1>5. /\ mSlotTable'[s] = [cmd |-> cmd, cnt |-> cnt, id |-> id]
      /\ \A x \in Slot \ {s} : mSlotTable'[x] = mSlotTable[x]
      /\ IsFcn(mSlotTable') /\ DOMAIN mSlotTable' = Slot
  BY <1>1 DEF TableTyped, processPCMDQueue, IsFcn
<1>6. TableTyped'
  <2>1. mSlotTable' \in [Slot -> Commands]
    <3>1. \A x \in Slot : mSlotTable'[x] \in Commands
      <4>1. mSlotTable'[s] \in Commands
        BY <1>5 DEF Commands
      <4>2. \A x \in Slot \ {s} : mSlotTable'[x] \in Commands
        BY <1>1, <1>5 DEF TableTyped
      <4>. QED
        BY <4>1, <4>2
    <3>. QED
      BY <1>5, <3>1 DEF IsFcn
  <2>2. mCmdQueue' \in [Addr -> Entries]
    BY <1>1, EntriesLinked DEF processPCMDQueue, TableTyped
  <2>. QED
    BY <1>4, <2>1, <2>2 DEF TableTyped
<1>7. Typed'
  BY <1>6 DEF DimmInv, Typed, LocalsTyped, DoneTyped, doneVars
<1>8. \A a \in W : Kind(a)' = cmd /\ Word(a)' = <<id, a % SlotCws>>
  BY <1>0, <1>5 DEF Kind, Word
<1>9. Kinds(place2)'
  <2>1. \A a \in W : Kind(a)' \in {"READ", "WRITE"}
    BY <1>8
  <2>2. Kinds(place)
    BY DEF DimmInv
  <2>. QED
    BY <1>0, <1>1, <1>2, <2>1, <2>2, CommandFits
<1>10. /\ Finished(place2)'
       /\ StateOf(place2, s)' = "busy"
       /\ \A x \in Slot \ {s} : StateOf(place2, x)' = StateOf(place, x)
  <2>1. Finished(place) /\ DoneTyped /\ mSlotTable'[s].cnt = cnt
    BY <1>5 DEF DimmInv, Typed
  <2>. QED
    BY <1>0, <1>1, <1>2, <1>5, <2>1, CommandCounts
<1>11. DataHeld(place2)'
  <2>. SUFFICES ASSUME NEW a \in Addr, place2[a] \in NeedsData, Kind(a)' = "WRITE"
                PROVE  mDataBuffer'[a] = Word(a)'
    BY DEF DataHeld
  <2>1. mDataBuffer' = mDataBuffer
    BY DEF doneVars
  <2>2. CASE a \in W
    BY <1>8, <2>1, <2>2
  <2>3. CASE a \notin W
    <3>1. place[a] \in NeedsData /\ place[a] # "none"
      BY <2>3 DEF NeedsData
    <3>2. Kind(a)' = Kind(a) /\ Word(a)' = Word(a)
      BY <1>2, <3>1 DEF CommandFrame
    <3>. QED
      BY <2>1, <3>1, <3>2 DEF DimmInv, DataHeld
  <2>. QED
    BY <2>2, <2>3
<1>12. CreditsKept'
  BY <1>1, <1>2, CommandCredits DEF DimmInv, Typed
<1>. QED
  BY <1>3, <1>4, <1>7, <1>9, <1>10, <1>11, <1>12 DEF DimmInv

(***************************************************************************)
(* The controller's steps, whoever uses it.                                *)
(***************************************************************************)
\* Every step of the controller and the device keeps the invariant.
LEMMA ControllerKeepsInv ==
  ASSUME NEW place, NEW r, NEW m, DimmInv(place, r, m), ControllerStep
  PROVE  Follows(place)
<1>1. CASE completionMethod
  BY <1>1, CompletionKeepsInv
<1>2. ASSUME NEW c \in Chan, cmdDispatcherProcess(c)
      PROVE  Follows(place)
  BY <1>2, DispatcherLooks, DispatcherTakes, DispatcherPushes, Zenon DEF cmdDispatcherProcess
<1>3. ASSUME NEW c \in Chan, chanManagerProcess(c)
      PROVE  Follows(place)
  BY <1>3, ManagerTakesRead, ManagerTakesWord, ManagerStays, ManagerSends, ManagerTimesRead,
     ManagerTimesWrite, ReadEnds, Zenon DEF chanManagerProcess
<1>4. ASSUME NEW c \in Chan, pendingReadCmdProcess(c)
      PROVE  Follows(place)
  <2>1. CASE IsFull(mAlcq[c])
    BY <1>4, <2>1, ReadWaits
  <2>2. CASE ~IsFull(mAlcq[c])
    <3>1. ReadTimeIsOver(c)
      BY <1>4, <2>2, Zenon DEF pendingReadCmdProcess
    <3>. QED
      BY <1>4, <3>1, ReadGoesOn
  <2>. QED
    BY <2>1, <2>2
<1>5. ASSUME NEW c \in Chan, ChannelStep(c)
      PROVE  Follows(place)
  BY <1>2, <1>3, <1>4, <1>5, WriteEnds, ResponseTaken, Zenon DEF ChannelStep
<1>6. ASSUME NEW c \in Chan, DeviceStep(c), UNCHANGED controllerVars
      PROVE  Follows(place)
  BY <1>6, DeviceMoves
<1>. QED
  BY <1>1, <1>5, <1>6, Zenon DEF ControllerStep

\* The host's timers and threads are not the controller's.
HostNames == {"mcore_thread", "testCase", "submissionQueue"}
LEMMA HostApart ==
  ASSUME NEW q, q[1] \in HostNames
  PROVE  q \notin Peqs /\ q \notin TimedProcs /\ q \notin ControllerProcs
  BY DEF HostNames, Peqs, TimedProcs, TimedNames, DeviceProcs, ControllerProcs, ControllerMethods,
         DeviceThreads, Completion

\* What a step of the controller leaves the host.
HostKept ==
  /\ DOMAIN peq' = DOMAIN peq /\ DOMAIN waiting' = DOMAIN waiting
  /\ \A q \in DOMAIN peq : q[1] \in HostNames => peq'[q] = peq[q]
  /\ \A q \in DOMAIN waiting : q[1] \in HostNames /\ q[1] \in TimerNames /\ Asleep(q) => Asleep(q)'
  /\ \A s \in Slot : mCompletionQueue_mcore[s] => mCompletionQueue_mcore'[s]

\* The timers of the host are the same in both.
HostTimersSame(new, pq) ==
  DOMAIN new = DOMAIN pq /\ \A q \in DOMAIN pq : q[1] \in HostNames => new[q] = pq[q]

\* An operation on a queue of another name.
LEMMA OtherQueueUsed ==
  ASSUME NEW pq, NEW n, n[1] \notin HostNames, NEW x
  PROVE  /\ HostTimersSame(Post(pq, n, x), pq) /\ HostTimersSame(PostNow(pq, n, x), pq)
         /\ HostTimersSame(Take(pq, n), pq)
<1>1. HostTimersSame(Post(pq, n, x), pq)
  BY DEF Post, HostTimersSame
<1>2. HostTimersSame(PostNow(pq, n, x), pq)
  BY DEF PostNow, HostTimersSame
<1>3. HostTimersSame(Take(pq, n), pq)
  BY DEF Take, HostTimersSame
<1>. QED
  BY <1>1, <1>2, <1>3

\* The queue operations of the controller leave the timers of the host alone.
LEMMA HostTimersStay ==
  ASSUME NEW c \in Chan, OperatesOn(c) \/ peq' = Take(peq, Completion)
  PROVE  HostTimersSame(peq', peq)
<1>1. \A n \in QueueNames : <<n, c>>[1] \notin HostNames
  BY DEF QueueNames, ControllerMethods, DeviceProcs, HostNames
<1>2. Completion[1] \notin HostNames
  BY DEF Completion, HostNames
<1>3. ASSUME NEW n \in QueueNames, NEW k \in QueueNames, NEW x
      PROVE  /\ HostTimersSame(Post(Take(peq, <<n, c>>), <<k, c>>, x), peq)
             /\ HostTimersSame(PostNow(Take(peq, <<n, c>>), <<k, c>>, x), peq)
  <2>. PICK pq : pq = Take(peq, <<n, c>>)
    OBVIOUS
  <2>1. HostTimersSame(pq, peq)
    BY <1>1, OtherQueueUsed
  <2>2. HostTimersSame(Post(pq, <<k, c>>, x), pq) /\ HostTimersSame(PostNow(pq, <<k, c>>, x), pq)
    BY <1>1, OtherQueueUsed
  <2>. QED
    BY <2>1, <2>2 DEF HostTimersSame
<1>4. HostTimersSame(peq, peq)
  BY DEF HostTimersSame
<1>5. ASSUME NEW n \in QueueNames, NEW x
      PROVE  HostTimersSame(Post(peq, <<n, c>>, x), peq) /\ HostTimersSame(Take(peq, <<n, c>>), peq)
  BY <1>1, OtherQueueUsed
<1>6. ASSUME NEW x
      PROVE  HostTimersSame(Post(peq, Completion, x), peq) /\ HostTimersSame(Take(peq, Completion), peq)
  BY <1>2, OtherQueueUsed
<1>. QED
  BY <1>3, <1>4, <1>5, <1>6, Zenon DEF OperatesOn

\* Who runs in a step of the controller.
LEMMA ControllerRuns ==
  ASSUME ControllerStep
  PROVE  \E p : p[1] \notin HostNames /\ Runs(p)
<1>1. CASE completionMethod
  <2>1. Completion[1] \notin HostNames
    BY DEF Completion, HostNames
  <2>. QED
    BY <1>1, <2>1, Runners, DeviceAssumption DEF completionMethod, Runs, Ran, Wait
<1>2. ASSUME NEW c \in Chan, ChannelStep(c)
      PROVE  \E p : p[1] \notin HostNames /\ Runs(p)
  <2>1. /\ Dispatcher(c)[1] \notin HostNames /\ Manager(c)[1] \notin HostNames
        /\ PendingW(c)[1] \notin HostNames /\ PendingR(c)[1] \notin HostNames
        /\ <<"checkResp", c>>[1] \notin HostNames
    BY DEF Dispatcher, Manager, PendingW, PendingR, HostNames
  <2>2. \/ Runs(Dispatcher(c)) \/ Runs(Manager(c)) \/ Runs(PendingW(c)) \/ Runs(PendingR(c))
        \/ Runs(<<"checkResp", c>>)
    BY <1>2, Runners, Zenon DEF ChannelStep
  <2>. QED
    BY <2>1, <2>2, Zenon
<1>3. ASSUME NEW c \in Chan, DeviceStep(c)
      PROVE  \E p : p[1] \notin HostNames /\ Runs(p)
  <2>1. \A n \in DeviceProcs \cup {"phyDl2Write"} : <<n, c>>[1] \notin HostNames
    BY DEF DeviceProcs, HostNames
  <2>2. \E n \in DeviceProcs \cup {"phyDl2Write"} : Runs(<<n, c>>)
    <3>1. \/ Runs(<<"ackWrite", c>>) \/ Runs(<<"ackRead", c>>) \/ Runs(<<"memRead", c>>)
          \/ Runs(<<"accRead", c>>) \/ Runs(<<"accWrite", c>>) \/ Runs(<<"phyDl2Write", c>>)
      BY <1>3, DeviceRunners, Zenon DEF DeviceStep
    <3>. QED
      BY <3>1 DEF DeviceProcs
  <2>. QED
    BY <2>1, <2>2, Zenon
<1>. QED
  BY <1>1, <1>2, <1>3, Zenon DEF ControllerStep

\* The controller leaves the host's timers and sleeping threads alone, and takes
\* no status back.
LEMMA ControllerKeepsHost ==
  ASSUME Wakes, DoneTyped, ControllerStep
  PROVE  HostKept
<1>0. Chan # {}
  BY DeviceAssumption DEF Chan
<1>1. /\ DOMAIN peq' = DOMAIN peq
      /\ \A q \in DOMAIN peq : q[1] \in HostNames => peq'[q] = peq[q]
  <2>1. \E c \in Chan : OperatesOn(c) \/ peq' = Take(peq, Completion)
    <3>1. completionMethod => peq' = Take(peq, Completion)
      BY DEF completionMethod
    <3>. QED
      BY <1>0, <3>1, ChannelOperates, DeviceOperates, Zenon DEF ControllerStep
  <2>2. HostTimersSame(peq', peq)
    BY <2>1, HostTimersStay
  <2>. QED
    BY <2>2 DEF HostTimersSame
<1>2. PICK p : p[1] \notin HostNames /\ Runs(p)
  BY ControllerRuns
<1>3. DOMAIN waiting' = DOMAIN waiting
  BY <1>2 DEF Runs, Ran, WaitAfter, GoOnAfter
<1>4. ASSUME NEW q \in DOMAIN waiting, q[1] \in HostNames, q[1] \in TimerNames, Asleep(q)
      PROVE  Asleep(q)'
  <2>1. Ran(p, {}) /\ p # q /\ IsFcn(waiting)
    BY <1>2, <1>4 DEF Runs, Wakes
  <2>. QED
    BY <1>4, <2>1, SleepersStay
<1>5. ASSUME NEW s \in Slot, mCompletionQueue_mcore[s]
      PROVE  mCompletionQueue_mcore'[s]
  <2>1. ASSUME NEW x, Complete(x) PROVE mCompletionQueue_mcore'[s]
    BY <1>5, <2>1 DEF Complete, DoneTyped
  <2>2. CASE completionMethod
    BY <2>1, <2>2 DEF completionMethod
  <2>3. CASE mCompletionQueue_mcore' = mCompletionQueue_mcore
    BY <1>5, <2>3
  <2>4. ASSUME NEW c \in Chan, ChannelStep(c) PROVE mCompletionQueue_mcore'[s]
    <3>1. cmdDispatcherProcess(c) => mCompletionQueue_mcore' = mCompletionQueue_mcore
      BY DEF cmdDispatcherProcess, DispatcherPolls, DispatcherSkips, DispatcherWaits,
             DispatcherUnlinks, DispatchShortQueue, DispatchLongQueue, doneVars
    <3>2. chanManagerProcess(c) => mCompletionQueue_mcore' = mCompletionQueue_mcore
      BY DEF chanManagerProcess, ManagerTakesShort, ManagerTakesLong, ManagerWaits, RRAMInterfaceMethod,
             ProcessShortQueueCmd, WriteWaitsForDL1, ProcessWriteCmd, ProcessReadData, doneVars,
             controllerVars
    <3>3. pendingReadCmdProcess(c) \/ checkRespProcess(c) => mCompletionQueue_mcore' = mCompletionQueue_mcore
      BY DEF pendingReadCmdProcess, checkRespProcess, doneVars
    <3>4. CASE pendingWriteCmdProcess(c)
      BY <2>1, <2>3, <3>4 DEF pendingWriteCmdProcess
    <3>. QED
      BY <2>3, <2>4, <3>1, <3>2, <3>3, <3>4 DEF ChannelStep
  <2>5. UNCHANGED controllerVars => mCompletionQueue_mcore' = mCompletionQueue_mcore
    BY DEF controllerVars, doneVars
  <2>. QED
    BY <2>2, <2>3, <2>4, <2>5 DEF ControllerStep
<1>. QED
  BY <1>1, <1>3, <1>4, <1>5 DEF HostKept

\* The controller does not touch the data of a slot that is the host's.
LEMMA IdleDataStays ==
  ASSUME NEW place, NEW r, NEW m, DimmInv(place, r, m), ControllerStep, NEW s \in Slot, Idle(place, s),
         NEW x \in Addr, SlotOf(x) = s
  PROVE  mDataBuffer'[x] = mDataBuffer[x]
<1>1. CASE UNCHANGED mDataBuffer
  BY <1>1
<1>2. ASSUME NEW c \in Chan, ProcessReadData(c) PROVE mDataBuffer'[x] = mDataBuffer[x]
  <2>. PICK a : a = manager[c].addr
    OBVIOUS
  <2>1. manager[c].at = "selectSent" /\ mDataBuffer' = [mDataBuffer EXCEPT ![a] = readData[c]]
    BY <1>2 DEF ProcessReadData
  <2>2. In(place, c, "mgr") = {a} /\ a \in Addr /\ place[a] = "mgr"
    BY <2>1, ManagerHolds DEF DimmInv
  <2>3. SlotOf(a) # s
    BY <2>2 DEF Idle, Left
  <2>. QED
    BY <2>1, <2>3
<1>3. ASSUME NEW c \in Chan, ChannelStep(c), ~ProcessReadData(c) PROVE UNCHANGED mDataBuffer
  <2>1. cmdDispatcherProcess(c) => UNCHANGED mDataBuffer
    BY DEF cmdDispatcherProcess, DispatcherPolls, DispatcherSkips, DispatcherWaits,
           DispatcherUnlinks, DispatchShortQueue, DispatchLongQueue, doneVars
  <2>2. chanManagerProcess(c) => UNCHANGED mDataBuffer
    BY <1>3 DEF chanManagerProcess, ManagerTakesShort, ManagerTakesLong, ManagerWaits,
           RRAMInterfaceMethod, ProcessShortQueueCmd, WriteWaitsForDL1, ProcessWriteCmd, doneVars,
           controllerVars
  <2>3. /\ pendingReadCmdProcess(c) \/ checkRespProcess(c) => UNCHANGED mDataBuffer
        /\ pendingWriteCmdProcess(c) => UNCHANGED mDataBuffer
    BY DEF pendingReadCmdProcess, checkRespProcess, pendingWriteCmdProcess, doneVars
  <2>. QED
    BY <1>3, <2>1, <2>2, <2>3 DEF ChannelStep
<1>4. completionMethod => UNCHANGED mDataBuffer
  BY DEF completionMethod
<1>5. UNCHANGED controllerVars => UNCHANGED mDataBuffer
  BY DEF controllerVars, doneVars
<1>. QED
  BY <1>1, <1>2, <1>3, <1>4, <1>5 DEF ControllerStep

(***************************************************************************)
(* The host's steps.                                                       *)
(***************************************************************************)
\* Thread p of the host runs: it may set its own timer.
HostRuns(p) ==
  /\ p[1] \in HostNames
  /\ \E now : Ran(p, now) /\ \A e \in now : e[1] \notin TimerNames
  /\ \A e \in pending' : e \in pending \/ e[1] \notin TimerNames
  /\ peq' = peq \/ \E x : peq' = [peq EXCEPT ![p] = x]

\* What a run of p leaves of the kernel's state.
OthersRest(p) ==
  /\ DOMAIN waiting' = DOMAIN waiting /\ DOMAIN peq' = DOMAIN peq
  /\ \A q \in Peqs : peq'[q] = peq[q]
  /\ \A q \in DOMAIN peq \ {p} : peq'[q] = peq[q]
  /\ \A q \in DOMAIN waiting \ {p} : q[1] \in TimerNames /\ Asleep(q) => Asleep(q)'

\* A thread of the host does not wake the controller's timed processes.
LEMMA HostRunWakes ==
  ASSUME Wakes, NEW p, HostRuns(p)
  PROVE  Wakes' /\ OthersRest(p)
<1>. PICK now : Ran(p, now) /\ \A e \in now : e[1] \notin TimerNames
  BY DEF HostRuns
<1>1. p \notin Peqs /\ p \notin TimedProcs
  BY HostApart DEF HostRuns
<1>2. IsFcn(peq) /\ Peqs \subseteq DOMAIN peq /\ IsFcn(waiting)
  BY DEF Wakes, QueuesTyped
<1>3. /\ IsFcn(peq)' /\ DOMAIN peq' = DOMAIN peq
      /\ \A q \in DOMAIN peq \ {p} : peq'[q] = peq[q]
  <2>1. CASE peq' = peq
    BY <1>2, <2>1
  <2>2. ASSUME NEW x, peq' = [peq EXCEPT ![p] = x]
        PROVE  /\ IsFcn(peq)' /\ DOMAIN peq' = DOMAIN peq
               /\ \A q \in DOMAIN peq \ {p} : peq'[q] = peq[q]
    BY <2>2 DEF IsFcn
  <2>. QED
    BY <2>1, <2>2 DEF HostRuns
<1>4. \A q \in Peqs : peq'[q] = peq[q]
  BY <1>1, <1>2, <1>3
<1>5. QueuesTyped(peq)'
  <2>1. \A q \in Peqs : \E T : Suits(q, T) /\ peq[q] \in QueueOf(T)
    BY DEF Wakes, QueuesTyped
  <2>2. \A q \in Peqs : \E T : Suits(q, T) /\ peq'[q] \in QueueOf(T)
    BY <1>4, <2>1
  <2>. QED
    BY <1>2, <1>3, <2>2 DEF QueuesTyped
<1>6. \A q \in TimedProcs : peq'[q].due = peq[q].due
  BY <1>4, Names
<1>7. Wakes'
  BY <1>1, <1>5, <1>6, WakesKept DEF HostRuns
<1>8. DOMAIN waiting' = DOMAIN waiting
  BY DEF Ran, WaitAfter, GoOnAfter
<1>9. \A q \in DOMAIN waiting \ {p} : q[1] \in TimerNames /\ Asleep(q) => Asleep(q)'
  BY <1>2, SleepersStay
<1>. QED
  BY <1>3, <1>4, <1>7, <1>8, <1>9 DEF OthersRest

\* The part of the controller's state that only its own processes and
\* processPCMDQueue change.
innerVars == <<bankVars, dispatch, mAscq, mAlcq, mAvailableCredit, manager, mIntermediateQueue>>

\* The host reads what was reported or writes data.
LEMMA HostFrameKeepsInv ==
  ASSUME NEW place, NEW r, NEW m, DimmInv(place, r, m), Wakes', \A q \in Peqs : peq'[q] = peq[q],
         UNCHANGED innerVars, DoneTyped', Reports(place)', DataHeld(place)'
  PROVE  DimmInv(place, r, m)'
<1>0. /\ UNCHANGED <<dispatch, manager, mAscq, mAlcq, mAvailableCredit, mSlotTable, mCmdQueue>>
      /\ UNCHANGED <<mCmdQueue, head, tail>> /\ UNCHANGED mIntermediateQueue
  BY DEF innerVars, bankVars
<1>1. \A q \in Peqs : SameEntries(Timed(q)', Timed(q))
  BY DEF SameEntries, Timed
<1>2. Located(place)' /\ CreditsKept'
  BY <1>0, <1>1, PlacesStay DEF DimmInv
<1>3. Lists(place, r, m)'
  BY <1>0, ListsKept DEF DimmInv
<1>4. Kinds(place)'
  BY <1>0 DEF DimmInv, Kinds, KindFits, ManagerFits, Kind
<1>5. \A s \in Slot : Counted(place, s)'
  BY <1>0 DEF DimmInv, Finished, Counted
<1>6. Typed'
  BY <1>0 DEF DimmInv, Typed, TableTyped, LocalsTyped
<1>. QED
  BY <1>2, <1>3, <1>4, <1>5, <1>6 DEF DimmInv, Finished

\* The host does something else.
LEMMA HostAloneKeepsInv ==
  ASSUME NEW place, NEW r, NEW m, DimmInv(place, r, m), Wakes', \A q \in Peqs : peq'[q] = peq[q],
         UNCHANGED controllerVars
  PROVE  /\ DimmInv(place, r, m)' /\ \A s \in Slot : Idle(place, s) => Idle(place, s)'
         /\ Follows(place)
<1>1. UNCHANGED innerVars /\ UNCHANGED doneVars
  BY DEF controllerVars, innerVars, bankVars, statusVars, doneVars
<1>2. Timed(Completion)' = Timed(Completion)
  BY Names DEF Timed, Peqs
<1>3. /\ DoneTyped' /\ Reports(place)' /\ DataHeld(place)'
      /\ \A s \in Slot : StateOf(place, s)' = StateOf(place, s)
  BY <1>2, TablesStay DEF Finished, Typed
<1>4. DimmInv(place, r, m)'
  BY <1>1, <1>3, HostFrameKeepsInv
<1>5. \A s \in Slot : Idle(place, s) => Idle(place, s)'
  BY <1>3, IdleIsIdle
<1>6. Follows(place)
  BY <1>1, <1>3, <1>4 DEF Follows, Serves, innerVars, bankVars
<1>. QED
  BY <1>4, <1>5, <1>6

\* What the host does when it reads completions: slots that are done become idle.
Collects(place) ==
  \A x \in Slot : \/ StateOf(place, x)' = StateOf(place, x)
                  \/ StateOf(place, x) = "done" /\ StateOf(place, x)' = "idle"

\* readCompletionQueue with several cores: the status of slot s is read and reset.
LEMMA StatusReadKeepsInv ==
  ASSUME NEW place, NEW r, NEW m, DimmInv(place, r, m), Wakes', \A q \in Peqs : peq'[q] = peq[q],
         UNCHANGED innerVars, UNCHANGED <<mSlotNumQueue, mCompletionQueue, mDataBuffer>>,
         NEW s \in Slot, mCompletionQueue_mcore' = [mCompletionQueue_mcore EXCEPT ![s] = FALSE]
  PROVE  /\ DimmInv(place, r, m)'
         /\ mCompletionQueue_mcore[s] => Idle(place, s)'
         /\ \A x \in Slot \ {s} : Idle(place, x) => Idle(place, x)'
         /\ Collects(place)
<1>0. DoneTyped /\ Reports(place)
  BY DEF DimmInv, Typed, Finished
<1>1. /\ mCompletionQueue_mcore' \in [Slot -> BOOLEAN] /\ ~mCompletionQueue_mcore'[s]
      /\ \A x \in Slot \ {s} : mCompletionQueue_mcore'[x] = mCompletionQueue_mcore[x]
  BY <1>0 DEF DoneTyped
<1>2. DoneTyped'
  BY <1>0, <1>1 DEF DoneTyped, innerVars
<1>3. reported' = reported /\ Range(reported)' = Range(reported)
  BY DEF reported, Range
<1>4. Reports(place)'
  <2>1. Timed(Completion)' = Timed(Completion)
    BY Names DEF Timed, Peqs
  <2>2. ASSUME NEW x \in Slot
        PROVE  /\ x \in Range(reported)' \/ mCompletionQueue_mcore'[x] => Left(place, x) = {}
               /\ x \in Range(reported)' => ~mCompletionQueue_mcore'[x]
    BY <1>0, <1>1, <1>3 DEF Reports
  <2>3. IsInjective(reported)'
    BY <1>0, <1>3 DEF Reports
  <2>4. Len(mSlotNumQueue)' = Len(Timed(Completion))'
    BY <1>0, <2>1 DEF Reports
  <2>. QED
    BY <2>2, <2>3, <2>4 DEF Reports
<1>5. DataHeld(place)'
  BY DataKept DEF DimmInv, innerVars, bankVars
<1>6. DimmInv(place, r, m)'
  BY <1>2, <1>4, <1>5, HostFrameKeepsInv
<1>7. \A x \in Slot \ {s} : Idle(place, x) => Idle(place, x)'
  BY <1>1, <1>3 DEF Idle
<1>8. mCompletionQueue_mcore[s] => Idle(place, s)'
  BY <1>0, <1>1, <1>3 DEF Idle, Reports
<1>9. Collects(place)
  <2>1. \A x : Left(place, x)' = Left(place, x)
    BY DEF Left, SlotOf
  <2>2. mCompletionQueue_mcore[s] => s \notin Range(reported) /\ Left(place, s) = {}
    BY <1>0 DEF Reports
  <2>. QED
    BY <1>1, <1>3, <2>1, <2>2 DEF Collects, StateOf
<1>. QED
  BY <1>6, <1>7, <1>8, <1>9

\* readCompletionQueue_mode0: the completion queue is read and emptied.
LEMMA QueueReadKeepsInv ==
  ASSUME NEW place, NEW r, NEW m, DimmInv(place, r, m), Wakes', \A q \in Peqs : peq'[q] = peq[q],
         UNCHANGED innerVars, UNCHANGED <<mSlotNumQueue, mCompletionQueue_mcore, mDataBuffer>>,
         mCompletionQueue' = <<>>
  PROVE  /\ DimmInv(place, r, m)'
         /\ \A x \in Range(mCompletionQueue) : x \in Slot /\ Idle(place, x)'
         /\ \A x \in Slot : Idle(place, x) => Idle(place, x)'
         /\ Collects(place)
<1>0. DoneTyped /\ Reports(place) /\ IsInjective(reported)
  BY DEF DimmInv, Typed, Finished, Reports
<1>. PICK A, B : A = Range(mSlotNumQueue) /\ B = Range(mCompletionQueue)
  OBVIOUS
<1>1. Enumerates(mSlotNumQueue, A) /\ A \cap B = {} /\ Range(reported) = A \cup B
  BY <1>0, ReportedParts
<1>2. IsInjective(reported)' /\ Range(reported)' = A
  <2>1. Enumerates(mSlotNumQueue', A) /\ Enumerates(mCompletionQueue', {})
    BY <1>1, EnumEmpty
  <2>2. A \cap {} = {} /\ A \cup {} = A
    OBVIOUS
  <2>. QED
    BY <2>1, <2>2, ReportedNext
<1>3. DoneTyped'
  <2>1. mCompletionQueue' \in Seq(Slot)
    OBVIOUS
  <2>. QED
    BY <1>0, <2>1 DEF DoneTyped, innerVars
<1>4. Reports(place)'
  <2>1. Timed(Completion)' = Timed(Completion)
    BY Names DEF Timed, Peqs
  <2>2. ASSUME NEW x \in Slot
        PROVE  /\ x \in Range(reported)' \/ mCompletionQueue_mcore'[x] => Left(place, x) = {}
               /\ x \in Range(reported)' => ~mCompletionQueue_mcore'[x]
    BY <1>0, <1>1, <1>2 DEF Reports
  <2>3. Len(mSlotNumQueue)' = Len(Timed(Completion))'
    BY <1>0, <2>1 DEF Reports
  <2>. QED
    BY <1>2, <2>2, <2>3 DEF Reports
<1>5. DataHeld(place)'
  BY DataKept DEF DimmInv, innerVars, bankVars
<1>6. DimmInv(place, r, m)'
  BY <1>3, <1>4, <1>5, HostFrameKeepsInv
<1>7. \A x \in Slot : Idle(place, x) => Idle(place, x)'
  BY <1>1, <1>2 DEF Idle
<1>8. ASSUME NEW x \in B PROVE x \in Slot /\ Idle(place, x)'
  <2>1. x \in Slot
    BY <1>0 DEF DoneTyped, Range
  <2>2. x \in Range(reported) /\ x \notin A
    BY <1>1
  <2>. QED
    BY <1>0, <1>2, <2>1, <2>2 DEF Idle, Reports
<1>9. Collects(place)
  <2>1. \A x : Left(place, x)' = Left(place, x)
    BY DEF Left, SlotOf
  <2>2. \A x \in Slot : x \in Range(reported) => ~mCompletionQueue_mcore[x] /\ Left(place, x) = {}
    BY <1>0 DEF Reports
  <2>. QED
    BY <1>1, <1>2, <2>1, <2>2 DEF Collects, StateOf
<1>. QED
  BY <1>6, <1>7, <1>8, <1>9

\* b_transport with data for an idle slot.
LEMMA DataWrittenKeepsInv ==
  ASSUME NEW place, NEW r, NEW m, DimmInv(place, r, m), Wakes', \A q \in Peqs : peq'[q] = peq[q],
         UNCHANGED innerVars,
         UNCHANGED <<mSlotNumQueue, mCompletionQueue, mCompletionQueue_mcore>>,
         NEW s \in Slot, Idle(place, s), NEW id, NEW cnt \in 1 .. SlotCws, WriteBlockData(s, id, cnt)
  PROVE  /\ DimmInv(place, r, m)' /\ \A x \in Slot : Idle(place, x) => Idle(place, x)'
         /\ \A x \in Slot : StateOf(place, x)' = StateOf(place, x)
         /\ \A a \in WordsOf(s, cnt) : mDataBuffer'[a] = <<id, a % SlotCws>>
         /\ \A a \in Addr : SlotOf(a) # s => mDataBuffer'[a] = mDataBuffer[a]
<1>0. DoneTyped /\ Reports(place)
  BY DEF DimmInv, Typed, Finished
<1>1. /\ IsFcn(mDataBuffer)' /\ DOMAIN mDataBuffer' = Addr
      /\ \A a \in WordsOf(s, cnt) : mDataBuffer'[a] = <<id, a % SlotCws>>
      /\ \A a \in Addr \ WordsOf(s, cnt) : mDataBuffer'[a] = mDataBuffer[a]
  BY WordsAreInSlot DEF WriteBlockData, IsFcn
<1>2. \A a \in Addr : SlotOf(a) # s => mDataBuffer'[a] = mDataBuffer[a]
  BY <1>1, WordsAreInSlot
<1>3. DoneTyped'
  BY <1>0, <1>1 DEF DoneTyped, innerVars
<1>4. reported' = reported /\ Range(reported)' = Range(reported)
  BY DEF reported, Range
<1>5. Reports(place)'
  <2>1. Timed(Completion)' = Timed(Completion)
    BY Names DEF Timed, Peqs
  <2>. QED
    BY <1>0, <1>4, <2>1 DEF Reports
<1>6. DataHeld(place)'
  <2>. SUFFICES ASSUME NEW a \in Addr, place[a] \in NeedsData, Kind(a)' = "WRITE"
                PROVE  mDataBuffer'[a] = Word(a)'
    BY DEF DataHeld
  <2>1. Kind(a)' = Kind(a) /\ Word(a)' = Word(a)
    BY DEF Kind, Word, innerVars, bankVars
  <2>2. SlotOf(a) # s
    BY DEF Idle, Left, NeedsData
  <2>. QED
    BY <1>2, <2>1, <2>2 DEF DimmInv, DataHeld
<1>7. DimmInv(place, r, m)'
  BY <1>3, <1>5, <1>6, HostFrameKeepsInv
<1>8. \A x \in Slot : StateOf(place, x)' = StateOf(place, x)
  BY <1>4 DEF StateOf, Left, SlotOf
<1>9. \A x \in Slot : Idle(place, x) => Idle(place, x)'
  BY <1>8, IdleIsIdle
<1>. QED
  BY <1>1, <1>2, <1>7, <1>8, <1>9

(***************************************************************************)
(* What the invariant says of the controller.                              *)
(***************************************************************************)
\* The code words of channel c that have left the lists.
Passed(place, c) == {a \in Addr : place[a] \in Held /\ ChanOf(a) = c}
HomeOf(place, h) == IF h[2] = Nil THEN Passed(place, h[1]) ELSE Listed(place, h[1], h[2])

\* Nil is no bank and no address.
LEMMA NilApart == Nil \notin Bank /\ Nil \notin Addr
  BY DeviceAssumption DEF Nil, Bank, Addr

\* Every address of the command queue has a channel and a bank.
LEMMA EveryWordHasHome ==
  ASSUME TableTyped, NEW a \in Addr
  PROVE  ChanOf(a) \in Chan /\ BankOf(a) \in Bank
<1>1. mCmdQueue[a].lba \in Nat
  BY DEF TableTyped, Entries
<1>. QED
  BY <1>1, LbaTyped DEF ChanOf, BankOf

\* Past the lists: every place once.
LEMMA PassedAreMet ==
  ASSUME NEW place, Located(place), NEW c \in Chan
  PROVE  Enumerates(PastLists(c), Passed(place, c))
<1>1. \A p \in Held : Enumerates(Content(c, p), In(place, c, p))
  BY DEF Located
<1>2. \A p, q \in Held : p # q => In(place, c, p) \cap In(place, c, q) = {}
  BY DEF In
<1>. PICK D, M, S, L, W, R :
       /\ D = In(place, c, "disp") /\ M = In(place, c, "mgr") /\ S = In(place, c, "ascq")
       /\ L = In(place, c, "alcq") /\ W = In(place, c, "pw") /\ R = In(place, c, "pr")
  OBVIOUS
<1>. PICK d, g, s, l, w, t :
       /\ d = Content(c, "disp") /\ g = Content(c, "mgr") /\ s = Content(c, "ascq")
       /\ l = Content(c, "alcq") /\ w = Content(c, "pw") /\ t = Content(c, "pr")
  OBVIOUS
<1>3. /\ Enumerates(d, D) /\ Enumerates(g, M) /\ Enumerates(s, S)
      /\ Enumerates(l, L) /\ Enumerates(w, W) /\ Enumerates(t, R)
  BY <1>1 DEF Held
<1>4. /\ D \cap M = {} /\ (D \cup M) \cap S = {} /\ (D \cup M \cup S) \cap L = {}
      /\ (D \cup M \cup S \cup L) \cap W = {} /\ (D \cup M \cup S \cup L \cup W) \cap R = {}
  BY <1>2 DEF Held, In
<1>5. Enumerates(d \o g, D \cup M)
  BY <1>3, <1>4, EnumJoin
<1>6. Enumerates(d \o g \o s, D \cup M \cup S)
  BY <1>3, <1>4, <1>5, EnumJoin
<1>7. Enumerates(d \o g \o s \o l, D \cup M \cup S \cup L)
  BY <1>3, <1>4, <1>6, EnumJoin
<1>8. Enumerates(d \o g \o s \o l \o w, D \cup M \cup S \cup L \cup W)
  BY <1>3, <1>4, <1>7, EnumJoin
<1>9. Enumerates(d \o g \o s \o l \o w \o t, D \cup M \cup S \cup L \cup W \cup R)
  BY <1>3, <1>4, <1>8, EnumJoin
<1>10. Passed(place, c) = D \cup M \cup S \cup L \cup W \cup R
  BY DEF Passed, In, Held
<1>11. PastLists(c) = d \o g \o s \o l \o w \o t
  BY Zenon DEF PastLists, InHand, Content
<1>. QED
  BY <1>9, <1>10, <1>11

\* The words of a list, once each, up to the tail.
LEMMA ListedAreMet ==
  ASSUME NEW place, NEW r, NEW m, TableTyped, Lists(place, r, m), NEW c \in Chan, NEW b \in Bank
  PROVE  /\ Enumerates(ListOf(c, b), Listed(place, c, b))
         /\ Listed(place, c, b) # {} => ListOf(c, b)[Len(ListOf(c, b))] = tail[c][b]
         /\ tail[c][b] = Nil <=> Listed(place, c, b) = {}
<1>. PICK S : S = Listed(place, c, b)
  OBVIOUS
<1>1. /\ S \in SUBSET Addr /\ r \in [Addr -> Nat]
      /\ Linked(S, r, head[c][b], tail[c][b], mCmdQueue)
  BY DEF Lists, Listed
<1>2. mCmdQueue \in [Addr -> Entries]
  BY DEF TableTyped
<1>3. /\ Enumerates(ListOf(c, b), S)
      /\ S # {} => ListOf(c, b)[Len(ListOf(c, b))] = tail[c][b]
  BY <1>1, <1>2, ListIsMet
<1>4. tail[c][b] = Nil <=> S = {}
  BY <1>1 DEF Linked
<1>. QED
  BY <1>3, <1>4

\* Every home holds its own words.
LEMMA HomesAreMet ==
  ASSUME NEW place, NEW r, NEW m, DimmInv(place, r, m), NEW h \in Homes
  PROVE  Enumerates(WordsAt(h), HomeOf(place, h))
<1>. TableTyped /\ Located(place) /\ Lists(place, r, m)
  BY DEF DimmInv, Typed
<1>1. CASE h[2] = Nil
  <2>1. h[1] \in Chan
    BY DEF Homes
  <2>. QED
    BY <1>1, <2>1, PassedAreMet DEF WordsAt, HomeOf
<1>2. CASE h[2] # Nil
  <2>1. h[1] \in Chan /\ h[2] \in Bank
    BY <1>2 DEF Homes
  <2>. QED
    BY <1>2, <2>1, ListedAreMet DEF WordsAt, HomeOf
<1>. QED
  BY <1>1, <1>2

\* A word is in one place.
LEMMA InvGivesOneHome ==
  ASSUME NEW place, NEW r, NEW m, DimmInv(place, r, m)
  PROVE  OneHome
<1>1. ASSUME NEW h \in Homes
      PROVE  IsInjective(WordsAt(h)) /\ Range(WordsAt(h)) = HomeOf(place, h)
  BY HomesAreMet, EnumRange
<1>2. ASSUME NEW h \in Homes, NEW k \in Homes \ {h}
      PROVE  HomeOf(place, h) \cap HomeOf(place, k) = {}
  <2>1. h[1] # k[1] \/ h[2] # k[2]
    BY DEF Homes
  <2>. QED
    BY <2>1 DEF HomeOf, Passed, Listed, Held
<1>. QED
  BY <1>1, <1>2 DEF OneHome

\* What is left of a slot's command is what place does not say is gone.
LEMMA LeftIsWordsLeft ==
  ASSUME NEW place, NEW r, NEW m, DimmInv(place, r, m), NEW s
  PROVE  WordsLeft(s) = Left(place, s)
<1>. TableTyped /\ Located(place)
  BY DEF DimmInv, Typed
<1>1. \A h \in Homes : Range(WordsAt(h)) = HomeOf(place, h)
  BY HomesAreMet, EnumRange
<1>2. ASSUME NEW h \in Homes, NEW a \in HomeOf(place, h)
      PROVE  a \in Addr /\ place[a] # "none"
  BY DEF HomeOf, Passed, Listed, Held
<1>3. ASSUME NEW a \in Addr, place[a] # "none" PROVE \E h \in Homes : a \in HomeOf(place, h)
  <2>1. ChanOf(a) \in Chan /\ BankOf(a) \in Bank /\ place[a] \in Places
    BY EveryWordHasHome DEF Located
  <2>2. CASE place[a] = "list"
    <3>. DEFINE h == <<ChanOf(a), BankOf(a)>>
    <3>1. h \in Homes /\ h[1] = ChanOf(a) /\ h[2] = BankOf(a) /\ h[2] # Nil
      BY <2>1, NilApart DEF Homes
    <3>. HIDE DEF h
    <3>. QED
      BY <2>2, <3>1 DEF HomeOf, Listed
  <2>3. CASE place[a] \in Held
    <3>. DEFINE h == <<ChanOf(a), Nil>>
    <3>1. h \in Homes /\ h[1] = ChanOf(a) /\ h[2] = Nil
      BY <2>1 DEF Homes
    <3>. HIDE DEF h
    <3>. QED
      BY <2>3, <3>1 DEF HomeOf, Passed
  <2>. QED
    BY <1>3, <2>1, <2>2, <2>3 DEF Places
<1>4. UNION {Range(WordsAt(h)) : h \in Homes} = {a \in Addr : place[a] # "none"}
  BY <1>1, <1>2, <1>3
<1>. QED
  BY <1>4 DEF WordsLeft, Left

\* The countdown.
LEMMA InvGivesCountdown ==
  ASSUME NEW place, NEW r, NEW m, DimmInv(place, r, m)
  PROVE  CountdownExact
<1>1. \A s \in Slot : WordsLeft(s) = Left(place, s) /\ Counted(place, s)
  BY LeftIsWordsLeft DEF DimmInv, Finished
<1>. QED
  BY <1>1 DEF CountdownExact, Counted

\* Reported slots.
LEMMA InvGivesIdle ==
  ASSUME NEW place, NEW r, NEW m, DimmInv(place, r, m)
  PROVE  CompletedSlotsAreIdle
<1>1. \A s \in Slot : WordsLeft(s) = Left(place, s)
  BY LeftIsWordsLeft
<1>2. Reports(place)
  BY DEF DimmInv, Finished
<1>. QED
  BY <1>1, <1>2 DEF CompletedSlotsAreIdle, Reports, reported

\* The lists.
LEMMA InvGivesLists ==
  ASSUME NEW place, NEW r, NEW m, DimmInv(place, r, m)
  PROVE  ListsWellFormed
<1>. TableTyped /\ Lists(place, r, m)
  BY DEF DimmInv, Typed
<1>. SUFFICES ASSUME NEW c \in Chan, NEW b \in Bank, NEW l, l = ListOf(c, b)
              PROVE  /\ (l = <<>>) = (tail[c][b] = Nil)
                     /\ l # <<>> => l[Len(l)] = tail[c][b]
                     /\ \A a \in Range(l) : /\ a # Nil /\ BankOf(a) = b
                                            /\ LbaChan(mCmdQueue[a].lba) = c
  BY DEF ListsWellFormed
<1>. PICK S : S = Listed(place, c, b)
  OBVIOUS
<1>1. /\ Enumerates(l, S)
      /\ S # {} => l[Len(l)] = tail[c][b]
      /\ tail[c][b] = Nil <=> S = {}
  BY ListedAreMet
<1>2. Range(l) = S /\ (l = <<>> <=> S = {})
  BY <1>1, EnumRange
<1>3. \A a \in S : a # Nil /\ BankOf(a) = b /\ LbaChan(mCmdQueue[a].lba) = c
  BY NilApart DEF Listed, ChanOf
<1>. QED
  BY <1>1, <1>2, <1>3

\* The data of the writes.
LEMMA InvGivesData ==
  ASSUME NEW place, NEW r, NEW m, DimmInv(place, r, m)
  PROVE  BufferHeld
<1>. TableTyped /\ Lists(place, r, m) /\ Located(place) /\ DataHeld(place)
  BY DEF DimmInv, Typed
<1>. SUFFICES ASSUME NEW c \in Chan,
                     NEW a \in Range(mAlcq[c] \o InHand(c)) \cup UNION {Range(ListOf(c, b)) : b \in Bank}
              PROVE  a # Nil /\ Kind(a) = "WRITE" => mDataBuffer[a] = Word(a)
  BY DEF BufferHeld
<1>1. a \in Addr /\ place[a] \in NeedsData
  <2>1. CASE a \in Range(mAlcq[c] \o InHand(c))
    <3>1. \A p \in {"alcq", "disp", "mgr"} : Enumerates(Content(c, p), In(place, c, p))
      BY DEF Located, Held
    <3>. PICK D, M, L : /\ D = In(place, c, "disp") /\ M = In(place, c, "mgr")
                        /\ L = In(place, c, "alcq")
      OBVIOUS
    <3>. PICK d, g, l : /\ d = Content(c, "disp") /\ g = Content(c, "mgr")
                        /\ l = Content(c, "alcq")
      OBVIOUS
    <3>2. Enumerates(d, D) /\ Enumerates(g, M) /\ Enumerates(l, L)
      BY <3>1
    <3>3. D \cap M = {} /\ L \cap (D \cup M) = {}
      BY DEF In
    <3>4. Enumerates(l \o (d \o g), L \cup (D \cup M))
      BY <3>2, <3>3, EnumJoin
    <3>5. mAlcq[c] \o InHand(c) = l \o (d \o g)
      BY Zenon DEF InHand, Content
    <3>6. a \in L \cup (D \cup M)
      BY <2>1, <3>4, <3>5, EnumRange
    <3>. QED
      BY <3>6 DEF In, NeedsData
  <2>2. ASSUME NEW b \in Bank, a \in Range(ListOf(c, b)) PROVE a \in Addr /\ place[a] = "list"
    <3>1. Range(ListOf(c, b)) = Listed(place, c, b)
      BY ListedAreMet, EnumRange
    <3>. QED
      BY <2>2, <3>1 DEF Listed
  <2>. QED
    BY <2>1, <2>2 DEF NeedsData
<1>. QED
  BY <1>1 DEF DataHeld

\* The credits.
LEMMA InvGivesCredits ==
  ASSUME NEW place, NEW r, NEW m, DimmInv(place, r, m)
  PROVE  CreditsConserved
<1>. SUFFICES ASSUME NEW c \in Chan PROVE ReadCredits(c) = CreditUse(c)
  BY DEF CreditsConserved, DimmInv, CreditsKept
<1>1. mAlcq[c] \in Seq(Addr)
  BY DEF DimmInv, Typed, LocalsTyped
<1>2. ReadsIn(mAlcq[c]) = Marks(mAlcq[c], Reading)
  <2>1. \A i \in DOMAIN mAlcq[c] : mAlcq[c][i] \in Addr
    BY <1>1
  <2>. QED
    BY <2>1 DEF ReadsIn, Marks, Reading
<1>3. ASSUME NEW q PROVE ReadResponses(q) = Marks(q, {"READ"})
  BY DEF ReadResponses, Marks
<1>4. \A q : Timed(q) = All(peq[q])
  BY DEF Timed, All
<1>5. Cardinality(ReadsIn(mAlcq[c])) = LongReads(c)
  BY <1>2, Zenon DEF LongReads, CountOf
<1>6. Cardinality(ReadResponses(Timed(<<"checkResp", c>>))) = Answers(c)
  BY <1>3, <1>4, Zenon DEF Answers, CountOf
<1>7. Len(Timed(PendingR(c))) = ReadTimed(c) /\ Len(Timed(<<"memRead", c>>)) = Selects(c)
  BY <1>4, Zenon DEF ReadTimed, Selects
<1>. QED
  BY <1>5, <1>6, <1>7 DEF ReadCredits, CreditUse, Managed, HasCredit

(***************************************************************************)
(* The start.                                                              *)
(***************************************************************************)
\* Every process of the controller waits for its events.
LEMMA WakesAtStart ==
  ASSUME IsFcn(waiting), ControllerProcs \subseteq DOMAIN waiting,
         \A p \in ControllerProcs : waiting[p] = FirstWait(p) /\ p \notin runnable,
         pending = {}, IsFcn(peq), Peqs \subseteq DOMAIN peq, \A q \in Peqs : peq[q] = EmptyPeq
  PROVE  Wakes
<1>1. QueuesTyped(peq)
  <2>1. ASSUME NEW q \in Peqs PROVE \E T : Suits(q, T) /\ peq[q] \in QueueOf(T)
    <3>1. \A T : EmptyPeq \in QueueOf(T)
      BY DEF EmptyPeq, QueueOf
    <3>2. \E T : Suits(q, T)
      <4>1. CASE q[1] \in {"pendingWrite", "pendingRead"}
        BY <4>1 DEF Suits
      <4>2. CASE q[1] = "checkResp"
        BY <4>2 DEF Suits
      <4>3. CASE q[1] = "completion"
        BY <4>3 DEF Suits
      <4>. QED
        BY <4>1, <4>2, <4>3 DEF Suits
    <3>. QED
      BY <3>1, <3>2
  <2>. QED
    BY <2>1 DEF QueuesTyped
<1>2. ASSUME NEW p \in TimedProcs PROVE Asleep(p)
  <2>1. p \in ControllerProcs
    BY Names
  <2>2. FirstWait(p) = {p}
    BY DEF TimedProcs, TimedNames, DeviceProcs, Completion, FirstWait
  <2>. QED
    BY <2>1, <2>2 DEF Asleep
<1>. QED
  BY <1>1, <1>2 DEF Wakes

\* No command is in the controller.
LEMMA InvAtStart ==
  ASSUME ControllerInit, Wakes, \A q \in Peqs : peq[q] = EmptyPeq
  PROVE  \E place, r, m : DimmInv(place, r, m) /\ \A s \in Slot : Idle(place, s)
<1>. DEFINE place == [a \in Addr |-> "none"]
            r == [a \in Addr |-> 0]
<1>1. /\ place \in [Addr -> Places] /\ \A a \in Addr : place[a] = "none"
      /\ r \in [Addr -> Nat] /\ \A a \in Addr : r[a] = 0
  BY DEF Places
<1>. HIDE DEF place, r
<1>2. \A q \in Peqs : Timed(q) = <<>> /\ All(peq[q]) = <<>>
  BY DEF Timed, All, EmptyPeq
<1>3. TableTyped
  <2>1. NoEntry \in Entries
    BY DEF NoEntry, Entries
  <2>2. NoCommand \in Commands
    BY ControllerAssumption DEF NoCommand, Commands
  <2>. QED
    BY <2>1, <2>2 DEF TableTyped, ControllerInit, AllBanks
<1>4. LocalsTyped
  <2>1. 0 \in Bank /\ Credit \in Nat
    BY DeviceAssumption, ControllerAssumption DEF Bank
  <2>2. dispatch \in [Chan -> [at : {"check", "bank", "push"}, bank : Bank, addr : Addr \cup {Nil}]]
    BY <2>1 DEF ControllerInit
  <2>3. manager \in [Chan -> [at : {"top", "long"} \cup ReadPlaces \cup WritePlaces,
                              addr : Addr \cup {Nil}]]
    BY DEF ControllerInit
  <2>4. /\ mAscq \in [Chan -> Seq(Addr)] /\ mAlcq \in [Chan -> Seq(Addr)]
        /\ mAvailableCredit \in [Chan -> Nat]
    BY <2>1 DEF ControllerInit
  <2>. QED
    BY <2>2, <2>3, <2>4 DEF LocalsTyped
<1>5. DoneTyped
  <2>1. 0 \in 0 .. SlotCws
    BY ControllerAssumption
  <2>. QED
    BY <2>1 DEF DoneTyped, ControllerInit, IsFcn
<1>6. Located(place)
  <2>. SUFFICES ASSUME NEW c \in Chan, NEW p \in Held
                PROVE  Enumerates(Content(c, p), In(place, c, p))
    BY <1>1 DEF Located
  <2>1. In(place, c, p) = {}
    BY <1>1 DEF In, Held
  <2>2. PendingW(c) \in Peqs /\ PendingR(c) \in Peqs
    BY Names
  <2>3. Content(c, p) = <<>>
    <3>1. dispatch[c].at = "check" /\ manager[c].at = "top" /\ mAscq[c] = <<>> /\ mAlcq[c] = <<>>
      BY DEF ControllerInit
    <3>. QED
      BY <1>2, <2>2, <3>1 DEF Content, Held
  <2>. QED
    BY <2>1, <2>3, EnumEmpty
<1>7. Lists(place, r, 1)
  <2>. SUFFICES ASSUME NEW c \in Chan, NEW b \in Bank
                PROVE  Linked(Listed(place, c, b), r, head[c][b], tail[c][b], mCmdQueue)
    BY <1>1 DEF Lists
  <2>1. Listed(place, c, b) = {}
    BY <1>1 DEF Listed
  <2>2. head[c][b] = Nil /\ tail[c][b] = Nil
    BY DEF ControllerInit, AllBanks
  <2>. QED
    BY <2>1, <2>2 DEF Linked
<1>8. Kinds(place)
  BY <1>1 DEF Kinds, KindFits, ManagerFits, ControllerInit, ReadPlaces, WritePlaces
<1>9. \A s \in Slot : Left(place, s) = {}
  BY <1>1 DEF Left
<1>10. reported = <<>> /\ Range(reported) = {}
  BY DEF ControllerInit, reported, Range
<1>11. Finished(place)
  <2>1. \A s \in Slot : Counted(place, s)
    <3>1. \A s \in Slot : mIntermediateQueue[s] = 0
      BY DEF ControllerInit
    <3>2. \A s \in Slot : Cardinality(Left(place, s)) = 0
      BY <1>9, FS_EmptySet, Zenon
    <3>. QED
      BY <3>1, <3>2 DEF Counted
  <2>2. Len(mSlotNumQueue) = Len(Timed(Completion))
    <3>1. Completion \in Peqs
      BY DEF Peqs
    <3>. QED
      BY <1>2, <3>1 DEF ControllerInit
  <2>3. IsInjective(reported)
    BY <1>10 DEF IsInjective
  <2>. QED
    BY <1>9, <1>10, <2>1, <2>2, <2>3 DEF Finished, Reports
<1>12. DataHeld(place)
  BY <1>1 DEF DataHeld, NeedsData
<1>13. CreditsKept
  <2>. SUFFICES ASSUME NEW c \in Chan PROVE mAvailableCredit[c] + CreditUse(c) = Credit
    BY DEF CreditsKept
  <2>1. \A R : CountOf(<<>>, R) = 0
    <3>1. \A R : Marks(<<>>, R) = {}
      BY DEF Marks
    <3>. QED
      BY <3>1, FS_EmptySet DEF CountOf
  <2>2. /\ PendingR(c) \in Peqs /\ <<"memRead", c>> \in Peqs /\ <<"checkResp", c>> \in Peqs
    BY Names
  <2>3. ReadTimed(c) = 0 /\ Selects(c) = 0 /\ Answers(c) = 0
    BY <1>2, <2>1, <2>2 DEF ReadTimed, Selects, Answers
  <2>4. Managed(c) = 0 /\ LongReads(c) = 0 /\ mAvailableCredit[c] = Credit
    BY <2>1 DEF Managed, LongReads, ControllerInit, HasCredit
  <2>. QED
    BY <2>3, <2>4, ControllerAssumption DEF CreditUse
<1>14. DimmInv(place, r, 1)
  BY <1>3, <1>4, <1>5, <1>6, <1>7, <1>8, <1>11, <1>12, <1>13 DEF DimmInv, Typed
<1>15. \A s \in Slot : Idle(place, s)
  BY <1>9, <1>10 DEF Idle, ControllerInit
<1>. QED
  BY <1>14, <1>15

(***************************************************************************)
(* The controller as a service.                                            *)
(***************************************************************************)
\* The places determine what the host sees of a slot.
StatesAreSeen ==
  \A place, r, m : DimmInv(place, r, m) => \A s \in Slot : SlotState[s] = StateOf(place, s)

LEMMA InvGivesStates == StatesAreSeen
<1>. SUFFICES ASSUME NEW place, NEW r, NEW m, DimmInv(place, r, m), NEW s \in Slot
              PROVE  SlotState[s] = StateOf(place, s)
  BY DEF StatesAreSeen
<1>1. WordsLeft(s) = Left(place, s)
  BY LeftIsWordsLeft
<1>. QED
  BY <1>1 DEF SlotState, StateOf, reported

\* And so it is after a step.
LEMMA InvGivesNextStates ==
  ASSUME NEW place, NEW r, NEW m, DimmInv(place, r, m)'
  PROVE  \A s \in Slot : SlotState'[s] = StateOf(place, s)'
<1>1. StatesAreSeen'
  BY InvGivesStates, PTL
<1>. QED
  BY <1>1 DEF StatesAreSeen

\* At the start all slots are idle.
LEMMA ServiceStarts ==
  ASSUME NEW place, NEW r, NEW m, DimmInv(place, r, m), \A s \in Slot : Idle(place, s),
         ControllerInit
  PROVE  SlotService!Init
<1>1. ASSUME NEW s \in Slot PROVE SlotState[s] = "idle"
  BY InvGivesStates, IdleIsIdle DEF StatesAreSeen
<1>2. \A s \in Slot : mSlotTable[s].id = 0
  BY DEF ControllerInit, NoCommand
<1>. QED
  BY <1>1, <1>2 DEF SlotService!Init, SlotsSeen

\* A step of the service, or none.
Served == [SlotService!Next]_SlotsSeen

\* The fields of what the host sees.
LEMMA SeenIs ==
  /\ SlotsSeen = [s \in Slot |-> [id |-> mSlotTable[s].id, state |-> SlotState[s]]]
  /\ SlotsSeen' = [s \in Slot |-> [id |-> mSlotTable'[s].id, state |-> SlotState'[s]]]
  BY DEF SlotsSeen

\* A slot that is busy becomes done, and only then.
LEMMA FollowsServes ==
  ASSUME NEW place, NEW r, NEW m, DimmInv(place, r, m), Follows(place)
  PROVE  Served
<1>1. PICK place2, r2, m2 : DimmInv(place2, r2, m2)' /\ Serves(place, place2)
  BY DEF Follows
<1>2. \A s \in Slot : /\ SlotState[s] = StateOf(place, s)
                      /\ SlotState'[s] = StateOf(place2, s)'
  BY <1>1, InvGivesStates, InvGivesNextStates DEF StatesAreSeen
<1>3. mSlotTable' = mSlotTable
  BY <1>1 DEF Serves
<1>4. CASE \A s \in Slot : StateOf(place2, s)' = StateOf(place, s)
  <2>1. SlotsSeen' = SlotsSeen
    BY <1>2, <1>3, <1>4, SeenIs
  <2>. QED
    BY <2>1 DEF Served
<1>5. ASSUME NEW s \in Slot, StateOf(place, s) = "busy", StateOf(place2, s)' = "done",
             \A x \in Slot \ {s} : StateOf(place2, x)' = StateOf(place, x)
      PROVE  SlotService!Next
  <2>1. SlotsSeen[s].state = "busy"
    BY <1>2, <1>5, SeenIs
  <2>2. SlotsSeen' = [SlotsSeen EXCEPT ![s].state = "done"]
    BY <1>2, <1>3, <1>5, SeenIs
  <2>. QED
    BY <2>1, <2>2 DEF SlotService!Next, SlotService!Finish
<1>. QED
  BY <1>1, <1>4, <1>5 DEF Serves, Served

\* No slot changes.
LEMMA StutterServes ==
  ASSUME NEW place, NEW r, NEW m, DimmInv(place, r, m), DimmInv(place, r, m)',
         mSlotTable' = mSlotTable, \A s \in Slot : StateOf(place, s)' = StateOf(place, s)
  PROVE  Served
<1>1. Follows(place)
  BY DEF Follows, Serves
<1>. QED
  BY <1>1, FollowsServes

\* The host reads completions.
LEMMA CollectServes ==
  ASSUME NEW place, NEW r, NEW m, DimmInv(place, r, m), DimmInv(place, r, m)',
         mSlotTable' = mSlotTable, Collects(place)
  PROVE  Served
<1>1. \A s \in Slot : /\ SlotState[s] = StateOf(place, s)
                      /\ SlotState'[s] = StateOf(place, s)'
  BY InvGivesStates, InvGivesNextStates DEF StatesAreSeen
<1>. PICK S : S = {s \in Slot : SlotState'[s] # SlotState[s]}
  OBVIOUS
<1>2. \A s \in S : SlotState[s] = "done" /\ SlotState'[s] = "idle"
  BY <1>1 DEF Collects
<1>3. S \in SUBSET {s \in Slot : SlotsSeen[s].state = "done"}
  BY <1>2, SeenIs
<1>4. SlotsSeen' = [s \in Slot |-> IF s \in S THEN [SlotsSeen[s] EXCEPT !.state = "idle"]
                                   ELSE SlotsSeen[s]]
  BY <1>2, SeenIs
<1>5. SlotService!Collect
  BY <1>3, <1>4 DEF SlotService!Collect
<1>. QED
  BY <1>5 DEF Served, SlotService!Next

\* The host writes a command into an idle slot.
LEMMA AcceptServes ==
  ASSUME NEW place, NEW r, NEW m, DimmInv(place, r, m), NEW s \in Slot, Idle(place, s),
         NEW place2, NEW r2, NEW m2, DimmInv(place2, r2, m2)', StateOf(place2, s)' = "busy",
         \A x \in Slot \ {s} : StateOf(place2, x)' = StateOf(place, x),
         NEW id \in Nat, mSlotTable[s].id < id,
         NEW cmd, NEW lba, NEW cnt, processPCMDQueue(s, id, cmd, lba, cnt)
  PROVE  Served
<1>0. mSlotTable' = [mSlotTable EXCEPT ![s] = [cmd |-> cmd, cnt |-> cnt, id |-> id]]
  BY DEF processPCMDQueue
<1>1. \A x \in Slot : /\ SlotState[x] = StateOf(place, x)
                      /\ SlotState'[x] = StateOf(place2, x)'
  BY InvGivesStates, InvGivesNextStates DEF StatesAreSeen
<1>2. mSlotTable \in [Slot -> Commands]
  BY DEF DimmInv, Typed, TableTyped
<1>3. mSlotTable'[s].id = id /\ \A x \in Slot \ {s} : mSlotTable'[x] = mSlotTable[x]
  BY <1>0, <1>2
<1>4. StateOf(place, s) = "idle"
  BY IdleIsIdle
<1>5. SlotsSeen[s].state = "idle" /\ SlotsSeen[s].id = mSlotTable[s].id
  BY <1>1, <1>4, SeenIs
<1>6. SlotsSeen'[s].id = id
  BY <1>3, SeenIs
<1>7. SlotsSeen' = [SlotsSeen EXCEPT ![s] = [id |-> id, state |-> "busy"]]
  BY <1>1, <1>3, SeenIs
<1>8. id > mSlotTable[s].id
  <2>1. PICK k \in Nat : k = mSlotTable[s].id
    BY <1>2 DEF Commands
  <2>. QED
    BY <2>1
<1>9. SlotService!Accept(s, SlotsSeen'[s].id)
  BY <1>5, <1>6, <1>7, <1>8 DEF SlotService!Accept
<1>. QED
  BY <1>9 DEF Served, SlotService!Next

(***************************************************************************)
(* The latches of the banks, when all commands are writes.                 *)
(***************************************************************************)
WritesOnly == \A s \in Slot : mSlotTable[s].cmd # "READ"

\* The words of S have different banks, which are the busy ones.
OneOwner(S, status, bank) ==
  /\ \A b \in Bank : status[b] = "BUSY" <=> \E a \in S : bank[a] = b
  /\ \A a, x \in S : bank[a] = bank[x] => a = x

Latches == [Bank -> {"FREE", "BUSY"}]
LatchTyped == mPhyDL1Status \in [Chan -> Latches] /\ mPhyDL2Status \in [Chan -> Latches]

\* DL2 is busy from the dispatch of a write until DL1 takes over, and DL1 for
\* the program time.
BankAt == [a \in Addr |-> BankOf(a)]
Dispatched(c) ==
  Range(Content(c, "disp")) \cup Range(Content(c, "mgr")) \cup Range(mAlcq[c])
Programmed(c) == Range(Timed(PendingW(c)))
LatchInv ==
  /\ LatchTyped
  /\ \A c \in Chan : /\ OneOwner(Dispatched(c), mPhyDL2Status[c], BankAt)
                     /\ OneOwner(Programmed(c), mPhyDL1Status[c], BankAt)

\* A latch becomes busy for a word of its bank, if it was free ...
LEMMA OwnerComes ==
  ASSUME NEW S, NEW status \in Latches, NEW bank, OneOwner(S, status, bank),
         NEW a, bank[a] \in Bank, status[bank[a]] = "FREE"
  PROVE  OneOwner(S \cup {a}, [status EXCEPT ![bank[a]] = "BUSY"], bank)
<1>. PICK b, st : b = bank[a] /\ st = [status EXCEPT ![b] = "BUSY"]
  OBVIOUS
<1>1. st[b] = "BUSY" /\ \A x \in Bank \ {b} : st[x] = status[x]
  BY DEF Latches
<1>2. \A x \in S : bank[x] # b
  BY DEF OneOwner
<1>3. \A x \in Bank : st[x] = "BUSY" <=> \E y \in S \cup {a} : bank[y] = x
  BY <1>1, <1>2 DEF OneOwner
<1>4. \A x, y \in S \cup {a} : bank[x] = bank[y] => x = y
  BY <1>2 DEF OneOwner
<1>. QED
  BY <1>3, <1>4 DEF OneOwner

\* ... and free when the word leaves.
LEMMA OwnerGoes ==
  ASSUME NEW S, NEW status \in Latches, NEW bank, OneOwner(S, status, bank),
         NEW a \in S, bank[a] \in Bank
  PROVE  OneOwner(S \ {a}, [status EXCEPT ![bank[a]] = "FREE"], bank)
<1>. PICK b, st : b = bank[a] /\ st = [status EXCEPT ![b] = "FREE"]
  OBVIOUS
<1>1. st[b] = "FREE" /\ \A x \in Bank \ {b} : st[x] = status[x]
  BY DEF Latches
<1>2. \A x \in S \ {a} : bank[x] # b
  BY DEF OneOwner
<1>3. \A x \in Bank : st[x] = "BUSY" <=> \E y \in S \ {a} : bank[y] = x
  BY <1>1, <1>2 DEF OneOwner
<1>. QED
  BY <1>3 DEF OneOwner

\* What a step of channel c may do: leave the latches alone, take DL2 for a word
\* that is dispatched, hand on from DL2 to DL1, or free DL1.
LatchesStay(c) ==
  /\ UNCHANGED <<mPhyDL1Status, mPhyDL2Status>>
  /\ Dispatched(c)' = Dispatched(c) /\ Programmed(c)' = Programmed(c)
TakesDL2(c, a) ==
  /\ mPhyDL2Status[c][BankAt[a]] = "FREE" /\ UNCHANGED mPhyDL1Status
  /\ mPhyDL2Status' = [mPhyDL2Status EXCEPT ![c] = [@ EXCEPT ![BankAt[a]] = "BUSY"]]
  /\ Dispatched(c)' = Dispatched(c) \cup {a} /\ Programmed(c)' = Programmed(c)
HandsOn(c, a) ==
  /\ a \in Dispatched(c) /\ mPhyDL1Status[c][BankAt[a]] = "FREE"
  /\ mPhyDL2Status' = [mPhyDL2Status EXCEPT ![c] = [@ EXCEPT ![BankAt[a]] = "FREE"]]
  /\ mPhyDL1Status' = [mPhyDL1Status EXCEPT ![c] = [@ EXCEPT ![BankAt[a]] = "BUSY"]]
  /\ Dispatched(c)' = Dispatched(c) \ {a} /\ Programmed(c)' = Programmed(c) \cup {a}
FreesDL1(c, a) ==
  /\ a \in Programmed(c) /\ UNCHANGED mPhyDL2Status
  /\ mPhyDL1Status' = [mPhyDL1Status EXCEPT ![c] = [@ EXCEPT ![BankAt[a]] = "FREE"]]
  /\ Dispatched(c)' = Dispatched(c) /\ Programmed(c)' = Programmed(c) \ {a}
MovesLatches(c) ==
  \/ LatchesStay(c)
  \/ \E a \in Addr : TakesDL2(c, a) \/ HandsOn(c, a) \/ FreesDL1(c, a)

\* One channel's latch changes.
LEMMA StatusSet ==
  ASSUME NEW st \in [Chan -> Latches], NEW c \in Chan, NEW v \in Latches
  PROVE  /\ [st EXCEPT ![c] = v] \in [Chan -> Latches] /\ [st EXCEPT ![c] = v][c] = v
         /\ \A d \in Chan \ {c} : [st EXCEPT ![c] = v][d] = st[d]
  OBVIOUS

\* With that, a latch is still busy for one word.
LEMMA LatchesKept ==
  ASSUME LatchInv, TableTyped, UNCHANGED <<mCmdQueue, mSlotTable>>, NEW c \in Chan,
         \A d \in Chan \ {c} : ChannelSame(d), MovesLatches(c)
  PROVE  LatchInv'
<1>. PICK bank, st1, st2, D, P : /\ bank = BankAt /\ st1 = mPhyDL1Status /\ st2 = mPhyDL2Status
                                 /\ D = Dispatched(c) /\ P = Programmed(c)
  OBVIOUS
<1>1. BankAt' = bank /\ \A a \in Addr : bank[a] \in Bank
  <2>1. \A a \in Addr : BankOf(a) \in Bank
    BY EveryWordHasHome
  <2>. QED
    BY <2>1 DEF BankAt, BankOf
<1>2. /\ st1 \in [Chan -> Latches] /\ st2 \in [Chan -> Latches]
      /\ st1[c] \in Latches /\ st2[c] \in Latches
      /\ OneOwner(D, st2[c], bank) /\ OneOwner(P, st1[c], bank)
  BY DEF LatchInv, LatchTyped
<1>3. ASSUME NEW n1, NEW n2, mPhyDL1Status' = n1, mPhyDL2Status' = n2,
             n1 \in [Chan -> Latches], n2 \in [Chan -> Latches],
             \A d \in Chan \ {c} : n1[d] = st1[d] /\ n2[d] = st2[d],
             NEW D2, NEW P2, Dispatched(c)' = D2, Programmed(c)' = P2,
             OneOwner(D2, n2[c], bank), OneOwner(P2, n1[c], bank)
      PROVE  LatchInv'
  <2>1. ASSUME NEW d \in Chan
        PROVE  /\ OneOwner(Dispatched(d)', n2[d], bank)
               /\ OneOwner(Programmed(d)', n1[d], bank)
    <3>1. CASE d = c
      BY <1>3, <3>1
    <3>2. CASE d # c
      <4>1. \A p \in Held : Content(d, p)' = Content(d, p)
        BY <3>2, SameHolds
      <4>2. Dispatched(d)' = Dispatched(d) /\ Programmed(d)' = Programmed(d)
        <5>1. /\ Content(d, "disp")' = Content(d, "disp") /\ Content(d, "mgr")' = Content(d, "mgr")
              /\ mAlcq'[d] = mAlcq[d] /\ Timed(PendingW(d))' = Timed(PendingW(d))
          BY <3>2, <4>1, TimedSame DEF Held, ChannelSame
        <5>. QED
          BY <5>1 DEF Dispatched, Programmed
      <4>3. n1[d] = st1[d] /\ n2[d] = st2[d]
        BY <1>3, <3>2
      <4>. QED
        BY <4>2, <4>3 DEF LatchInv
    <3>. QED
      BY <3>1, <3>2
  <2>2. LatchTyped'
    BY <1>3 DEF LatchTyped
  <2>. QED
    BY <1>1, <1>3, <2>1, <2>2 DEF LatchInv
<1>4. CASE LatchesStay(c)
  BY <1>2, <1>3, <1>4 DEF LatchesStay
<1>5. ASSUME NEW a \in Addr, TakesDL2(c, a) PROVE LatchInv'
  <2>. PICK v : v = [st2[c] EXCEPT ![bank[a]] = "BUSY"]
    OBVIOUS
  <2>1. v \in Latches /\ OneOwner(D \cup {a}, v, bank)
    <3>1. v \in Latches
      BY <1>2 DEF Latches
    <3>2. OneOwner(D \cup {a}, v, bank)
      BY <1>1, <1>2, <1>5, OwnerComes DEF TakesDL2
    <3>. QED
      BY <3>1, <3>2
  <2>. PICK n2 : n2 = [st2 EXCEPT ![c] = v]
    OBVIOUS
  <2>2. n2 \in [Chan -> Latches] /\ n2[c] = v /\ \A d \in Chan \ {c} : n2[d] = st2[d]
    BY <1>2, <2>1, StatusSet
  <2>3. /\ mPhyDL2Status' = n2 /\ mPhyDL1Status' = st1
        /\ Dispatched(c)' = D \cup {a} /\ Programmed(c)' = P
    BY <1>5 DEF TakesDL2
  <2>. QED
    BY <1>2, <1>3, <2>1, <2>2, <2>3
<1>6. ASSUME NEW a \in Addr, HandsOn(c, a) PROVE LatchInv'
  <2>. PICK v1, v2 : /\ v1 = [st1[c] EXCEPT ![bank[a]] = "BUSY"]
                     /\ v2 = [st2[c] EXCEPT ![bank[a]] = "FREE"]
    OBVIOUS
  <2>1. v1 \in Latches /\ v2 \in Latches
    BY <1>2 DEF Latches
  <2>2. OneOwner(D \ {a}, v2, bank)
    BY <1>1, <1>2, <1>6, OwnerGoes DEF HandsOn
  <2>3. OneOwner(P \cup {a}, v1, bank)
    BY <1>1, <1>2, <1>6, OwnerComes DEF HandsOn
  <2>. PICK n1, n2 : n1 = [st1 EXCEPT ![c] = v1] /\ n2 = [st2 EXCEPT ![c] = v2]
    OBVIOUS
  <2>4. /\ n1 \in [Chan -> Latches] /\ n1[c] = v1 /\ \A d \in Chan \ {c} : n1[d] = st1[d]
        /\ n2 \in [Chan -> Latches] /\ n2[c] = v2 /\ \A d \in Chan \ {c} : n2[d] = st2[d]
    BY <1>2, <2>1, StatusSet
  <2>5. /\ mPhyDL2Status' = n2 /\ mPhyDL1Status' = n1
        /\ Dispatched(c)' = D \ {a} /\ Programmed(c)' = P \cup {a}
    BY <1>6 DEF HandsOn
  <2>. PICK D2, P2 : D2 = D \ {a} /\ P2 = P \cup {a}
    OBVIOUS
  <2>6. Dispatched(c)' = D2 /\ Programmed(c)' = P2
    BY <2>5
  <2>7. OneOwner(D2, n2[c], bank) /\ OneOwner(P2, n1[c], bank)
    BY <2>2, <2>3, <2>4
  <2>8. \A d \in Chan \ {c} : n1[d] = st1[d] /\ n2[d] = st2[d]
    BY <2>4
  <2>. QED
    BY <1>3, <2>4, <2>5, <2>6, <2>7, <2>8
<1>7. ASSUME NEW a \in Addr, FreesDL1(c, a) PROVE LatchInv'
  <2>. PICK v : v = [st1[c] EXCEPT ![bank[a]] = "FREE"]
    OBVIOUS
  <2>1. v \in Latches
    BY <1>2 DEF Latches
  <2>2. OneOwner(P \ {a}, v, bank)
    BY <1>1, <1>2, <1>7, OwnerGoes DEF FreesDL1
  <2>. PICK n1 : n1 = [st1 EXCEPT ![c] = v]
    OBVIOUS
  <2>3. n1 \in [Chan -> Latches] /\ n1[c] = v /\ \A d \in Chan \ {c} : n1[d] = st1[d]
    BY <1>2, <2>1, StatusSet
  <2>4. /\ mPhyDL2Status' = st2 /\ mPhyDL1Status' = n1
        /\ Dispatched(c)' = D /\ Programmed(c)' = P \ {a}
    BY <1>7 DEF FreesDL1
  <2>. QED
    BY <1>2, <1>3, <2>2, <2>3, <2>4
<1>. QED
  BY <1>4, <1>5, <1>6, <1>7, Zenon DEF MovesLatches

\* Two sequences that have no entry one after the other.
LEMMA JoinedEmpty ==
  ASSUME NEW T, NEW q \in Seq(T), NEW p \in Seq(T), q \o p = <<>>
  PROVE  q = <<>> /\ p = <<>>
  OBVIOUS

\* Writes only: no read has a place.
LEMMA NoReads ==
  ASSUME NEW place, Located(place), LocalsTyped, QueuesTyped(peq), Kinds(place), WritesOnly,
         NEW c \in Chan
  PROVE  /\ \A a \in Addr : Kind(a) # "READ"
         /\ mAscq[c] = <<>> /\ peq[PendingR(c)].due = <<>> /\ manager[c].at \notin ReadPlaces
<1>1. \A a \in Addr : Kind(a) # "READ"
  BY SlotOfTyped DEF WritesOnly, Kind
<1>2. In(place, c, "ascq") = {} /\ In(place, c, "pr") = {}
  BY <1>1 DEF Kinds, KindFits, In
<1>3. Enumerates(mAscq[c], {}) /\ Enumerates(Timed(PendingR(c)), {})
  BY <1>2 DEF Located, Held, Content
<1>4. mAscq[c] = <<>> /\ Timed(PendingR(c)) = <<>>
  BY <1>3, EnumRange
<1>5. peq[PendingR(c)].due = <<>>
  <2>. PICK e, d : e = peq[PendingR(c)].run /\ d = peq[PendingR(c)].due
    OBVIOUS
  <2>1. e \in Seq(Addr) /\ d \in Seq(Addr)
    BY QueueTypes DEF QueueOf
  <2>2. e \o d = <<>>
    BY <1>4, Zenon DEF Timed
  <2>3. d = <<>>
    BY <2>1, <2>2, JoinedEmpty
  <2>. QED
    BY <2>3
<1>6. manager[c].at \notin ReadPlaces
  <2>1. SUFFICES ASSUME manager[c].at \in ReadPlaces PROVE FALSE
    OBVIOUS
  <2>2. manager[c].at \notin {"top", "long"}
    BY <2>1 DEF ReadPlaces
  <2>3. manager[c].addr \in Addr
    BY <2>2, ManagerHolds
  <2>. QED
    BY <1>1, <2>1, <2>3 DEF Kinds, ManagerFits
<1>. QED
  BY <1>1, <1>4, <1>5, <1>6

\* What short sequences hold.
LEMMA RangeChanges ==
  /\ Range(<<>>) = {} /\ \A a : Range(<<a>>) = {a}
  /\ \A T : \A q \in Seq(T) : \A a \in T : Range(Append(q, a)) = Range(q) \cup {a}
  /\ \A T : \A q \in Seq(T) : q # <<>> => Range(q) = Range(Tail(q)) \cup {Head(q)}
<1>1. Range(<<>>) = {} /\ \A a : Range(<<a>>) = {a}
  BY DEF Range
<1>2. ASSUME NEW T, NEW q \in Seq(T), NEW a \in T
      PROVE  Range(Append(q, a)) = Range(q) \cup {a}
  <2>. PICK p : p = Append(q, a)
    OBVIOUS
  <2>1. /\ DOMAIN p = 1 .. Len(q) + 1 /\ DOMAIN q = 1 .. Len(q) /\ Len(q) \in Nat
        /\ p[Len(q) + 1] = a /\ \A i \in 1 .. Len(q) : p[i] = q[i]
    OBVIOUS
  <2>2. DOMAIN p = DOMAIN q \cup {Len(q) + 1}
    BY <2>1
  <2>. QED
    BY <2>1, <2>2 DEF Range
<1>3. ASSUME NEW T, NEW q \in Seq(T), q # <<>>
      PROVE  Range(q) = Range(Tail(q)) \cup {Head(q)}
  <2>. DEFINE p == Tail(q)
  <2>1. /\ p \in Seq(T) /\ Len(p) = Len(q) - 1 /\ Len(q) \in Nat \ {0}
        /\ \A i \in 1 .. Len(p) : p[i] = q[i + 1]
        /\ DOMAIN p = 1 .. Len(p) /\ DOMAIN q = 1 .. Len(q)
    BY <1>3
  <2>7. Head(q) = q[1]
    BY <1>3
  <2>. HIDE DEF p
  <2>2. \A i \in 1 .. Len(q) : i = 1 \/ (i - 1 \in 1 .. Len(p) /\ q[i] = p[i - 1])
    <3>1. ASSUME NEW i \in 1 .. Len(q), i # 1 PROVE i - 1 \in 1 .. Len(p) /\ q[i] = p[i - 1]
      <4>1. i - 1 \in 1 .. Len(p) /\ (i - 1) + 1 = i
        BY <2>1, <3>1
      <4>. QED
        BY <2>1, <4>1
    <3>. QED
      BY <3>1
  <2>3. \A i \in 1 .. Len(p) : i + 1 \in 1 .. Len(q)
    BY <2>1
  <2>4. Range(q) \subseteq Range(p) \cup {q[1]}
    BY <2>1, <2>2 DEF Range
  <2>5. Range(p) \cup {q[1]} \subseteq Range(q)
    <3>1. q[1] \in Range(q)
      BY <2>1 DEF Range
    <3>2. ASSUME NEW x \in Range(p) PROVE x \in Range(q)
      <4>1. PICK i \in 1 .. Len(p) : x = p[i]
        BY <2>1, <3>2 DEF Range
      <4>2. i + 1 \in DOMAIN q /\ x = q[i + 1]
        BY <2>1, <2>3, <4>1
      <4>. QED
        BY <4>2 DEF Range
    <3>. QED
      BY <3>1, <3>2
  <2>6. Range(q) = Range(p) \cup {q[1]}
    BY <2>4, <2>5
  <2>. QED
    BY <2>6, <2>7, Zenon DEF p
<1>. QED
  BY <1>1, <1>2, <1>3

\* The dispatcher.
LEMMA DispatcherLatches ==
  ASSUME NEW place, NEW r, NEW m, DimmInv(place, r, m), WritesOnly, LatchTyped,
         NEW c \in Chan, cmdDispatcherProcess(c)
  PROVE  MovesLatches(c)
<1>0. /\ LocalsTyped /\ TableTyped /\ Located(place) /\ Lists(place, r, m) /\ Kinds(place)
      /\ QueuesTyped(peq)
  BY DEF DimmInv, Typed, Wakes
<1>1. /\ \A a \in Addr : Kind(a) # "READ"
  BY <1>0, NoReads
<1>2. UNCHANGED <<manager, peq>>
  BY DEF cmdDispatcherProcess, DispatcherPolls, DispatcherSkips, DispatcherWaits, DispatcherUnlinks,
         DispatchShortQueue, DispatchLongQueue
<1>3. Programmed(c)' = Programmed(c) /\ Content(c, "mgr")' = Content(c, "mgr")
  BY <1>2, TimedSame DEF Programmed, Content
<1>4. CASE /\ DispatcherPolls(c) \/ DispatcherSkips(c) \/ DispatcherWaits(c)
  <2>1. UNCHANGED <<mAlcq, statusVars>> /\ dispatch[c].at # "push"
    BY <1>4 DEF DispatcherPolls, DispatcherSkips, DispatcherWaits
  <2>2. dispatch'[c].at # "push"
    <3>1. CASE DispatcherPolls(c)
      BY <1>0, <3>1 DEF DispatcherPolls, LocalsTyped
    <3>2. CASE DispatcherSkips(c) \/ DispatcherWaits(c)
      <4>. PICK n : n = NextBank(dispatch[c].bank)
        OBVIOUS
      <4>1. dispatch' = [dispatch EXCEPT ![c] = n] /\ dispatch[c].bank \in Bank
        BY <1>0, <3>2 DEF DispatcherSkips, DispatcherWaits, LocalsTyped
      <4>2. n.at # "push"
        BY <4>1, NextBankTyped
      <4>. QED
        BY <1>0, <4>1, <4>2 DEF LocalsTyped
    <3>. QED
      BY <1>4, <3>1, <3>2
  <2>3. Dispatched(c)' = Dispatched(c)
    BY <1>3, <2>1, <2>2 DEF Dispatched, Content
  <2>. QED
    BY <1>3, <2>1, <2>3 DEF MovesLatches, LatchesStay, statusVars
<1>5. CASE DispatcherUnlinks(c)
  <2>. PICK b, a : b = dispatch[c].bank /\ a = head[c][b]
    OBVIOUS
  <2>1. /\ dispatch[c].at = "bank" /\ CanDispatch(c, b) /\ UNCHANGED mAlcq
        /\ dispatch' = [dispatch EXCEPT ![c].at = "push", ![c].addr = a]
    BY <1>5 DEF DispatcherUnlinks
  <2>2. b \in Bank /\ a # Nil
    <3>1. CanDispatch(c, b) => HasWork(c, b)
      BY Zenon DEF CanDispatch
    <3>. QED
      BY <1>0, <2>1, <3>1 DEF LocalsTyped, HasWork
  <2>3. a \in Addr /\ place[a] = "list" /\ BankOf(a) = b
    BY <1>0, <2>2, HeadIsListed
  <2>4. Kind(a) = "WRITE" /\ Kind(a) # "READ"
    BY <1>0, <1>1, <2>3 DEF Kinds, KindFits
  <2>5. mPhyDL2Status[c][b] = "FREE"
    BY <2>1, <2>4 DEF CanDispatch
  <2>6. UNCHANGED mPhyDL1Status /\ mPhyDL2Status' = [mPhyDL2Status EXCEPT ![c][b] = "BUSY"]
    BY <1>5, <2>4 DEF DispatcherUnlinks
  <2>7. Content(c, "disp") = <<>> /\ Content(c, "disp")' = <<a>>
    BY <1>0, <2>1 DEF Content, LocalsTyped
  <2>8. Dispatched(c)' = Dispatched(c) \cup {a}
    <3>1. Range(Content(c, "disp")) = {} /\ Range(Content(c, "disp"))' = {a}
      BY <2>7, RangeChanges
    <3>. QED
      BY <1>3, <2>1, <3>1 DEF Dispatched
  <2>9. BankAt[a] = b
    BY <2>3 DEF BankAt
  <2>10. TakesDL2(c, a)
    BY <1>3, <2>5, <2>6, <2>8, <2>9 DEF TakesDL2
  <2>. QED
    BY <2>3, <2>10 DEF MovesLatches
<1>6. CASE DispatchShortQueue(c) \/ DispatchLongQueue(c)
  <2>. PICK a, q : a = dispatch[c].addr /\ q = mAlcq[c]
    OBVIOUS
  <2>1. dispatch[c].at = "push" /\ UNCHANGED statusVars
    BY <1>6 DEF DispatchShortQueue, DispatchLongQueue
  <2>2. a \in Addr
    <3>1. Enumerates(<<a>>, In(place, c, "disp"))
      BY <1>0, <2>1 DEF Located, Held, Content
    <3>2. In(place, c, "disp") = {a}
      BY <3>1, EnumOne
    <3>. QED
      BY <3>2 DEF In
  <2>3. DispatchLongQueue(c)
    BY <1>1, <1>6, <2>2 DEF DispatchShortQueue
  <2>4. Dispatched(c)' = Dispatched(c)
    <3>1. CASE UNCHANGED <<mAlcq, dispatch>>
      BY <1>3, <3>1 DEF Dispatched, Content
    <3>2. CASE /\ mAlcq' = [mAlcq EXCEPT ![c] = Append(@, a)]
               /\ dispatch' = [dispatch EXCEPT ![c] = NextBank(dispatch[c].bank)]
      <4>. PICK n : n = NextBank(dispatch[c].bank)
        OBVIOUS
      <4>1. n.at # "push"
        BY <1>0, NextBankTyped DEF LocalsTyped
      <4>2. dispatch'[c] = n /\ mAlcq'[c] = Append(q, a) /\ q \in Seq(Addr)
        BY <1>0, <3>2 DEF LocalsTyped
      <4>3. Content(c, "disp") = <<a>> /\ Content(c, "disp")' = <<>>
        BY <2>1, <4>1, <4>2 DEF Content
      <4>4. /\ Range(Content(c, "disp")) = {a} /\ Range(Content(c, "disp"))' = {}
            /\ Range(mAlcq[c])' = Range(q) \cup {a}
        BY <2>2, <4>2, <4>3, RangeChanges
      <4>. QED
        BY <1>3, <4>4 DEF Dispatched
    <3>. QED
      BY <2>3, <3>1, <3>2 DEF DispatchLongQueue
  <2>. QED
    BY <1>3, <2>1, <2>4 DEF MovesLatches, LatchesStay, statusVars
<1>. QED
  BY <1>4, <1>5, <1>6 DEF cmdDispatcherProcess

\* What the places of channel c hold, as sets.
LEMMA PlacesHold ==
  ASSUME NEW place, Located(place), NEW c \in Chan
  PROVE  /\ Range(Content(c, "disp")) = In(place, c, "disp")
         /\ Range(Content(c, "mgr")) = In(place, c, "mgr")
         /\ Range(mAlcq[c]) = In(place, c, "alcq")
         /\ Programmed(c) = In(place, c, "pw")
<1>1. \A p \in Held : Range(Content(c, p)) = In(place, c, p)
  BY EnumRange DEF Located
<1>. QED
  BY <1>1 DEF Held, Content, Programmed

\* A queue that is another one than those of the steps.
LEMMA PostElsewhere ==
  ASSUME QueuesTyped(peq), NEW c \in Chan, NEW q, q # PendingW(c), NEW x, peq' = Post(peq, q, x)
  PROVE  peq'[PendingW(c)] = peq[PendingW(c)]
<1>1. PendingW(c) \in DOMAIN peq
  BY Names DEF QueuesTyped
<1>. QED
  BY <1>1 DEF Post

\* The channel manager.
LEMMA ManagerLatches ==
  ASSUME NEW place, NEW r, NEW m, DimmInv(place, r, m), WritesOnly, LatchTyped,
         NEW c \in Chan, chanManagerProcess(c)
  PROVE  MovesLatches(c)
<1>0. /\ LocalsTyped /\ TableTyped /\ Located(place) /\ Kinds(place) /\ QueuesTyped(peq) /\ Wakes
  BY DEF DimmInv, Typed, Wakes
<1>1. /\ mAscq[c] = <<>> /\ manager[c].at \notin ReadPlaces
  BY <1>0, NoReads
<1>2. ~ManagerTakesShort(c) /\ ~ProcessShortQueueCmd(c) /\ ~ProcessReadData(c)
  <2>1. ~ManagerTakesShort(c)
    BY <1>1, Zenon DEF ManagerTakesShort
  <2>2. ~ProcessShortQueueCmd(c) /\ ~ProcessReadData(c)
    BY <1>1, Zenon DEF ProcessShortQueueCmd, ProcessReadData, ReadPlaces
  <2>. QED
    BY <2>1, <2>2
<1>3. CASE ManagerTakesLong(c)
  <2>. PICK a, q, at : /\ a = Head(mAlcq[c]) /\ q = mAlcq[c]
                       /\ at = IF Kind(a) = "WRITE" THEN "ONFI_WRITE_COMMAND"
                               ELSE "ONFI_BANK_SELECT_COMMAND"
    OBVIOUS
  <2>1. /\ UNCHANGED <<dispatch, statusVars, peq>>
        /\ manager[c].at \in {"top", "long"} /\ q # <<>>
        /\ mAlcq' = [mAlcq EXCEPT ![c] = Tail(q)]
        /\ manager' = [manager EXCEPT ![c] = [at |-> at, addr |-> a]]
    BY <1>3 DEF ManagerTakesLong, PicksLong, Issue
  <2>2. mAlcq'[c] = Tail(q) /\ manager'[c] = [at |-> at, addr |-> a] /\ q \in Seq(Addr)
    BY <1>0, <2>1 DEF LocalsTyped
  <2>3. Content(c, "mgr") = <<>> /\ Content(c, "mgr")' = <<a>>
    BY <2>1, <2>2 DEF Content
  <2>4. /\ Range(Content(c, "mgr")) = {} /\ Range(Content(c, "mgr"))' = {a}
        /\ Range(q) = Range(Tail(q)) \cup {a}
    BY <2>1, <2>2, <2>3, RangeChanges
  <2>5. Range(mAlcq[c])' = Range(Tail(q)) /\ Content(c, "disp")' = Content(c, "disp")
    BY <2>1, <2>2 DEF Content
  <2>6. Dispatched(c)' = Dispatched(c)
    <3>. PICK R : R = Range(Tail(q))
      OBVIOUS
    <3>. QED
      BY <2>4, <2>5 DEF Dispatched
  <2>7. Programmed(c)' = Programmed(c)
    BY <2>1, TimedSame DEF Programmed
  <2>. QED
    BY <2>1, <2>6, <2>7 DEF MovesLatches, LatchesStay, statusVars
<1>4. CASE ManagerWaits(c) \/ WriteWaitsForDL1(c)
  <2>1. UNCHANGED <<dispatch, mAlcq, statusVars, peq>>
    BY <1>4 DEF ManagerWaits, WriteWaitsForDL1, controllerVars
  <2>2. Content(c, "mgr")' = Content(c, "mgr")
    <3>1. CASE WriteWaitsForDL1(c)
      BY <3>1 DEF WriteWaitsForDL1, Content, controllerVars
    <3>2. CASE ManagerWaits(c) /\ manager' = [manager EXCEPT ![c].at = "long"]
      BY <1>0, <3>2 DEF ManagerWaits, PicksLong, LocalsTyped, Content
    <3>3. CASE ManagerWaits(c) /\ manager' = [manager EXCEPT ![c] = [at |-> "top", addr |-> Nil]]
      BY <1>0, <3>3 DEF ManagerWaits, PicksLong, LocalsTyped, Content
    <3>. QED
      BY <1>4, <3>1, <3>2, <3>3 DEF ManagerWaits, BackToTop
  <2>3. Dispatched(c)' = Dispatched(c)
    BY <2>1, <2>2 DEF Dispatched, Content
  <2>4. Programmed(c)' = Programmed(c)
    BY <2>1, TimedSame DEF Programmed
  <2>. QED
    BY <2>1, <2>3, <2>4 DEF MovesLatches, LatchesStay, statusVars
<1>5. CASE RRAMInterfaceMethod(c)
  <2>. PICK q : q = QueueOfCode(manager[c].at, c)
    OBVIOUS
  <2>1. /\ UNCHANGED <<dispatch, mAlcq, statusVars>> /\ manager[c].at \in Codes
    BY <1>5 DEF RRAMInterfaceMethod
  <2>2. PICK x : peq' = Post(peq, q, x)
    BY <1>5 DEF RRAMInterfaceMethod, nb_transport_fw
  <2>3. q # PendingW(c)
    BY <2>1 DEF Codes, QueueOfCode, PendingW
  <2>4. Programmed(c)' = Programmed(c)
    BY <1>0, <2>2, <2>3, PostElsewhere, TimedSame DEF Programmed
  <2>. PICK at : at = IF manager[c].at = "ONFI_READ_COMMAND" THEN "readSent"
                      ELSE IF manager[c].at = "ONFI_WRITE_COMMAND" THEN "writeSent" ELSE "selectSent"
    OBVIOUS
  <2>5. manager' = [manager EXCEPT ![c].at = at] /\ at \notin {"top", "long"}
    <3>1. CASE manager[c].at = "ONFI_READ_COMMAND"
      BY <1>5, <3>1 DEF RRAMInterfaceMethod
    <3>2. CASE manager[c].at = "ONFI_WRITE_COMMAND"
      BY <1>5, <3>2 DEF RRAMInterfaceMethod
    <3>3. CASE manager[c].at = "ONFI_BANK_SELECT_COMMAND"
      BY <1>5, <3>3 DEF RRAMInterfaceMethod
    <3>. QED
      BY <2>1, <3>1, <3>2, <3>3 DEF Codes
  <2>6. manager'[c].at = at /\ manager'[c].addr = manager[c].addr
    BY <1>0, <2>5 DEF LocalsTyped
  <2>7. Content(c, "mgr")' = Content(c, "mgr")
    BY <2>1, <2>5, <2>6 DEF Content, Codes
  <2>8. Dispatched(c)' = Dispatched(c)
    BY <2>1, <2>7 DEF Dispatched, Content
  <2>. QED
    BY <2>1, <2>4, <2>8 DEF MovesLatches, LatchesStay, statusVars
<1>6. CASE ProcessWriteCmd(c)
  <2>. PICK a, q, b : a = manager[c].addr /\ q = PendingW(c) /\ b = BankOf(a)
    OBVIOUS
  <2>1. /\ UNCHANGED <<dispatch, mAscq, mAlcq, mAvailableCredit>>
        /\ manager[c].at = "writeSent" /\ BackToTop(c) /\ peq' = Post(peq, q, a)
    BY <1>6 DEF ProcessWriteCmd
  <2>9. mPhyDL1Status[c][b] = "FREE"
    BY <1>6, Zenon DEF ProcessWriteCmd
  <2>10. mPhyDL2Status' = [mPhyDL2Status EXCEPT ![c][b] = "FREE"]
    BY <1>6, Zenon DEF ProcessWriteCmd
  <2>11. mPhyDL1Status' = [mPhyDL1Status EXCEPT ![c][b] = "BUSY"]
    BY <1>6, Zenon DEF ProcessWriteCmd
  <2>2. In(place, c, "mgr") = {a} /\ a \in Addr /\ place[a] = "mgr"
    BY <1>0, <2>1, ManagerHolds
  <2>3. Content(c, "mgr")' = <<>> /\ Content(c, "disp")' = Content(c, "disp")
    BY <1>0, <2>1, ManagerReturns
  <2>4. a \notin In(place, c, "disp") \cup In(place, c, "alcq") \cup In(place, c, "pw")
    BY <2>2 DEF In
  <2>5. a \in Dispatched(c) /\ Dispatched(c)' = Dispatched(c) \ {a}
    <3>1. Range(Content(c, "mgr"))' = {}
      BY <2>3, RangeChanges
    <3>2. /\ Dispatched(c) = In(place, c, "disp") \cup {a} \cup In(place, c, "alcq")
          /\ Range(Content(c, "disp"))' = In(place, c, "disp")
          /\ Range(mAlcq[c])' = In(place, c, "alcq")
      BY <1>0, <2>1, <2>2, <2>3, PlacesHold DEF Dispatched
    <3>3. Dispatched(c)' = In(place, c, "disp") \cup In(place, c, "alcq")
      BY <3>1, <3>2 DEF Dispatched
    <3>. QED
      BY <2>4, <3>2, <3>3
  <2>6. Programmed(c)' = Programmed(c) \cup {a}
    <3>1. Enumerates(All(peq[q]), In(place, c, "pw"))
      BY <1>0 DEF Located, Held, Content, Timed, All
    <3>2. Posted(peq'[q], peq[q], a) /\ peq[q] \in QueueOf(Addr)
      <4>1. q \in Peqs /\ Fits(q, a)
        BY <2>2, Names, FitsWhere
      <4>2. peq[q] \in QueueOf(Addr)
        BY <1>0, QueueTypes
      <4>. QED
        BY <1>0, <2>1, <4>1, <4>2, PostTyped
    <3>3. Enumerates(All(peq'[q]), In(place, c, "pw") \cup {a})
      BY <2>2, <2>4, <3>1, <3>2, AllPosted DEF OneMore
    <3>4. Programmed(c) = In(place, c, "pw") /\ Programmed(c)' = In(place, c, "pw") \cup {a}
      BY <3>1, <3>3, EnumRange DEF Programmed, Timed, All
    <3>. QED
      BY <3>4
  <2>7. BankAt[a] = b
    BY <2>2 DEF BankAt
  <2>8. HandsOn(c, a)
    BY <2>5, <2>6, <2>7, <2>9, <2>10, <2>11, Zenon DEF HandsOn
  <2>. QED
    BY <2>2, <2>8 DEF MovesLatches
<1>. QED
  BY <1>2, <1>3, <1>4, <1>5, <1>6, Zenon DEF chanManagerProcess

\* The program time is over: DL1 is free.
LEMMA ProgramEndsLatch ==
  ASSUME NEW place, NEW r, NEW m, DimmInv(place, r, m), NEW c \in Chan, pendingWriteCmdProcess(c)
  PROVE  MovesLatches(c)
<1>0. Wakes /\ Located(place) /\ QueuesTyped(peq)
  BY DEF DimmInv, Typed, Wakes
<1>. PICK p, a, b : p = PendingW(c) /\ a = Head(peq[p].due) /\ b = BankOf(a)
  OBVIOUS
<1>1. UNCHANGED <<dispatch, mAlcq, manager, mPhyDL2Status>>
  BY DEF pendingWriteCmdProcess
<1>2. Turn(p) /\ peq' = Take(peq, p)
  BY DEF pendingWriteCmdProcess
<1>3. mPhyDL1Status' = [mPhyDL1Status EXCEPT ![c][b] = "FREE"]
  BY Zenon DEF pendingWriteCmdProcess
<1>4. p \in TimedProcs /\ p \in Peqs /\ peq[p] \in QueueOf(Addr)
  BY <1>0, Names, QueueTypes
<1>5. peq[p].due # <<>>
  BY <1>0, <1>2, <1>4, TurnHasDue
<1>6. Taken(peq'[p], peq[p])
  BY <1>0, <1>2, <1>4, <1>5, TakeTyped
<1>7. OneLess(All(peq'[p]), All(peq[p]), a)
  BY <1>4, <1>6, AllTaken
<1>8. Enumerates(All(peq[p]), In(place, c, "pw"))
  BY <1>0 DEF Located, Held, Content, Timed, All
<1>9. a \in In(place, c, "pw") /\ Enumerates(All(peq'[p]), In(place, c, "pw") \ {a})
  BY <1>7, <1>8 DEF OneLess
<1>10. Programmed(c) = In(place, c, "pw") /\ Programmed(c)' = In(place, c, "pw") \ {a}
  BY <1>8, <1>9, EnumRange DEF Programmed, Timed, All
<1>11. Dispatched(c)' = Dispatched(c)
  BY <1>1 DEF Dispatched, Content
<1>12. a \in Addr /\ BankAt[a] = b
  BY <1>9 DEF In, BankAt
<1>13. FreesDL1(c, a)
  BY <1>1, <1>3, <1>9, <1>10, <1>11, <1>12, Zenon DEF FreesDL1
<1>. QED
  BY <1>12, <1>13 DEF MovesLatches

\* An expired entry of another queue is taken.
LEMMA TakeElsewhere ==
  ASSUME QueuesTyped(peq), NEW c \in Chan, NEW q, q # PendingW(c), peq' = Take(peq, q)
  PROVE  peq'[PendingW(c)] = peq[PendingW(c)]
<1>1. PendingW(c) \in DOMAIN peq
  BY Names DEF QueuesTyped
<1>. QED
  BY <1>1 DEF Take

\* Nothing of channel c moves that concerns its latches.
LEMMA LatchesRest ==
  ASSUME NEW c, UNCHANGED <<dispatch, mAlcq, manager, statusVars>>,
         peq'[PendingW(c)] = peq[PendingW(c)]
  PROVE  MovesLatches(c)
<1>1. Dispatched(c)' = Dispatched(c) /\ Programmed(c)' = Programmed(c)
  BY TimedSame DEF Dispatched, Content, Programmed
<1>. QED
  BY <1>1 DEF MovesLatches, LatchesStay, statusVars

\* The steps of channel c.
LEMMA ChannelLatches ==
  ASSUME NEW place, NEW r, NEW m, DimmInv(place, r, m), WritesOnly, LatchTyped,
         NEW c \in Chan, ChannelStep(c)
  PROVE  MovesLatches(c)
<1>0. /\ LocalsTyped /\ Located(place) /\ Kinds(place) /\ QueuesTyped(peq) /\ Wakes
  BY DEF DimmInv, Typed, Wakes
<1>1. ~pendingReadCmdProcess(c)
  <2>1. peq[PendingR(c)].due = <<>> /\ PendingR(c) \in TimedProcs
    BY <1>0, NoReads, Names
  <2>2. ~Turn(PendingR(c))
    BY <1>0, <2>1, TurnHasDue
  <2>. QED
    BY <2>2, Zenon DEF pendingReadCmdProcess
<1>2. CASE checkRespProcess(c)
  <2>. PICK q : q = <<"checkResp", c>>
    OBVIOUS
  <2>1. UNCHANGED <<dispatch, mAlcq, manager, statusVars>>
    BY <1>2 DEF checkRespProcess
  <2>2. UNCHANGED peq \/ peq' = Take(peq, q)
    BY <1>2 DEF checkRespProcess
  <2>3. q # PendingW(c)
    BY DEF PendingW
  <2>. QED
    BY <1>0, <2>1, <2>2, <2>3, TakeElsewhere, LatchesRest
<1>. QED
  BY <1>1, <1>2, DispatcherLatches, ManagerLatches, ProgramEndsLatch, Zenon DEF ChannelStep

\* The device does not use the controller's queue of writes.
LEMMA DeviceRests ==
  ASSUME QueuesTyped(peq), NEW c \in Chan, NEW d \in Chan, DeviceStep(c)
  PROVE  peq'[PendingW(d)] = peq[PendingW(d)]
<1>. DEFINE Names6 == {"ackWrite", "ackRead", "memRead", "accRead", "accWrite", "checkResp"}
<1>1. PendingW(d) \in DOMAIN peq
  BY Names DEF QueuesTyped
<1>2. \A n \in Names6 : <<n, c>> # PendingW(d)
  BY DEF PendingW
<1>3. ASSUME NEW n \in Names6, NEW k \in Names6, NEW x
      PROVE  /\ Take(peq, <<n, c>>)[PendingW(d)] = peq[PendingW(d)]
             /\ Post(Take(peq, <<n, c>>), <<k, c>>, x)[PendingW(d)] = peq[PendingW(d)]
             /\ PostNow(Take(peq, <<n, c>>), <<k, c>>, x)[PendingW(d)] = peq[PendingW(d)]
  <2>. PICK pq : pq = Take(peq, <<n, c>>)
    OBVIOUS
  <2>1. pq[PendingW(d)] = peq[PendingW(d)] /\ PendingW(d) \in DOMAIN pq
    BY <1>1, <1>2 DEF Take
  <2>2. <<k, c>> # PendingW(d)
    BY <1>2
  <2>3. /\ Post(pq, <<k, c>>, x)[PendingW(d)] = pq[PendingW(d)]
        /\ PostNow(pq, <<k, c>>, x)[PendingW(d)] = pq[PendingW(d)]
    BY <2>1, <2>2 DEF Post, PostNow
  <2>. QED
    BY <2>1, <2>3
<1>4. CASE PhyDl2Takes(c) \/ PhyDl2Moves(c) \/ PhyDl2Sleeps(c)
  BY <1>4 DEF PhyDl2Takes, PhyDl2Moves, PhyDl2Sleeps
<1>5. CASE memAccessReadMethod(c)
  <2>1. peq' = Take(peq, <<"accRead", c>>)
    BY <1>5 DEF memAccessReadMethod
  <2>. QED
    BY <1>3, <2>1
<1>6. CASE sendBackWriteACKMethod(c) \/ sendBackReadACKMethod(c) \/ memReadMethod(c)
  <2>1. PICK x : \/ peq' = Post(Take(peq, <<"ackWrite", c>>), <<"accWrite", c>>, x)
                 \/ peq' = Post(Take(peq, <<"ackRead", c>>), <<"accRead", c>>, x)
                 \/ peq' = Post(Take(peq, <<"memRead", c>>), <<"checkResp", c>>, x)
    BY <1>6, Zenon DEF sendBackWriteACKMethod, sendBackReadACKMethod, memReadMethod
  <2>2. /\ Post(Take(peq, <<"ackWrite", c>>), <<"accWrite", c>>, x)[PendingW(d)] = peq[PendingW(d)]
        /\ Post(Take(peq, <<"ackRead", c>>), <<"accRead", c>>, x)[PendingW(d)] = peq[PendingW(d)]
        /\ Post(Take(peq, <<"memRead", c>>), <<"checkResp", c>>, x)[PendingW(d)] = peq[PendingW(d)]
    BY <1>3
  <2>3. CASE peq' = Post(Take(peq, <<"ackWrite", c>>), <<"accWrite", c>>, x)
    BY <2>2, <2>3, Zenon
  <2>4. CASE peq' = Post(Take(peq, <<"ackRead", c>>), <<"accRead", c>>, x)
    BY <2>2, <2>4, Zenon
  <2>5. CASE peq' = Post(Take(peq, <<"memRead", c>>), <<"checkResp", c>>, x)
    BY <2>2, <2>5, Zenon
  <2>. QED
    BY <2>1, <2>3, <2>4, <2>5, Zenon
<1>7. CASE memAccessWriteMethod(c)
  <2>1. peq' = PostNow(Take(peq, <<"accWrite", c>>), <<"checkResp", c>>, "WRITE")
    BY <1>7 DEF memAccessWriteMethod
  <2>. QED
    BY <1>3, <2>1
<1>. QED
  BY <1>4, <1>5, <1>6, <1>7 DEF DeviceStep

\* The steps of the controller leave the entries of the command queue and the
\* slots' commands alone, but for the links of the lists.
LEMMA TablesRest ==
  ASSUME ControllerStep
  PROVE  UNCHANGED <<mCmdQueue, mSlotTable>>
<1>1. completionMethod => UNCHANGED <<mCmdQueue, mSlotTable>>
  BY DEF completionMethod, bankVars
<1>2. ASSUME NEW c \in Chan, cmdDispatcherProcess(c)
      PROVE  UNCHANGED <<mCmdQueue, mSlotTable>>
  BY <1>2 DEF cmdDispatcherProcess, DispatcherPolls, DispatcherSkips, DispatcherWaits,
              DispatcherUnlinks, DispatchShortQueue, DispatchLongQueue, bankVars
<1>3. ASSUME NEW c \in Chan, chanManagerProcess(c)
      PROVE  UNCHANGED <<mCmdQueue, mSlotTable>>
  <2>1. UNCHANGED bankVars
    BY <1>3, Zenon DEF chanManagerProcess, ManagerTakesShort, ManagerTakesLong, ManagerWaits,
         RRAMInterfaceMethod, ProcessShortQueueCmd, WriteWaitsForDL1, ProcessWriteCmd,
         ProcessReadData, controllerVars
  <2>. QED
    BY <2>1 DEF bankVars
<1>4. ASSUME NEW c \in Chan,
             pendingWriteCmdProcess(c) \/ pendingReadCmdProcess(c) \/ checkRespProcess(c)
      PROVE  UNCHANGED <<mCmdQueue, mSlotTable>>
  BY <1>4 DEF pendingWriteCmdProcess, pendingReadCmdProcess, checkRespProcess, bankVars
<1>5. UNCHANGED controllerVars => UNCHANGED <<mCmdQueue, mSlotTable>>
  BY DEF controllerVars, bankVars
<1>. QED
  BY <1>1, <1>2, <1>3, <1>4, <1>5, Zenon DEF ControllerStep, ChannelStep

\* With writes only, the controller and the device keep a latch busy for one word.
LEMMA ControllerKeepsLatches ==
  ASSUME NEW place, NEW r, NEW m, DimmInv(place, r, m), WritesOnly, LatchInv, ControllerStep
  PROVE  WritesOnly' /\ LatchInv'
<1>0. /\ LocalsTyped /\ TableTyped /\ QueuesTyped(peq) /\ Wakes
  BY DEF DimmInv, Typed, Wakes
<1>1. UNCHANGED <<mCmdQueue, mSlotTable>> /\ LatchTyped
  BY TablesRest DEF LatchInv
<1>2. WritesOnly'
  BY <1>1 DEF WritesOnly
<1>3. PICK c \in Chan : 0 = 0
  BY DeviceAssumption DEF Chan
<1>4. ASSUME NEW d \in Chan, \A x \in Chan \ {d} : ChannelSame(x), MovesLatches(d)
      PROVE  LatchInv'
  BY <1>0, <1>1, <1>4, LatchesKept
<1>5. CASE completionMethod
  <2>1. UNCHANGED <<dispatch, mAscq, mAlcq, manager, mAvailableCredit, statusVars>>
        /\ peq' = Take(peq, Completion)
    BY <1>5 DEF completionMethod
  <2>2. \A d \in Chan : ChannelSame(d)
    <3>1. ASSUME NEW d \in Chan PROVE ChannelSame(d)
      <4>1. OwnQueues(d) \subseteq DOMAIN peq /\ Completion \notin OwnQueues(d)
        BY <1>0, Names, QueuesDiffer DEF OwnQueues, QueuesTyped
      <4>2. \A k \in OwnQueues(d) : peq'[k] = peq[k]
        BY <2>1, <4>1 DEF Take
      <4>. QED
        BY <2>1, <4>2 DEF ChannelSame, OwnQueues
    <3>. QED
      BY <3>1
  <2>3. MovesLatches(c)
    BY <2>1, <2>2, LatchesRest DEF ChannelSame
  <2>4. \A d \in Chan \ {c} : ChannelSame(d)
    BY <2>2
  <2>. QED
    BY <1>0, <1>1, <1>2, <1>3, <2>3, <2>4, LatchesKept
<1>6. ASSUME NEW d \in Chan, ChannelStep(d) PROVE LatchInv'
  BY <1>0, <1>1, <1>4, <1>6, ChannelLatches, OthersSame
<1>7. ASSUME NEW d \in Chan, DeviceStep(d), UNCHANGED controllerVars PROVE LatchInv'
  <2>1. MovesLatches(d)
    BY <1>0, <1>7, DeviceRests, LatchesRest DEF controllerVars
  <2>. QED
    BY <1>0, <1>4, <1>7, <2>1, OthersSameInDevice
<1>. QED
  BY <1>2, <1>5, <1>6, <1>7, Zenon DEF ControllerStep

\* The controller's part of the latches does not change.
LEMMA LatchesSame ==
  ASSUME LatchInv, UNCHANGED <<mCmdQueue, mSlotTable, dispatch, mAlcq, manager, statusVars>>,
         \A c \in Chan : Programmed(c)' = Programmed(c)
  PROVE  LatchInv' /\ (WritesOnly => WritesOnly')
<1>1. BankAt' = BankAt /\ UNCHANGED <<mPhyDL1Status, mPhyDL2Status>>
  BY DEF BankAt, BankOf, statusVars
<1>2. \A c \in Chan : Dispatched(c)' = Dispatched(c)
  BY DEF Dispatched, Content
<1>3. LatchTyped'
  BY <1>1 DEF LatchInv, LatchTyped
<1>4. ASSUME NEW c \in Chan
      PROVE  /\ OneOwner(Dispatched(c)', mPhyDL2Status'[c], BankAt')
             /\ OneOwner(Programmed(c)', mPhyDL1Status'[c], BankAt')
  BY <1>1, <1>2 DEF LatchInv
<1>5. WritesOnly => WritesOnly'
  BY DEF WritesOnly
<1>. QED
  BY <1>3, <1>4, <1>5 DEF LatchInv

\* The kernel delivers notifications and lets time pass.
LEMMA KernelKeepsLatches ==
  ASSUME NEW place, NEW r, NEW m, DimmInv(place, r, m), LatchInv, UNCHANGED controllerVars,
         Delta \/ \E S \in SUBSET Timers : Expire(S)
  PROVE  LatchInv' /\ (WritesOnly => WritesOnly')
<1>0. Wakes /\ Located(place)
  BY DEF DimmInv, Typed
<1>1. \A c \in Chan : SameEntries(Timed(PendingW(c))', Timed(PendingW(c)))
  <2>1. CASE Delta
    <3>1. UNCHANGED peq
      BY <2>1 DEF Delta
    <3>. QED
      BY <3>1, SameIsSame, Names
  <2>2. CASE \E S \in SUBSET Timers : Expire(S)
    BY <1>0, <2>2, ExpireKeeps, Names
  <2>. QED
    BY <2>1, <2>2
<1>2. ASSUME NEW c \in Chan PROVE Programmed(c)' = Programmed(c)
  <2>1. Enumerates(Timed(PendingW(c)), In(place, c, "pw"))
    BY <1>0 DEF Located, Held, Content
  <2>2. Enumerates(Timed(PendingW(c))', In(place, c, "pw"))
    BY <1>1, <2>1 DEF SameEntries
  <2>. QED
    BY <2>1, <2>2, EnumRange DEF Programmed
<1>. QED
  BY <1>2, LatchesSame DEF controllerVars, bankVars

\* A new write does not concern the words of the controller.
LEMMA CommandKeepsLatches ==
  ASSUME NEW place, NEW r, NEW m, DimmInv(place, r, m), WritesOnly, LatchInv,
         NEW s \in Slot, Idle(place, s),
         NEW id, NEW cnt \in 1 .. SlotCws, NEW lba \in Nat,
         processPCMDQueue(s, id, "WRITE", lba, cnt),
         UNCHANGED <<dispatch, mAscq, mAlcq, mAvailableCredit, manager, doneVars, statusVars>>,
         \A q \in Peqs : peq'[q] = peq[q]
  PROVE  WritesOnly' /\ LatchInv'
<1>0. Located(place) /\ TableTyped /\ Left(place, s) = {}
  BY DEF DimmInv, Typed, Idle
<1>1. mSlotTable' = [mSlotTable EXCEPT ![s] = [cmd |-> "WRITE", cnt |-> cnt, id |-> id]]
  BY DEF processPCMDQueue
<1>2. WritesOnly'
  BY <1>0, <1>1 DEF WritesOnly, TableTyped
<1>3. ASSUME NEW a \in Addr, place[a] # "none" PROVE BankAt'[a] = BankAt[a]
  <2>1. SlotOf(a) # s
    BY <1>0, <1>3 DEF Left
  <2>2. a \notin WordsOf(s, cnt)
    BY <2>1, WordsAreInSlot
  <2>3. mCmdQueue'[a].lba = mCmdQueue[a].lba
    BY <1>0, <2>2, EntriesLinked DEF processPCMDQueue, TableTyped
  <2>. QED
    BY <2>3 DEF BankAt, BankOf
<1>4. ASSUME NEW c \in Chan
      PROVE  /\ Dispatched(c)' = Dispatched(c) /\ Programmed(c)' = Programmed(c)
             /\ \A a \in Dispatched(c) \cup Programmed(c) : BankAt'[a] = BankAt[a]
  <2>1. Dispatched(c)' = Dispatched(c)
    BY DEF Dispatched, Content
  <2>2. peq'[PendingW(c)] = peq[PendingW(c)]
    BY Names
  <2>3. Programmed(c)' = Programmed(c)
    BY <2>2, TimedSame DEF Programmed
  <2>4. \A a \in Dispatched(c) \cup Programmed(c) : a \in Addr /\ place[a] # "none"
    BY <1>0, PlacesHold DEF Dispatched, In
  <2>. QED
    BY <1>3, <2>1, <2>3, <2>4
<1>5. LatchTyped' /\ UNCHANGED <<mPhyDL1Status, mPhyDL2Status>>
  BY DEF LatchInv, LatchTyped, statusVars
<1>6. ASSUME NEW c \in Chan
      PROVE  /\ OneOwner(Dispatched(c)', mPhyDL2Status'[c], BankAt')
             /\ OneOwner(Programmed(c)', mPhyDL1Status'[c], BankAt')
  <2>1. OneOwner(Dispatched(c), mPhyDL2Status[c], BankAt)
    BY DEF LatchInv
  <2>2. OneOwner(Programmed(c), mPhyDL1Status[c], BankAt)
    BY DEF LatchInv
  <2>3. OneOwner(Dispatched(c), mPhyDL2Status[c], BankAt')
    BY <1>4, <2>1 DEF OneOwner
  <2>4. OneOwner(Programmed(c), mPhyDL1Status[c], BankAt')
    BY <1>4, <2>2 DEF OneOwner
  <2>. QED
    BY <1>4, <1>5, <2>3, <2>4
<1>. QED
  BY <1>2, <1>5, <1>6 DEF LatchInv

\* At the start all latches are free.
LEMMA LatchesAtStart ==
  ASSUME ControllerInit, \A c \in Chan : peq[PendingW(c)] = EmptyPeq
  PROVE  WritesOnly /\ LatchInv
<1>1. WritesOnly
  BY DEF ControllerInit, WritesOnly, NoCommand
<1>2. LatchTyped
  BY DEF ControllerInit, LatchTyped, Latches, AllBanks
<1>3. ASSUME NEW c \in Chan
      PROVE  /\ Dispatched(c) = {} /\ Programmed(c) = {}
             /\ \A b \in Bank : mPhyDL1Status[c][b] # "BUSY" /\ mPhyDL2Status[c][b] # "BUSY"
  <2>1. Content(c, "disp") = <<>> /\ Content(c, "mgr") = <<>> /\ mAlcq[c] = <<>>
    BY DEF ControllerInit, Content
  <2>2. Timed(PendingW(c)) = <<>>
    BY DEF Timed, EmptyPeq
  <2>3. \A b \in Bank : mPhyDL1Status[c][b] # "BUSY" /\ mPhyDL2Status[c][b] # "BUSY"
    BY DEF ControllerInit, AllBanks
  <2>. QED
    BY <2>1, <2>2, <2>3, RangeChanges DEF Dispatched, Programmed
<1>. QED
  BY <1>1, <1>2, <1>3 DEF LatchInv, OneOwner

\* Among the entries of q at most one has bank b.
LEMMA OneIndex ==
  ASSUME NEW q, NEW S, Enumerates(q, S), S \subseteq Addr,
         NEW status \in Latches, OneOwner(S, status, BankAt), NEW b \in Bank
  PROVE  Cardinality(WordsOfBank(q, b)) = IF status[b] = "BUSY" THEN 1 ELSE 0
<1>1. Range(q) = S /\ IsInjective(q) /\ \A i \in DOMAIN q : q[i] \in S
  BY EnumRange DEF Range
<1>2. \A a \in S : BankAt[a] = BankOf(a)
  BY DEF BankAt
<1>3. CASE status[b] = "BUSY"
  <2>1. PICK a \in S : BankAt[a] = b
    BY <1>3 DEF OneOwner
  <2>2. PICK i \in DOMAIN q : q[i] = a
    BY <1>1 DEF Range
  <2>3. ASSUME NEW j \in DOMAIN q, BankOf(q[j]) = b PROVE j = i
    <3>1. q[j] = a
      BY <1>1, <1>2, <2>1, <2>3 DEF OneOwner
    <3>. QED
      BY <1>1, <2>2, <3>1 DEF IsInjective
  <2>4. WordsOfBank(q, b) = {i}
    BY <1>2, <2>1, <2>2, <2>3 DEF WordsOfBank
  <2>. QED
    BY <1>3, <2>4, FS_Singleton
<1>4. CASE status[b] # "BUSY"
  <2>1. WordsOfBank(q, b) = {}
    BY <1>1, <1>2, <1>4 DEF WordsOfBank, OneOwner
  <2>. QED
    BY <1>4, <2>1, FS_EmptySet
<1>. QED
  BY <1>3, <1>4

\* What LatchInv says of the latches.
LEMMA InvGivesLatches ==
  ASSUME NEW place, NEW r, NEW m, DimmInv(place, r, m), LatchInv
  PROVE  WriteLatches
<1>0. Located(place)
  BY DEF DimmInv
<1>. SUFFICES ASSUME NEW c \in Chan, NEW b \in Bank
              PROVE  /\ Cardinality(WordsOfBank(InHand(c) \o mAlcq[c], b)) =
                          IF mPhyDL2Status[c][b] = "BUSY" THEN 1 ELSE 0
                     /\ Cardinality(WordsOfBank(Timed(PendingW(c)), b)) =
                          IF mPhyDL1Status[c][b] = "BUSY" THEN 1 ELSE 0
  BY DEF WriteLatches
<1>1. \A p \in Held : Enumerates(Content(c, p), In(place, c, p))
  BY <1>0 DEF Located
<1>. PICK D, M, L : /\ D = In(place, c, "disp") /\ M = In(place, c, "mgr")
                    /\ L = In(place, c, "alcq")
  OBVIOUS
<1>. PICK d, g, l : d = Content(c, "disp") /\ g = Content(c, "mgr") /\ l = mAlcq[c]
  OBVIOUS
<1>2. Enumerates(d, D) /\ Enumerates(g, M) /\ Enumerates(l, L)
  BY <1>1 DEF Held, Content
<1>3. D \cap M = {} /\ (D \cup M) \cap L = {}
  BY DEF In
<1>4. Enumerates(d \o g, D \cup M)
  BY <1>2, <1>3, EnumJoin
<1>5. Enumerates(d \o g \o l, D \cup M \cup L)
  BY <1>2, <1>3, <1>4, EnumJoin
<1>6. InHand(c) \o mAlcq[c] = d \o g \o l
  BY Zenon DEF InHand, Content
<1>7. Dispatched(c) = D \cup M \cup L /\ Dispatched(c) \subseteq Addr
  BY <1>0, PlacesHold DEF Dispatched, In
<1>8. /\ Enumerates(Timed(PendingW(c)), Programmed(c)) /\ Programmed(c) \subseteq Addr
  <2>1. Enumerates(Content(c, "pw"), In(place, c, "pw")) /\ Content(c, "pw") = Timed(PendingW(c))
    BY <1>1, Zenon DEF Held, Content
  <2>2. Programmed(c) = In(place, c, "pw") /\ In(place, c, "pw") \subseteq Addr
    BY <1>0, PlacesHold DEF In
  <2>. QED
    BY <2>1, <2>2
<1>9. /\ OneOwner(Dispatched(c), mPhyDL2Status[c], BankAt) /\ mPhyDL2Status[c] \in Latches
      /\ OneOwner(Programmed(c), mPhyDL1Status[c], BankAt) /\ mPhyDL1Status[c] \in Latches
  BY DEF LatchInv, LatchTyped
<1>10. Cardinality(WordsOfBank(d \o g \o l, b)) = IF mPhyDL2Status[c][b] = "BUSY" THEN 1 ELSE 0
  BY <1>5, <1>7, <1>9, OneIndex
<1>11. Cardinality(WordsOfBank(Timed(PendingW(c)), b)) = IF mPhyDL1Status[c][b] = "BUSY" THEN 1 ELSE 0
  BY <1>8, <1>9, OneIndex
<1>. QED
  BY <1>6, <1>10, <1>11
=============================================================================
