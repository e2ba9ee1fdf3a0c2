------------------------------ MODULE TextProofs ------------------------------
(***************************************************************************)
(* Lemmas about the operators of Text, for texts over any set of           *)
(* characters: what Find returns, and what Join makes of its values.       *)
(***************************************************************************)
EXTENDS Text, WellFoundedInduction, SequenceTheorems, TLAPS

\* A set of numbers that is not empty has a least element.
LEMMA LeastNumber ==
  ASSUME NEW S \in SUBSET Nat, S # {}
  PROVE  \E n \in S : \A m \in S : n <= m
<1> DEFINE Less == {ss \in Nat \X Nat : ss[1] < ss[2]}
<1>1. IsWellFoundedOn(Less, Nat)
  BY NatLessThanWellFounded DEF OpToRel
<1>2. PICK n \in S : \A m \in S : <<m, n>> \notin Less
  <2> HIDE DEF Less
  <2> QED
    BY <1>1, WFMin
<1>3. \A m \in S : ~(m < n)
  BY <1>2
<1> QED
  BY <1>3

\* Find returns the first position at which the pattern stands.
LEMMA FindIsFirst ==
  ASSUME NEW C, NEW pattern \in Seq(C), NEW text \in Seq(C)
  PROVE  /\ Find(pattern, text) \in Nat
         /\ Find(pattern, text) # NoPosition <=> Contains(text, pattern)
         /\ Contains(text, pattern) =>
              /\ Find(pattern, text) \in 1..Len(text)
              /\ OccursAt(pattern, text, Find(pattern, text))
              /\ \A j \in Occurrences(pattern, text) : Find(pattern, text) <= j
<1> DEFINE Occ == Occurrences(pattern, text)
<1>1. Occ \in SUBSET Nat /\ \A i \in Occ : i \in 1..Len(text) /\ i # 0
  BY LenProperties DEF Occurrences
<1>2. CASE Occ = {}
  BY <1>2 DEF Contains, Find, NoPosition
<1>3. CASE Occ # {}
  <2>1. \E i \in Occ : \A j \in Occ : i <= j
    <3> HIDE DEF Occ
    <3> QED
      BY <1>1, <1>3, LeastNumber
  <2>2. /\ Find(pattern, text) \in Occ
        /\ \A j \in Occ : Find(pattern, text) <= j
    BY <1>3, <2>1 DEF Find, Contains
  <2> QED
    BY <1>1, <1>3, <2>2 DEF Contains, NoPosition, Occurrences
<1> QED
  BY <1>2, <1>3

\* What joins the first n values.
IsJoined(f, values, delimiter, N) ==
  f = [n \in 0..N |->
         IF n = 0 THEN <<>>
         ELSE IF n = 1 THEN values[1]
         ELSE f[n - 1] \o delimiter \o values[n]]

LEMMA JoinedExists ==
  ASSUME NEW values, NEW delimiter, NEW N \in Nat
  PROVE  \E f : IsJoined(f, values, delimiter, N)
<1> DEFINE Bad == {n \in Nat : ~ \E f : IsJoined(f, values, delimiter, n)}
<1>1. SUFFICES ASSUME Bad # {} PROVE FALSE
  OBVIOUS
<1>2. PICK n \in Bad : \A m \in Bad : n <= m
  <2>1. Bad \in SUBSET Nat
    OBVIOUS
  <2> HIDE DEF Bad
  <2> QED
    BY <1>1, <2>1, LeastNumber
<1>3. CASE n = 0
  <2>1. IsJoined([k \in 0..0 |-> <<>>], values, delimiter, 0)
    BY DEF IsJoined
  <2> QED
    BY <1>2, <1>3, <2>1
<1>4. CASE n # 0
  <2>1. n - 1 \in Nat /\ n - 1 \notin Bad
    BY <1>2, <1>4
  <2>2. PICK f : IsJoined(f, values, delimiter, n - 1)
    BY <2>1
  <2> DEFINE last == IF n = 1 THEN values[1] ELSE f[n - 1] \o delimiter \o values[n]
             g == [k \in 0..n |-> IF k = n THEN last ELSE f[k]]
             h == [k \in 0..n |-> IF k = 0 THEN <<>>
                                  ELSE IF k = 1 THEN values[1]
                                  ELSE g[k - 1] \o delimiter \o values[k]]
  <2>3. \A k \in 0..n : g[k] = h[k]
    <3>1. \A k \in 0..(n - 1) : f[k] = IF k = 0 THEN <<>>
                                       ELSE IF k = 1 THEN values[1]
                                       ELSE f[k - 1] \o delimiter \o values[k]
      BY <2>2 DEF IsJoined
    <3>2. \A k \in 0..(n - 1) : g[k] = f[k]
      BY <1>2
    <3>3. TAKE k \in 0..n
    <3>4. CASE k = n
      BY <1>2, <1>4, <3>2, <3>4
    <3>5. CASE k # n
      <4>1. k \in 0..(n - 1) /\ g[k] = f[k]
        BY <1>2, <3>2, <3>5
      <4>2. k # 0 => g[k - 1] = f[k - 1]
        BY <4>1, <3>2
      <4> QED
        BY <3>1, <4>1, <4>2
    <3> QED
      BY <3>4, <3>5
  <2>4. g = h
    BY <2>3
  <2>5. IsJoined(g, values, delimiter, n)
    BY <2>4 DEF IsJoined
  <2> QED
    BY <1>2, <2>5
<1> QED
  BY <1>3, <1>4

\* The recursion of Joined is well-founded.
LEMMA JoinedIs ==
  ASSUME NEW values, NEW delimiter, Len(values) \in Nat
  PROVE  \A n \in 0..Len(values) :
           Joined(values, delimiter)[n] =
             IF n = 0 THEN <<>>
             ELSE IF n = 1 THEN values[1]
             ELSE Joined(values, delimiter)[n - 1] \o delimiter \o values[n]
<1>1. PICK f : IsJoined(f, values, delimiter, Len(values))
  BY JoinedExists
<1>2. IsJoined(Joined(values, delimiter), values, delimiter, Len(values))
  BY <1>1 DEF Joined, IsJoined
<1> QED
  BY <1>2 DEF IsJoined

\* What is joined is a text.
LEMMA JoinedType ==
  ASSUME NEW C, NEW values \in Seq(Seq(C)), NEW delimiter \in Seq(C)
  PROVE  \A n \in 0..Len(values) : Joined(values, delimiter)[n] \in Seq(C)
<1> DEFINE J == Joined(values, delimiter)
           Bad == {n \in 0..Len(values) : J[n] \notin Seq(C)}
<1>1. Len(values) \in Nat /\ \A n \in 1..Len(values) : values[n] \in Seq(C)
  BY LenProperties, ElementOfSeq
<1>2. \A n \in 0..Len(values) :
        J[n] = IF n = 0 THEN <<>>
               ELSE IF n = 1 THEN values[1]
               ELSE J[n - 1] \o delimiter \o values[n]
  BY <1>1, JoinedIs
<1> HIDE DEF J
<1>3. SUFFICES ASSUME Bad # {} PROVE FALSE
  BY DEF J
<1>4. PICK n \in Bad : \A m \in Bad : n <= m
  <2>1. Bad \in SUBSET Nat
    OBVIOUS
  <2> HIDE DEF Bad
  <2> QED
    BY <1>3, <2>1, LeastNumber
<1>5. n \in 0..Len(values) /\ J[n] \notin Seq(C)
  BY <1>4
<1>6. n # 0 /\ n # 1
  <2>1. <<>> \in Seq(C)
    BY EmptySeq
  <2>2. n = 1 => values[1] \in Seq(C)
    BY <1>1, <1>5
  <2> QED
    BY <1>1, <1>2, <1>5, <2>1, <2>2
<1>7. n - 1 \in 0..Len(values) /\ n - 1 \notin Bad
  BY <1>1, <1>4, <1>5, <1>6
<1>8. J[n - 1] \in Seq(C) /\ values[n] \in Seq(C)
  BY <1>1, <1>5, <1>6, <1>7
<1>9. J[n] = J[n - 1] \o delimiter \o values[n]
  BY <1>2, <1>5, <1>6
<1>10. J[n - 1] \o delimiter \in Seq(C)
  BY <1>8, ConcatProperties
<1>11. J[n - 1] \o delimiter \o values[n] \in Seq(C)
  BY <1>8, <1>10, ConcatProperties
<1> QED
  BY <1>5, <1>9, <1>11

LEMMA JoinType ==
  ASSUME NEW C, NEW values \in Seq(Seq(C)), NEW delimiter \in Seq(C)
  PROVE  Join(values, delimiter) \in Seq(C)
<1>1. Len(values) \in 0..Len(values)
  BY LenProperties
<1> QED
  BY <1>1, JoinedType DEF Join

\* Concatenation as an operator whose definition a proof need not see.
Cat(s, t) == s \o t

LEMMA CatType ==
  ASSUME NEW C, NEW s \in Seq(C), NEW t \in Seq(C)
  PROVE  Cat(s, t) \in Seq(C) /\ Len(Cat(s, t)) = Len(s) + Len(t)
  BY ConcatProperties DEF Cat

LEMMA CatAssociative ==
  ASSUME NEW C, NEW s \in Seq(C), NEW t \in Seq(C), NEW u \in Seq(C)
  PROVE  Cat(Cat(s, t), u) = Cat(s, Cat(t, u))
  BY ConcatAssociative DEF Cat

\* One value more is written after the others and a delimiter.
LEMMA JoinAppend ==
  ASSUME NEW C, NEW values \in Seq(Seq(C)), NEW delimiter \in Seq(C), NEW v \in Seq(C)
  PROVE  Join(Append(values, v), delimiter) =
           IF values = <<>> THEN v ELSE Cat(Cat(Join(values, delimiter), delimiter), v)
<1> DEFINE more == Append(values, v)
           N == Len(values)
           J == Joined(values, delimiter)
           K == Joined(more, delimiter)
           Bad == {n \in 0..N : J[n] # K[n]}
<1>1. N \in Nat /\ Len(more) = N + 1 /\ more[N + 1] = v
      /\ \A n \in 1..N : more[n] = values[n]
  BY LenProperties, AppendProperties
<1>2. \A n \in 0..N :
        J[n] = IF n = 0 THEN <<>>
               ELSE IF n = 1 THEN values[1]
               ELSE J[n - 1] \o delimiter \o values[n]
  BY <1>1, JoinedIs
<1>3. \A n \in 0..(N + 1) :
        K[n] = IF n = 0 THEN <<>>
               ELSE IF n = 1 THEN more[1]
               ELSE K[n - 1] \o delimiter \o more[n]
  <2> HIDE DEF more
  <2> QED
    BY <1>1, JoinedIs
<1> HIDE DEF J, K, more, N
<1>4. Bad = {}
  <2>1. SUFFICES ASSUME Bad # {} PROVE FALSE
    OBVIOUS
  <2>2. PICK n \in Bad : \A m \in Bad : n <= m
    <3>1. Bad \in SUBSET Nat
      BY <1>1
    <3> HIDE DEF Bad
    <3> QED
      BY <2>1, <3>1, LeastNumber
  <2>3. n \in 0..N /\ J[n] # K[n]
    BY <2>2
  <2>4. n # 0 /\ n # 1
    BY <1>1, <1>2, <1>3, <2>3
  <2>5. n - 1 \in 0..N /\ n - 1 \notin Bad
    BY <1>1, <2>2, <2>3, <2>4
  <2>6. J[n - 1] = K[n - 1] /\ more[n] = values[n]
    BY <1>1, <2>3, <2>4, <2>5
  <2> QED
    BY <1>1, <1>2, <1>3, <2>3, <2>4, <2>6
<1>5. K[N] = J[N]
  BY <1>1, <1>4
<1>6. values = <<>> <=> N = 0
  BY EmptySeq DEF N
<1>7. Join(Append(values, v), delimiter) = K[N + 1] /\ Join(values, delimiter) = J[N]
  BY <1>1 DEF Join, K, J, more, N
<1>8. K[N + 1] = IF N = 0 THEN v ELSE Cat(Cat(J[N], delimiter), v)
  BY <1>1, <1>3, <1>5 DEF Cat
<1> QED
  BY <1>6, <1>7, <1>8

-----------------------------------------------------------------------------
(* Delimiters that can be told apart.                                      *)

\* The pattern d is not in s or t, and does not begin in s and end in t when the
\* first character of t comes later in d nowhere.
LEMMA ConcatClean ==
  ASSUME NEW C, NEW s \in Seq(C), NEW t \in Seq(C), NEW d \in Seq(C), d # <<>>,
         ~Contains(s, d), ~Contains(t, d),
         \A k \in 2..Len(d) : d[k] # t[1]
  PROVE  ~Contains(s \o t, d)
<1> SUFFICES ASSUME NEW i \in 1..Len(s \o t), OccursAt(d, s \o t, i)
             PROVE  FALSE
  BY DEF Contains, Occurrences
<1>1. /\ Len(s) \in Nat /\ Len(t) \in Nat /\ Len(d) \in Nat \ {0}
      /\ Len(s \o t) = Len(s) + Len(t)
      /\ \A j \in 1..(Len(s) + Len(t)) :
           (s \o t)[j] = IF j <= Len(s) THEN s[j] ELSE t[j - Len(s)]
  BY LenProperties, ConcatProperties, EmptySeq
<1>2. /\ i + Len(d) - 1 <= Len(s) + Len(t)
      /\ \A k \in 1..Len(d) : (s \o t)[i + k - 1] = d[k]
  BY <1>1 DEF OccursAt
<1>3. CASE i + Len(d) - 1 <= Len(s)
  <2>1. \A k \in 1..Len(d) : s[i + k - 1] = d[k]
    BY <1>1, <1>2, <1>3
  <2>2. OccursAt(d, s, i) /\ i \in 1..Len(s)
    BY <1>1, <1>3, <2>1 DEF OccursAt
  <2> QED
    BY <2>2 DEF Contains, Occurrences
<1>4. CASE i > Len(s)
  <2>1. \A k \in 1..Len(d) : t[i - Len(s) + k - 1] = d[k]
    <3>1. TAKE k \in 1..Len(d)
    <3>2. i + k - 1 \in 1..(Len(s) + Len(t)) /\ i + k - 1 > Len(s)
      BY <1>1, <1>2, <1>4
    <3>3. i + k - 1 - Len(s) = i - Len(s) + k - 1
      BY <1>1
    <3>4. (s \o t)[i + k - 1] = t[i - Len(s) + k - 1]
      BY <1>1, <3>2, <3>3
    <3> QED
      BY <1>2, <3>4
  <2>2. OccursAt(d, t, i - Len(s)) /\ i - Len(s) \in 1..Len(t)
    BY <1>1, <1>2, <1>4, <2>1 DEF OccursAt
  <2> QED
    BY <2>2 DEF Contains, Occurrences
<1>5. CASE i <= Len(s) /\ i + Len(d) - 1 > Len(s)
  <2> DEFINE k == Len(s) + 2 - i
  <2>1. k \in 2..Len(d) /\ i + k - 1 = Len(s) + 1
        /\ Len(s) + 1 \in 1..(Len(s) + Len(t))
    BY <1>1, <1>2, <1>5
  <2>2. (s \o t)[Len(s) + 1] = t[1]
    BY <1>1, <2>1
  <2>3. (s \o t)[i + k - 1] = d[k]
    <3>1. k \in 1..Len(d)
      BY <1>1, <2>1
    <3> HIDE DEF k
    <3> QED
      BY <1>2, <3>1
  <2> QED
    BY <2>1, <2>2, <2>3
<1> QED
  BY <1>1, <1>3, <1>4, <1>5

\* The same when the first character of d is not in s at all.
LEMMA PrefixClean ==
  ASSUME NEW C, NEW s \in Seq(C), NEW t \in Seq(C), NEW d \in Seq(C), d # <<>>,
         ~Contains(t, d), \A k \in 1..Len(s) : s[k] # d[1]
  PROVE  ~Contains(s \o t, d)
<1> SUFFICES ASSUME NEW i \in 1..Len(s \o t), OccursAt(d, s \o t, i)
             PROVE  FALSE
  BY DEF Contains, Occurrences
<1>1. /\ Len(s) \in Nat /\ Len(t) \in Nat /\ Len(d) \in Nat \ {0}
      /\ Len(s \o t) = Len(s) + Len(t)
      /\ \A j \in 1..(Len(s) + Len(t)) :
           (s \o t)[j] = IF j <= Len(s) THEN s[j] ELSE t[j - Len(s)]
  BY LenProperties, ConcatProperties, EmptySeq
<1>2. /\ i + Len(d) - 1 <= Len(s) + Len(t)
      /\ \A k \in 1..Len(d) : (s \o t)[i + k - 1] = d[k]
  BY <1>1 DEF OccursAt
<1>3. i > Len(s)
  <2>1. (s \o t)[i] = d[1]
    <3>1. 1 \in 1..Len(d) /\ i + 1 - 1 = i
      BY <1>1
    <3> QED
      BY <1>2, <3>1
  <2> QED
    BY <1>1, <2>1
<1>4. \A k \in 1..Len(d) : t[i - Len(s) + k - 1] = d[k]
  <2>1. TAKE k \in 1..Len(d)
  <2>2. i + k - 1 \in 1..(Len(s) + Len(t)) /\ i + k - 1 > Len(s)
    BY <1>1, <1>2, <1>3
  <2>3. i + k - 1 - Len(s) = i - Len(s) + k - 1
    BY <1>1
  <2>4. (s \o t)[i + k - 1] = t[i - Len(s) + k - 1]
    BY <1>1, <2>2, <2>3
  <2> QED
    BY <1>2, <2>4
<1>5. OccursAt(d, t, i - Len(s)) /\ i - Len(s) \in 1..Len(t)
  BY <1>1, <1>2, <1>3, <1>4 DEF OccursAt
<1> QED
  BY <1>5 DEF Contains, Occurrences

\* The first character of each of two delimiters stands nowhere else in them.
Apart(f, d) ==
  /\ f # <<>> /\ d # <<>>
  /\ f[1] # d[1]
  /\ \A k \in 2..Len(f) : f[k] # f[1] /\ f[k] # d[1]
  /\ \A k \in 2..Len(d) : d[k] # f[1] /\ d[k] # d[1]

\* Values without the delimiter d have none when they are joined with f.
LEMMA JoinClean ==
  ASSUME NEW C, NEW values \in Seq(Seq(C)), NEW f \in Seq(C), NEW d \in Seq(C),
         Apart(f, d), \A i \in 1..Len(values) : ~Contains(values[i], d)
  PROVE  ~Contains(Join(values, f), d)
<1> DEFINE J == Joined(values, f)
           N == Len(values)
           Bad == {n \in 0..N : Contains(J[n], d)}
<1>1. N \in Nat /\ \A n \in 1..N : values[n] \in Seq(C)
  BY LenProperties, ElementOfSeq
<1>2. \A n \in 0..N :
        J[n] = IF n = 0 THEN <<>>
               ELSE IF n = 1 THEN values[1]
               ELSE J[n - 1] \o f \o values[n]
  BY <1>1, JoinedIs
<1>3. \A n \in 0..N : J[n] \in Seq(C)
  BY JoinedType
<1> HIDE DEF J, N
<1>4. Bad = {}
  <2>1. SUFFICES ASSUME Bad # {} PROVE FALSE
    OBVIOUS
  <2>2. PICK n \in Bad : \A m \in Bad : n <= m
    <3>1. Bad \in SUBSET Nat
      BY <1>1
    <3> HIDE DEF Bad
    <3> QED
      BY <2>1, <3>1, LeastNumber
  <2>3. n \in 0..N /\ Contains(J[n], d)
    BY <2>2
  <2>4. n # 0
    <3>1. ~Contains(<<>>, d)
      BY DEF Contains, Occurrences
    <3> QED
      BY <1>2, <2>3, <3>1
  <2>5. n # 1
    BY <1>1, <1>2, <2>3 DEF N
  <2>6. n - 1 \in 0..N /\ n - 1 \notin Bad
    BY <1>1, <2>2, <2>3, <2>4, <2>5
  <2>7. /\ J[n - 1] \in Seq(C) /\ values[n] \in Seq(C)
        /\ ~Contains(J[n - 1], d) /\ ~Contains(values[n], d)
    BY <1>1, <1>3, <2>3, <2>4, <2>6 DEF N
  <2>8. /\ f \o values[n] \in Seq(C)
        /\ Len(f) \in Nat \ {0}
        /\ Len(f \o values[n]) = Len(f) + Len(values[n]) /\ Len(values[n]) \in Nat
        /\ (f \o values[n])[1] = f[1]
    BY <2>7, ConcatProperties, LenProperties, EmptySeq DEF Apart
  <2>9. ~Contains(f \o values[n], d)
    <3>1. \A k \in 1..Len(f) : f[k] # d[1]
      BY <2>8 DEF Apart
    <3> QED
      BY <2>7, <3>1, PrefixClean DEF Apart
  <2>10. ~Contains(J[n - 1] \o (f \o values[n]), d)
    <3>1. \A k \in 2..Len(d) : d[k] # (f \o values[n])[1]
      BY <2>8 DEF Apart
    <3> DEFINE t == f \o values[n]
    <3> HIDE DEF t
    <3>2. ~Contains(J[n - 1] \o t, d)
      BY <2>7, <2>8, <2>9, <3>1, ConcatClean DEF Apart, t
    <3> QED
      BY <3>2 DEF t
  <2>11. J[n] = J[n - 1] \o (f \o values[n])
    <3>1. J[n] = J[n - 1] \o f \o values[n]
      BY <1>1, <1>2, <2>3, <2>4, <2>5
    <3> DEFINE a == J[n - 1]
               v == values[n]
    <3>2. a \in Seq(C) /\ v \in Seq(C) /\ f \in Seq(C)
      BY <2>7
    <3>3. J[n] = (a \o f) \o v
      BY <3>1
    <3> HIDE DEF a, v
    <3>4. (a \o f) \o v = a \o (f \o v)
      BY <3>2, ConcatAssociative
    <3> QED
      BY <3>3, <3>4 DEF a, v
  <2> QED
    BY <2>3, <2>10, <2>11
<1>5. N \in 0..N
  BY <1>1
<1> QED
  BY <1>4, <1>5 DEF Join, J, N

\* The text agrees with another as far as both go.
Agrees(text, other) ==
  \A i \in 1..Len(text) : i <= Len(other) => text[i] = other[i]

\* In a text that begins as s followed by the pattern d, or as a part of that, the
\* pattern is found first where it was written, when it is not in s and its
\* first character stands nowhere else in it.
LEMMA FirstDelimiter ==
  ASSUME NEW C, NEW s \in Seq(C), NEW d \in Seq(C), NEW text \in Seq(C),
         d # <<>>, ~Contains(s, d), \A k \in 2..Len(d) : d[k] # d[1],
         Agrees(text, Cat(s, d))
  PROVE  Find(d, text) = IF Len(text) >= Len(s) + Len(d)
                         THEN Len(s) + 1 ELSE NoPosition
<1>1. /\ Len(s) \in Nat /\ Len(text) \in Nat /\ Len(d) \in Nat \ {0}
      /\ Len(s \o d) = Len(s) + Len(d)
      /\ \A j \in 1..(Len(s) + Len(d)) :
           (s \o d)[j] = IF j <= Len(s) THEN s[j] ELSE d[j - Len(s)]
  BY LenProperties, ConcatProperties, EmptySeq
<1>2. \A i \in 1..Len(text) : i <= Len(s) + Len(d) =>
        text[i] = IF i <= Len(s) THEN s[i] ELSE d[i - Len(s)]
  BY <1>1 DEF Agrees, Cat
<1>3. ASSUME NEW i \in Occurrences(d, text)
      PROVE  i > Len(s)
  <2>1. /\ i \in 1..Len(text) /\ i + Len(d) - 1 <= Len(text)
        /\ \A k \in 1..Len(d) : text[i + k - 1] = d[k]
    BY DEF Occurrences, OccursAt
  <2>2. SUFFICES ASSUME i <= Len(s) PROVE FALSE
    BY <1>1, <2>1
  <2>3. CASE i + Len(d) - 1 <= Len(s)
    <3>1. \A k \in 1..Len(d) : s[i + k - 1] = d[k]
      <4>1. TAKE k \in 1..Len(d)
      <4>2. i + k - 1 \in 1..Len(text) /\ i + k - 1 <= Len(s)
        BY <1>1, <2>1, <2>3
      <4>3. text[i + k - 1] = s[i + k - 1]
        BY <1>1, <1>2, <4>2
      <4> QED
        BY <2>1, <4>3
    <3>2. OccursAt(d, s, i) /\ i \in 1..Len(s)
      BY <1>1, <2>1, <2>3, <3>1 DEF OccursAt
    <3> QED
      BY <3>2 DEF Contains, Occurrences
  <2>4. CASE i + Len(d) - 1 > Len(s)
    <3> DEFINE k == Len(s) + 2 - i
    <3>1. k \in 2..Len(d) /\ i + k - 1 = Len(s) + 1 /\ Len(s) + 1 \in 1..Len(text)
      BY <1>1, <2>1, <2>2, <2>4
    <3>2. text[Len(s) + 1] = d[1]
      BY <1>1, <1>2, <3>1
    <3>3. text[i + k - 1] = d[k]
      BY <2>1, <3>1
    <3> QED
      BY <3>1, <3>2, <3>3
  <2> QED
    BY <1>1, <2>1, <2>3, <2>4
<1>4. CASE Len(text) >= Len(s) + Len(d)
  <2>1. Len(s) + 1 \in Occurrences(d, text)
    <3>1. \A k \in 1..Len(d) : text[Len(s) + 1 + k - 1] = d[k]
      <4>1. TAKE k \in 1..Len(d)
      <4>2. /\ Len(s) + 1 + k - 1 = Len(s) + k /\ Len(s) + k \in 1..Len(text)
            /\ Len(s) + k <= Len(s) + Len(d) /\ Len(s) + k > Len(s)
            /\ Len(s) + k - Len(s) = k
        BY <1>1, <1>4
      <4> QED
        BY <1>2, <4>2
    <3> QED
      BY <1>1, <1>4, <3>1 DEF Occurrences, OccursAt
  <2>2. /\ Find(d, text) \in Occurrences(d, text)
        /\ Find(d, text) <= Len(s) + 1 /\ Find(d, text) \in Nat
    BY <2>1, FindIsFirst DEF Contains, Occurrences
  <2> QED
    BY <1>1, <1>3, <1>4, <2>2
<1>5. CASE ~(Len(text) >= Len(s) + Len(d))
  <2>1. Occurrences(d, text) = {}
    <3>1. SUFFICES ASSUME NEW i \in Occurrences(d, text) PROVE FALSE
      OBVIOUS
    <3>2. i \in Int /\ i + Len(d) - 1 <= Len(text) /\ i > Len(s)
      BY <1>1, <1>3 DEF Occurrences, OccursAt
    <3> QED
      BY <1>1, <1>5, <3>2
  <2> QED
    BY <1>5, <2>1 DEF Find, Contains
<1> QED
  BY <1>4, <1>5

-----------------------------------------------------------------------------
(* Splitting what was joined.                                              *)

\* One text is the beginning of another.
Begins(s, t) ==
  /\ Len(s) <= Len(t)
  /\ \A i \in 1..Len(s) : t[i] = s[i]

\* The first values joined are the beginning of all values joined.
LEMMA JoinedPrefix ==
  ASSUME NEW C, NEW values \in Seq(Seq(C)), NEW f \in Seq(C),
         NEW k \in 0..Len(values), NEW last \in k..Len(values)
  PROVE  Begins(Joined(values, f)[k], Joined(values, f)[last])
<1> DEFINE J == Joined(values, f)
           N == Len(values)
           Starts(m) == Begins(J[k], J[m])
           Bad == {m \in k..N : ~Starts(m)}
<1>1. N \in Nat /\ \A n \in 1..N : values[n] \in Seq(C)
  BY LenProperties, ElementOfSeq
<1>2. \A n \in 0..N :
        J[n] = IF n = 0 THEN <<>>
               ELSE IF n = 1 THEN values[1]
               ELSE J[n - 1] \o f \o values[n]
  BY <1>1, JoinedIs
<1>3. \A n \in 0..N : J[n] \in Seq(C) /\ Len(J[n]) \in Nat
  BY JoinedType, LenProperties
<1> HIDE DEF J
<1>4. SUFFICES ASSUME Bad # {} PROVE FALSE
  BY DEF J
<1> USE DEF Begins
<1>5. PICK m \in Bad : \A n \in Bad : m <= n
  <2>1. Bad \in SUBSET Nat
    BY <1>1
  <2> HIDE DEF Bad
  <2> QED
    BY <1>4, <2>1, LeastNumber
<1>6. m \in k..N /\ ~Starts(m)
  BY <1>5
<1>7. m # k
  BY <1>1, <1>3
<1>8. m - 1 \in k..N /\ Starts(m - 1)
  BY <1>1, <1>5, <1>6, <1>7
<1>9. m # 1
  <2>1. m = 1 => k = 0
    BY <1>1, <1>6, <1>7
  <2>2. k = 0 => Len(J[k]) = 0
    BY <1>1, <1>2
  <2>3. k = 0 => Starts(m)
    BY <1>1, <1>3, <1>6, <2>2
  <2> QED
    BY <1>6, <2>1, <2>3
<1>10. J[m] = J[m - 1] \o f \o values[m] /\ values[m] \in Seq(C)
  <2>1. m \in 0..N /\ m \in 1..N /\ m # 0
    BY <1>1, <1>6, <1>7
  <2> QED
    BY <1>1, <1>2, <1>9, <2>1
<1>11. /\ J[m - 1] \in Seq(C) /\ Len(J[m - 1]) \in Nat /\ Len(J[k]) \in Nat
       /\ Len(J[m - 1]) <= Len(J[m])
       /\ \A i \in 1..Len(J[m - 1]) : J[m][i] = J[m - 1][i]
  <2> DEFINE a == J[m - 1]
             v == values[m]
  <2>1. a \in Seq(C) /\ v \in Seq(C) /\ J[m] = (a \o f) \o v
    BY <1>1, <1>3, <1>6, <1>8, <1>10
  <2> HIDE DEF a, v
  <2>2. a \o f \in Seq(C) /\ Len(a) \in Nat /\ Len(f) \in Nat /\ Len(v) \in Nat
        /\ Len(a \o f) = Len(a) + Len(f)
        /\ \A i \in 1..Len(a) : (a \o f)[i] = a[i]
    BY <2>1, ConcatProperties, LenProperties
  <2>3. Len(J[m]) = Len(a) + Len(f) + Len(v)
        /\ \A i \in 1..(Len(a) + Len(f)) : J[m][i] = (a \o f)[i]
    BY <2>1, <2>2, ConcatProperties
  <2>4. Len(J[k]) \in Nat
    BY <1>1, <1>3
  <2> QED
    BY <2>1, <2>2, <2>3, <2>4 DEF a
<1>12. Starts(m)
  <2>1. /\ Len(J[k]) <= Len(J[m - 1])
        /\ \A i \in 1..Len(J[k]) : J[m - 1][i] = J[k][i]
    BY <1>8
  <2>2. Len(J[m]) \in Nat
    BY <1>3, <1>6
  <2>3. Len(J[k]) <= Len(J[m])
    BY <1>11, <2>1, <2>2
  <2>4. \A i \in 1..Len(J[k]) : i \in 1..Len(J[m - 1])
    BY <1>11, <2>1
  <2> QED
    BY <1>11, <2>1, <2>3, <2>4
<1> QED
  BY <1>6, <1>12

\* What is split off from position p on.
IsParts(g, text, d, first) ==
  g = [p \in first..Len(text) + 1 |->
         LET rest == From(text, p)
             i == Find(d, rest)
         IN IF i = NoPosition THEN <<rest>>
            ELSE <<Between(rest, 1, i)>> \o g[p + i - 1 + Len(d)]]

\* The position behind the delimiter that is found is further right.
LEMMA BehindDelimiter ==
  ASSUME NEW C, NEW text \in Seq(C), NEW d \in Seq(C), d # <<>>,
         NEW p \in 1..Len(text) + 1, Find(d, From(text, p)) # NoPosition
  PROVE  p + Find(d, From(text, p)) - 1 + Len(d) \in p + 1..Len(text) + 1
<1> DEFINE rest == From(text, p)
<1>1. Len(text) \in Nat /\ Len(d) \in Nat \ {0} /\ p \in Nat \ {0}
  BY LenProperties, EmptySeq
<1>2. rest \in Seq(C) /\ Len(rest) = Len(text) - p + 1
  <2>1. \A i \in p..Len(text) : text[i] \in C
    BY <1>1, ElementOfSeq
  <2>2. SubSeq(text, p, Len(text)) \in Seq(C)
        /\ Len(SubSeq(text, p, Len(text)))
             = IF p <= Len(text) THEN Len(text) - p + 1 ELSE 0
    BY <1>1, <2>1, SubSeqProperties
  <2> QED
    BY <1>1, <2>2 DEF From
<1> HIDE DEF rest
<1>3. Contains(rest, d)
  BY <1>2, FindIsFirst DEF rest
<1>4. Find(d, rest) \in 1..Len(rest) /\ OccursAt(d, rest, Find(d, rest))
  BY <1>2, <1>3, FindIsFirst
<1>5. Find(d, rest) + Len(d) - 1 <= Len(rest)
  BY <1>4 DEF OccursAt
<1> QED
  BY <1>1, <1>2, <1>4, <1>5 DEF rest

LEMMA PartsExist ==
  ASSUME NEW C, NEW text \in Seq(C), NEW d \in Seq(C), d # <<>>
  PROVE  \E g : IsParts(g, text, d, 1)
<1> DEFINE L == Len(text) + 1
           Bad == {q \in 0..L : ~ \E g : IsParts(g, text, d, L + 1 - q)}
<1>1. L \in Nat \ {0}
  BY LenProperties
<1>2. SUFFICES ASSUME Bad # {} PROVE FALSE
  <2>1. L \in 0..L /\ L + 1 - L = 1
    BY <1>1
  <2> QED
    BY <1>2, <2>1
<1>3. PICK q \in Bad : \A r \in Bad : q <= r
  <2>1. Bad \in SUBSET Nat
    BY <1>1
  <2> HIDE DEF Bad
  <2> QED
    BY <1>2, <2>1, LeastNumber
<1>4. q \in 0..L /\ ~ \E g : IsParts(g, text, d, L + 1 - q)
  BY <1>3
<1>5. CASE q = 0
  <2>1. (L + 1 - q)..L = {}
    BY <1>1, <1>5
  <2>2. IsParts([p \in {} |-> <<>>], text, d, L + 1 - q)
    BY <2>1 DEF IsParts
  <2> QED
    BY <1>4, <2>2
<1>6. CASE q # 0
  <2> DEFINE P == L + 1 - q
  <2>1. q - 1 \in 0..L /\ q - 1 \notin Bad /\ P \in 1..L /\ L + 1 - (q - 1) = P + 1
    BY <1>1, <1>3, <1>4, <1>6
  <2>2. PICK g : IsParts(g, text, d, P + 1)
    BY <2>1
  <2> DEFINE next(p) == p + Find(d, From(text, p)) - 1 + Len(d)
             step(h, p) == IF Find(d, From(text, p)) = NoPosition
                           THEN <<From(text, p)>>
                           ELSE <<Between(From(text, p), 1, Find(d, From(text, p)))>>
                                  \o h[next(p)]
             more == [p \in P..L |-> IF p = P THEN step(g, P) ELSE g[p]]
             again == [p \in P..L |-> step(more, p)]
  <2>3. \A p \in P + 1..L : g[p] = step(g, p)
    BY <2>2 DEF IsParts
  <2>4. \A p \in P..L : Find(d, From(text, p)) # NoPosition => next(p) \in P + 1..L
    <3>1. TAKE p \in P..L
    <3>2. p \in 1..Len(text) + 1
      BY <1>1, <2>1
    <3>3. Find(d, From(text, p)) # NoPosition => next(p) \in p + 1..L
      BY <3>2, BehindDelimiter
    <3> HIDE DEF next
    <3> QED
      BY <1>1, <2>1, <3>2, <3>3
  <2>5. \A p \in P + 1..L : more[p] = g[p]
    BY <1>1, <2>1
  <2>6. more[P] = step(g, P)
    BY <1>1, <2>1
  <2> HIDE DEF next, more
  <2>7. \A p \in P..L : step(more, p) = step(g, p)
    BY <2>4, <2>5
  <2>8. \A p \in P..L : more[p] = step(more, p)
    <3>1. TAKE p \in P..L
    <3>2. CASE p = P
      BY <2>6, <2>7, <3>2
    <3>3. CASE p # P
      <4>1. p \in P + 1..L
        BY <1>1, <2>1, <3>3
      <4> HIDE DEF step
      <4> QED
        BY <2>3, <2>5, <2>7, <4>1
    <3> QED
      BY <3>2, <3>3
  <2>9. more = again
    BY <2>8 DEF more
  <2>10. IsParts(more, text, d, P)
    BY <2>9 DEF IsParts, next
  <2> QED
    BY <1>4, <2>10
<1> QED
  BY <1>5, <1>6

\* The recursion of PartsFrom is well-founded.
LEMMA PartsAre ==
  ASSUME NEW C, NEW text \in Seq(C), NEW d \in Seq(C), d # <<>>,
         NEW p \in 1..Len(text) + 1
  PROVE  PartsFrom(text, d)[p] =
           LET rest == From(text, p)
               i == Find(d, rest)
           IN IF i = NoPosition THEN <<rest>>
              ELSE <<Between(rest, 1, i)>> \o PartsFrom(text, d)[p + i - 1 + Len(d)]
<1>1. PICK g : IsParts(g, text, d, 1)
  BY PartsExist
<1>2. IsParts(PartsFrom(text, d), text, d, 1)
  BY <1>1 DEF PartsFrom, IsParts
<1> QED
  BY <1>2 DEF IsParts

\* Where the k-th value begins in the joined text.
Start(values, f, k) ==
  IF k = 1 THEN 1 ELSE Len(Joined(values, f)[k - 1]) + Len(f) + 1

\* The k-th value stands there, and the delimiter behind it if it is not the last.
StandsThere(values, f, k) ==
  LET text == Join(values, f)
      at == Start(values, f, k)
      last == at + Len(values[k]) - 1
  IN /\ at \in Nat \ {0}
     /\ \A i \in 1..Len(values[k]) : text[at + i - 1] = values[k][i]
     /\ k = Len(values) => Len(text) = last
     /\ k # Len(values) =>
          /\ Len(text) >= last + Len(f)
          /\ \A i \in 1..Len(f) : text[last + i] = f[i]
          /\ Start(values, f, k + 1) = last + Len(f) + 1

LEMMA ValueInJoin ==
  ASSUME NEW C, NEW values \in Seq(Seq(C)), NEW f \in Seq(C),
         NEW k \in 1..Len(values)
  PROVE  StandsThere(values, f, k)
<1> DEFINE J == Joined(values, f)
           N == Len(values)
           text == Join(values, f)
           at == Start(values, f, k)
           v == values[k]
           last == at + Len(v) - 1
<1>1. N \in Nat /\ k \in 1..N /\ \A n \in 1..N : values[n] \in Seq(C)
  BY LenProperties, ElementOfSeq
<1>2. \A n \in 0..N :
        J[n] = IF n = 0 THEN <<>>
               ELSE IF n = 1 THEN values[1]
               ELSE J[n - 1] \o f \o values[n]
  BY <1>1, JoinedIs
<1>3. \A n \in 0..N : J[n] \in Seq(C) /\ Len(J[n]) \in Nat
  BY JoinedType, LenProperties
<1>4. text = J[N] /\ at = IF k = 1 THEN 1 ELSE Len(J[k - 1]) + Len(f) + 1
  BY DEF Join, Start
<1>5. \A n, m \in 0..N : n <= m => /\ Len(J[n]) <= Len(J[m])
                                  /\ \A i \in 1..Len(J[n]) : J[m][i] = J[n][i]
  <2>1. TAKE n, m \in 0..N
  <2>2. HAVE n <= m
  <2>3. m \in n..N
    BY <1>1, <2>2
  <2>4. Begins(J[n], J[m])
    BY <2>3, JoinedPrefix
  <2> QED
    BY <2>4 DEF Begins
<1> HIDE DEF J, text, at
<1>6. Len(f) \in Nat /\ v \in Seq(C) /\ Len(v) \in Nat
  BY <1>1, LenProperties
<1>7. at \in Nat \ {0}
  <2>1. k # 1 => k - 1 \in 0..N
    BY <1>1
  <2> QED
    BY <1>3, <1>4, <1>6, <2>1
<1>8. Len(J[k]) = last /\ \A i \in 1..Len(v) : J[k][at + i - 1] = v[i]
  <2>1. CASE k = 1
    BY <1>1, <1>2, <1>4, <1>6, <2>1
  <2>2. CASE k # 1
    <3> DEFINE a == J[k - 1]
    <3>1. a \in Seq(C) /\ Len(a) \in Nat /\ J[k] = (a \o f) \o v /\ at = Len(a) + Len(f) + 1
      <4>1. k \in 0..N /\ k - 1 \in 0..N /\ k # 0 /\ k # 1
        BY <1>1, <2>2
      <4>2. J[k] = (a \o f) \o v
        BY <1>2, <4>1
      <4>3. a \in Seq(C) /\ Len(a) \in Nat
        BY <1>3, <4>1
      <4> QED
        BY <1>4, <4>1, <4>2, <4>3
    <3> HIDE DEF a, v
    <3>2. a \o f \in Seq(C) /\ Len(a \o f) = Len(a) + Len(f)
      BY <3>1, ConcatProperties
    <3>3. /\ Len(J[k]) = Len(a) + Len(f) + Len(v)
          /\ \A i \in 1..(Len(a) + Len(f) + Len(v)) :
               J[k][i] = IF i <= Len(a) + Len(f) THEN (a \o f)[i]
                         ELSE v[i - (Len(a) + Len(f))]
      BY <1>6, <3>1, <3>2, ConcatProperties
    <3>4. \A i \in 1..Len(v) : J[k][at + i - 1] = v[i]
      <4>1. TAKE i \in 1..Len(v)
      <4>2. /\ at + i - 1 = Len(a) + Len(f) + i
            /\ Len(a) + Len(f) + i \in 1..(Len(a) + Len(f) + Len(v))
            /\ ~(Len(a) + Len(f) + i <= Len(a) + Len(f))
            /\ Len(a) + Len(f) + i - (Len(a) + Len(f)) = i
        BY <1>6, <3>1
      <4>3. PICK n \in 1..(Len(a) + Len(f) + Len(v)) :
              /\ n = at + i - 1
              /\ ~(n <= Len(a) + Len(f)) /\ n - (Len(a) + Len(f)) = i
        BY <4>2
      <4>4. J[k][n] = v[n - (Len(a) + Len(f))]
        BY <3>3, <4>3
      <4> QED
        BY <4>3, <4>4
    <3> QED
      BY <1>6, <3>1, <3>3, <3>4
  <2> QED
    BY <2>1, <2>2
<1> HIDE DEF v, last
<1>9. \A i \in 1..Len(v) : text[at + i - 1] = v[i]
  <2>1. k \in 0..N /\ N \in 0..N /\ k <= N
    BY <1>1
  <2>2. \A i \in 1..Len(J[k]) : text[i] = J[k][i]
    BY <1>4, <1>5, <2>1
  <2>3. \A i \in 1..Len(v) : at + i - 1 \in 1..Len(J[k])
    BY <1>6, <1>7, <1>8 DEF last
  <2> QED
    BY <1>8, <2>2, <2>3
<1>10. CASE k # N
  <2> DEFINE w == values[k + 1]
             b == J[k]
  <2>1. k + 1 \in 1..N /\ k \in 0..N /\ N \in 0..N /\ k + 1 # 1 /\ k + 1 - 1 = k
    BY <1>1, <1>10
  <2>2. w \in Seq(C) /\ b \in Seq(C) /\ Len(b) \in Nat /\ J[k + 1] = (b \o f) \o w
    <3>1. k + 1 \in 0..N /\ k + 1 # 0
      BY <2>1
    <3> DEFINE n == k + 1
    <3>2. n \in 0..N /\ n # 0 /\ n # 1 /\ n - 1 = k
      BY <2>1, <3>1
    <3> HIDE DEF n
    <3>3. J[n] = (b \o f) \o values[n]
      BY <1>2, <3>2 DEF b
    <3>4. J[k + 1] = (b \o f) \o w
      BY <3>3 DEF n, w
    <3> QED
      BY <1>1, <1>3, <2>1, <3>4 DEF b, w
  <2> HIDE DEF w, b
  <2>3. /\ b \o f \in Seq(C) /\ Len(b \o f) = Len(b) + Len(f) /\ Len(w) \in Nat
        /\ \A i \in 1..(Len(b) + Len(f)) :
             (b \o f)[i] = IF i <= Len(b) THEN b[i] ELSE f[i - Len(b)]
    BY <2>2, ConcatProperties, LenProperties
  <2>4. /\ Len(J[k + 1]) = Len(b) + Len(f) + Len(w)
        /\ \A i \in 1..(Len(b) + Len(f)) : J[k + 1][i] = (b \o f)[i]
    BY <1>6, <2>2, <2>3, ConcatProperties
  <2>5. /\ Len(J[k + 1]) <= Len(text)
        /\ \A i \in 1..Len(J[k + 1]) : text[i] = J[k + 1][i]
    <3>1. k + 1 \in 0..N /\ k + 1 <= N
      BY <2>1
    <3> QED
      BY <1>4, <1>5, <2>1, <3>1
  <2>6. Len(b) = last
    BY <1>8 DEF b
  <2>7. Len(text) \in Nat
    BY <1>3, <1>4, <2>1
  <2>8. Len(text) >= last + Len(f)
    BY <1>6, <2>2, <2>3, <2>4, <2>5, <2>6, <2>7
  <2>9. \A i \in 1..Len(f) : text[last + i] = f[i]
    <3>1. TAKE i \in 1..Len(f)
    <3>2. /\ Len(b) + i \in 1..(Len(b) + Len(f)) /\ ~(Len(b) + i <= Len(b))
          /\ Len(b) + i - Len(b) = i /\ Len(b) + i \in 1..Len(J[k + 1])
      BY <1>6, <2>2, <2>3, <2>4
    <3>3. (b \o f)[Len(b) + i] = f[i]
      BY <2>3, <3>2
    <3>4. J[k + 1][Len(b) + i] = f[i]
      BY <2>4, <3>2, <3>3
    <3>5. text[Len(b) + i] = f[i]
      BY <2>5, <3>2, <3>4
    <3> QED
      BY <2>6, <3>5
  <2>10. Start(values, f, k + 1) = last + Len(f) + 1
    <3>1. Start(values, f, k + 1) = Len(J[k + 1 - 1]) + Len(f) + 1
      BY <2>1 DEF Start, J
    <3>2. Start(values, f, k + 1) = Len(b) + Len(f) + 1
      BY <2>1, <3>1 DEF b
    <3> QED
      BY <2>6, <3>2
  <2>11. text \in Seq(C)
    BY <1>3, <1>4, <2>1
  <2>12. /\ at \in Nat \ {0} /\ text \in Seq(C)
         /\ \A i \in 1..Len(v) : text[at + i - 1] = v[i]
         /\ k = N => Len(text) = last
         /\ k # N =>
              /\ Len(text) >= last + Len(f)
              /\ \A i \in 1..Len(f) : text[last + i] = f[i]
              /\ Start(values, f, k + 1) = last + Len(f) + 1
    BY <1>7, <1>9, <1>10, <2>8, <2>9, <2>10, <2>11
  <2> QED
    BY <2>12 DEF StandsThere, v, last, at, text
<1>11. CASE k = N
  <2>1. text \in Seq(C) /\ Len(text) = last
    <3>1. text = J[k] /\ k \in 0..N
      BY <1>1, <1>4, <1>11
    <3> QED
      BY <1>3, <1>8, <3>1
  <2>2. /\ at \in Nat \ {0} /\ text \in Seq(C)
        /\ \A i \in 1..Len(v) : text[at + i - 1] = v[i]
        /\ Len(text) = last
    BY <1>7, <1>9, <2>1
  <2> QED
    BY <1>11, <2>2 DEF StandsThere, v, last, at, text
<1> QED
  BY <1>10, <1>11

\* The rest of a text from a position on.
LEMMA FromProperties ==
  ASSUME NEW C, NEW text \in Seq(C), NEW p \in 1..Len(text) + 1
  PROVE  /\ From(text, p) \in Seq(C)
         /\ Len(From(text, p)) = Len(text) - p + 1
         /\ \A i \in 1..(Len(text) - p + 1) : From(text, p)[i] = text[p + i - 1]
<1>1. Len(text) \in Nat /\ \A i \in p..Len(text) : text[i] \in C
  BY LenProperties, ElementOfSeq
<1>2. /\ SubSeq(text, p, Len(text)) \in Seq(C)
      /\ Len(SubSeq(text, p, Len(text)))
           = IF p <= Len(text) THEN Len(text) - p + 1 ELSE 0
      /\ \A i \in 1..(Len(text) - p + 1) : SubSeq(text, p, Len(text))[i] = text[p + i - 1]
  BY <1>1, SubSeqProperties
<1> QED
  BY <1>1, <1>2 DEF From

\* Where the k-th value begins, it is split off, and the others behind it.
LEMMA PartAt ==
  ASSUME NEW C, NEW values \in Seq(Seq(C)), NEW f \in Seq(C), f # <<>>,
         \A k \in 2..Len(f) : f[k] # f[1],
         \A i \in 1..Len(values) : ~Contains(values[i], f),
         NEW k \in 1..Len(values)
  PROVE  LET parts == PartsFrom(Join(values, f), f) IN
         parts[Start(values, f, k)] =
           IF k = Len(values) THEN <<values[k]>>
           ELSE <<values[k]>> \o parts[Start(values, f, k + 1)]
<1> DEFINE text == Join(values, f)
           at == Start(values, f, k)
           v == values[k]
           last == at + Len(v) - 1
           rest == From(text, at)
<1>1. /\ at \in Nat \ {0} /\ text \in Seq(C)
      /\ \A i \in 1..Len(v) : text[at + i - 1] = v[i]
      /\ k = Len(values) => Len(text) = last
      /\ k # Len(values) =>
           /\ Len(text) >= last + Len(f)
           /\ \A i \in 1..Len(f) : text[last + i] = f[i]
           /\ Start(values, f, k + 1) = last + Len(f) + 1
  <2>1. StandsThere(values, f, k)
    BY ValueInJoin
  <2>2. text \in Seq(C)
    BY JoinType
  <2> QED
    BY <2>1, <2>2 DEF StandsThere
<1>2. v \in Seq(C) /\ ~Contains(v, f)
  BY ElementOfSeq
<1> HIDE DEF text, at, v
<1>3. /\ Len(v) \in Nat /\ Len(f) \in Nat \ {0} /\ Len(text) \in Nat
      /\ at \in 1..Len(text) + 1
  <2>1. Len(v) \in Nat /\ Len(f) \in Nat \ {0} /\ Len(text) \in Nat
    BY <1>1, <1>2, LenProperties, EmptySeq
  <2> QED
    BY <1>1, <2>1
<1>4. /\ rest \in Seq(C) /\ Len(rest) = Len(text) - at + 1
      /\ \A i \in 1..Len(rest) : rest[i] = text[at + i - 1]
  BY <1>1, <1>3, FromProperties
<1>5. PartsFrom(text, f)[at] =
        IF Find(f, rest) = NoPosition THEN <<rest>>
        ELSE <<Between(rest, 1, Find(f, rest))>>
               \o PartsFrom(text, f)[at + Find(f, rest) - 1 + Len(f)]
  BY <1>1, <1>3, PartsAre
<1> HIDE DEF rest
<1>6. \A i \in 1..Len(v) : i \in 1..Len(rest) /\ rest[i] = v[i]
  <2>1. Len(rest) \in Nat /\ Len(v) <= Len(rest)
    <3>1. /\ Len(v) \in Nat /\ Len(f) \in Nat /\ Len(text) \in Nat /\ at \in Nat
          /\ Len(rest) = Len(text) - at + 1
      BY <1>1, <1>3, <1>4, LenProperties
    <3> QED
      BY <1>1, <3>1
  <2>2. TAKE i \in 1..Len(v)
  <2>3. i \in 1..Len(rest)
    BY <1>3, <2>1
  <2> QED
    BY <1>1, <1>4, <2>3
<1>7. Agrees(rest, Cat(v, f))
  <2>1. /\ Len(Cat(v, f)) = Len(v) + Len(f)
        /\ \A i \in 1..(Len(v) + Len(f)) :
             Cat(v, f)[i] = IF i <= Len(v) THEN v[i] ELSE f[i - Len(v)]
    BY <1>2, ConcatProperties DEF Cat
  <2>2. SUFFICES ASSUME NEW i \in 1..Len(rest), i <= Len(v) + Len(f)
                 PROVE  rest[i] = Cat(v, f)[i]
    BY <2>1 DEF Agrees
  <2>3. i \in 1..(Len(v) + Len(f)) /\ Len(rest) \in Nat
    BY <1>3, <1>4, <2>2
  <2>4. CASE i <= Len(v)
    <3>1. i \in 1..Len(v)
      BY <1>3, <2>3, <2>4
    <3>2. rest[i] = v[i]
      BY <1>6, <3>1
    <3>3. Cat(v, f)[i] = v[i]
      BY <2>1, <2>3, <2>4
    <3> QED
      BY <3>2, <3>3
  <2>5. CASE i > Len(v)
    <3>1. k # Len(values)
      BY <1>1, <1>3, <1>4, <2>5
    <3>2. i - Len(v) \in 1..Len(f) /\ at + i - 1 = last + (i - Len(v))
      BY <1>3, <2>3, <2>5
    <3>3. text[last + (i - Len(v))] = f[i - Len(v)]
      BY <1>1, <3>1, <3>2
    <3>4. rest[i] = f[i - Len(v)]
      BY <1>4, <3>2, <3>3
    <3>5. Cat(v, f)[i] = f[i - Len(v)]
      BY <1>3, <2>1, <2>3, <2>5
    <3> QED
      BY <3>4, <3>5
  <2> QED
    BY <1>3, <2>3, <2>4, <2>5
<1>8. Find(f, rest) = IF Len(rest) >= Len(v) + Len(f) THEN Len(v) + 1 ELSE NoPosition
  BY <1>2, <1>4, <1>7, FirstDelimiter
<1>9. CASE k = Len(values)
  <2>1. Len(rest) = Len(v)
    BY <1>1, <1>3, <1>4, <1>9
  <2>2. rest = v
    BY <1>2, <1>4, <1>6, <2>1, SeqEqual
  <2>3. Find(f, rest) = NoPosition
    BY <1>3, <1>8, <2>1
  <2>4. PartsFrom(text, f)[at] = <<v>>
    BY <1>5, <2>2, <2>3
  <2> QED
    BY <1>9, <2>4 DEF text, at, v
<1>10. CASE k # Len(values)
  <2>1. Len(rest) >= Len(v) + Len(f)
    BY <1>1, <1>3, <1>4, <1>10
  <2>2. Find(f, rest) = Len(v) + 1 /\ Find(f, rest) # NoPosition
    BY <1>3, <1>8, <2>1 DEF NoPosition
  <2>3. Between(rest, 1, Len(v) + 1) = v
    <3>1. Len(v) + 1 - 1 = Len(v) /\ Len(v) <= Len(rest) /\ Len(rest) \in Nat
      BY <1>3, <1>4, <2>1
    <3>2. \A i \in 1..Len(v) : rest[i] \in C
      BY <1>4, <3>1, ElementOfSeq
    <3>3. /\ SubSeq(rest, 1, Len(v)) \in Seq(C)
          /\ Len(SubSeq(rest, 1, Len(v))) = Len(v)
          /\ \A i \in 1..Len(v) : SubSeq(rest, 1, Len(v))[i] = rest[i]
      BY <1>3, <3>2, SubSeqProperties
    <3>4. SubSeq(rest, 1, Len(v)) = v
      BY <1>2, <1>6, <3>3, SeqEqual
    <3> QED
      BY <3>1, <3>4 DEF Between
  <2>4. at + Find(f, rest) - 1 + Len(f) = Start(values, f, k + 1)
    BY <1>1, <1>3, <1>10, <2>2
  <2>5. PartsFrom(text, f)[at] = <<v>> \o PartsFrom(text, f)[Start(values, f, k + 1)]
    BY <1>5, <2>2, <2>3, <2>4
  <2> QED
    BY <1>10, <2>5 DEF text, at, v
<1> QED
  BY <1>9, <1>10

\* Splitting undoes joining: values without the delimiter, the empty ones included,
\* come back as they were (ForwardUp's loop, gateway.cc:307-315, is the
\* inverse of SendResponse's, gateway.cc:151-161).
THEOREM SplitJoin ==
  ASSUME NEW C, NEW values \in Seq(Seq(C)), values # <<>>,
         NEW f \in Seq(C), f # <<>>, \A k \in 2..Len(f) : f[k] # f[1],
         \A i \in 1..Len(values) : ~Contains(values[i], f)
  PROVE  Split(Join(values, f), f) = values
<1> DEFINE N == Len(values)
           parts == PartsFrom(Join(values, f), f)
           Good(k) == parts[Start(values, f, k)] = SubSeq(values, k, N)
           Bad == {q \in 0..(N - 1) : ~Good(N - q)}
<1>1. N \in Nat \ {0}
  BY EmptySeq
<1>2. \A k \in 1..N :
        parts[Start(values, f, k)] =
          IF k = N THEN <<values[k]>>
          ELSE <<values[k]>> \o parts[Start(values, f, k + 1)]
  BY PartAt
<1> HIDE DEF parts, N
<1>3. Bad = {}
  <2>1. SUFFICES ASSUME Bad # {} PROVE FALSE
    OBVIOUS
  <2>2. PICK q \in Bad : \A r \in Bad : q <= r
    <3>1. Bad \in SUBSET Nat
      BY <1>1
    <3> HIDE DEF Bad
    <3> QED
      BY <2>1, <3>1, LeastNumber
  <2> DEFINE k == N - q
  <2>3. q \in 0..(N - 1) /\ k \in 1..N /\ ~Good(k) /\ N - 0 = N
    BY <1>1, <2>2
  <2>4. CASE q = 0
    <3>1. k = N
      BY <1>1, <2>4
    <3>2. SubSeq(values, N, N) = <<values[N]>>
      <4>1. N \in 1..Len(values) /\ N \in N..Len(values)
        BY <1>1 DEF N
      <4>2. SubSeq(values, N, N) = <<values[N]>> \o SubSeq(values, N + 1, N)
        BY <4>1, SubSeqRecursiveFirst
      <4>3. SubSeq(values, N + 1, N) = <<>>
        BY <1>1, SubSeqEmpty
      <4>4. <<values[N]>> \in Seq(Seq(C))
        BY <4>1, ElementOfSeq
      <4> QED
        BY <4>2, <4>3, <4>4, ConcatEmptySeq
    <3> QED
      BY <1>1, <1>2, <2>3, <3>1, <3>2
  <2>5. CASE q # 0
    <3>1. q - 1 \in 0..(N - 1) /\ N - (q - 1) = k + 1 /\ k # N /\ ~(q <= q - 1)
      BY <1>1, <2>3, <2>5
    <3>2. Good(k + 1)
      <4>1. q - 1 \notin Bad
        <5> HIDE DEF Bad
        <5> QED
          BY <2>2, <3>1
      <4>2. Good(N - (q - 1))
        BY <3>1, <4>1
      <4> HIDE DEF Good, k
      <4> QED
        BY <3>1, <4>2
    <3>3. SubSeq(values, k, N) = <<values[k]>> \o SubSeq(values, k + 1, N)
      <4>1. k \in 1..Len(values) /\ N \in k..Len(values)
        BY <1>1, <2>3 DEF N
      <4> HIDE DEF k
      <4> QED
        BY <4>1, SubSeqRecursiveFirst
    <3> QED
      BY <1>2, <2>3, <3>1, <3>2, <3>3
  <2> QED
    BY <2>4, <2>5
<1>4. Good(1)
  <2>1. N - 1 \in 0..(N - 1) /\ N - (N - 1) = 1
    BY <1>1
  <2> QED
    BY <1>3, <2>1
<1>5. SubSeq(values, 1, N) = values
  BY SubSeqFull DEF N
<1>6. Start(values, f, 1) = 1
  BY DEF Start
<1> QED
  BY <1>4, <1>5, <1>6 DEF Split, parts

\* What is split off is a sequence of texts.
LEMMA SplitType ==
  ASSUME NEW C, NEW text \in Seq(C), NEW d \in Seq(C), d # <<>>
  PROVE  Split(text, d) \in Seq(Seq(C))
<1> DEFINE parts == PartsFrom(text, d)
           L == Len(text) + 1
           Bad == {q \in 0..(L - 1) : parts[L - q] \notin Seq(Seq(C))}
<1>1. L \in Nat \ {0} /\ 1..L = 1..Len(text) + 1
  BY LenProperties
<1>2. \A p \in 1..L :
        /\ From(text, p) \in Seq(C)
        /\ Between(From(text, p), 1, Find(d, From(text, p))) \in Seq(C)
  <2>1. TAKE p \in 1..L
  <2>2. From(text, p) \in Seq(C)
    BY <1>1, FromProperties
  <2> DEFINE rest == From(text, p)
             i == Find(d, rest)
  <2> HIDE DEF rest
  <2>3. rest \in Seq(C)
    BY <2>2 DEF rest
  <2>4. i \in Nat /\ i - 1 <= Len(rest)
    <3>1. /\ Len(rest) \in Nat
          /\ i = NoPosition \/ i \in 1..Len(rest)
      BY <2>3, FindIsFirst, LenProperties DEF i
    <3> HIDE DEF i
    <3> QED
      BY <3>1 DEF NoPosition
  <2>5. SubSeq(rest, 1, i - 1) \in Seq(C)
    BY <2>3, <2>4, ElementOfSeq, LenProperties, SubSeqProperties
  <2> QED
    BY <2>3, <2>5 DEF Between, rest
<1>3. \A p \in 1..L :
        parts[p] =
          IF Find(d, From(text, p)) = NoPosition THEN <<From(text, p)>>
          ELSE <<Between(From(text, p), 1, Find(d, From(text, p)))>>
                 \o parts[p + Find(d, From(text, p)) - 1 + Len(d)]
  BY <1>1, PartsAre
<1>4. \A p \in 1..L : Find(d, From(text, p)) # NoPosition =>
        p + Find(d, From(text, p)) - 1 + Len(d) \in p + 1..L
  BY <1>1, BehindDelimiter
<1> HIDE DEF parts, L
<1>5. Bad = {}
  <2>1. SUFFICES ASSUME Bad # {} PROVE FALSE
    OBVIOUS
  <2>2. PICK q \in Bad : \A r \in Bad : q <= r
    <3>1. Bad \in SUBSET Nat
      BY <1>1
    <3> HIDE DEF Bad
    <3> QED
      BY <2>1, <3>1, LeastNumber
  <2> DEFINE p == L - q
             rest == From(text, p)
             i == Find(d, rest)
             next == p + i - 1 + Len(d)
  <2>3. q \in 0..(L - 1) /\ p \in 1..L /\ parts[p] \notin Seq(Seq(C))
    BY <1>1, <2>2
  <2>4. rest \in Seq(C) /\ Between(rest, 1, i) \in Seq(C)
    BY <1>2, <2>3
  <2>5. i # NoPosition
    <3>1. i = NoPosition => parts[p] = <<rest>>
      BY <1>3, <2>3
    <3>2. <<rest>> \in Seq(Seq(C))
      BY <2>4
    <3> HIDE DEF p, rest, i
    <3> QED
      BY <2>3, <3>1, <3>2
  <2>6. next \in p + 1..L
    BY <1>4, <2>3, <2>5
  <2>7. parts[p] = <<Between(rest, 1, i)>> \o parts[next]
    BY <1>3, <2>3, <2>5
  <2> HIDE DEF rest, i, next
  <2>8. L - next \in 0..(L - 1) /\ L - (L - next) = next /\ ~(q <= L - next)
    BY <1>1, <2>3, <2>6
  <2>9. parts[next] \in Seq(Seq(C))
    <3>1. L - next \notin Bad
      <4> HIDE DEF Bad
      <4> QED
        BY <2>2, <2>8
    <3>2. parts[L - (L - next)] \in Seq(Seq(C))
      BY <2>8, <3>1
    <3> QED
      BY <2>8, <3>2
  <2>10. <<Between(rest, 1, i)>> \in Seq(Seq(C))
    BY <2>4
  <2>11. <<Between(rest, 1, i)>> \o parts[next] \in Seq(Seq(C))
    BY <2>9, <2>10, ConcatProperties
  <2> QED
    BY <2>3, <2>7, <2>11
<1>6. parts[1] \in Seq(Seq(C))
  <2>1. L - 1 \in 0..(L - 1) /\ L - (L - 1) = 1
    BY <1>1
  <2> QED
    BY <1>5, <2>1
<1> QED
  BY <1>6 DEF Split, parts

\* The text of characters of C is cut in two at i by the delimiter d, which is not in
\* the first part.
IsCut(C, text, d, i) ==
  /\ i \in 1..Len(text) /\ i + Len(d) - 1 <= Len(text)
  /\ Between(text, 1, i) \in Seq(C) /\ Len(Between(text, 1, i)) = i - 1
  /\ From(text, i + Len(d)) \in Seq(C)
  /\ text = Cat(Between(text, 1, i), Cat(d, From(text, i + Len(d))))
  /\ ~Contains(Between(text, 1, i), d)

LEMMA FirstCut ==
  ASSUME NEW C, NEW text \in Seq(C), NEW d \in Seq(C), d # <<>>,
         Find(d, text) # NoPosition
  PROVE  IsCut(C, text, d, Find(d, text))
<1> DEFINE i == Find(d, text)
           L == Len(text)
           n == Len(d)
           before == SubSeq(text, 1, i - 1)
           after == SubSeq(text, i + n, L)
<1>1. L \in Nat /\ n \in Nat \ {0} /\ \A j \in 1..L : text[j] \in C
  BY LenProperties, ElementOfSeq, EmptySeq
<1>2. /\ i \in 1..L /\ OccursAt(d, text, i)
      /\ \A j \in Occurrences(d, text) : i <= j
  BY FindIsFirst
<1> HIDE DEF i
<1>3. /\ i + n - 1 <= L
      /\ \A k \in 1..n : text[i + k - 1] = d[k]
  BY <1>1, <1>2 DEF OccursAt
<1>4. /\ before \in Seq(C) /\ Len(before) = i - 1
      /\ \A j \in 1..(i - 1) : before[j] = text[j]
  <2>1. /\ 1 \in Int /\ i - 1 \in Int
        /\ \A j \in 1..(i - 1) : text[j] \in C
    BY <1>1, <1>2
  <2>2. /\ before \in Seq(C)
        /\ Len(before) = IF 1 <= i - 1 THEN (i - 1) - 1 + 1 ELSE 0
        /\ \A j \in 1..(i - 1) - 1 + 1 : before[j] = text[1 + j - 1]
    BY <2>1, SubSeqProperties
  <2> QED
    BY <1>1, <1>2, <2>2
<1>5. after \in Seq(C)
  <2>1. /\ i + n \in Int /\ L \in Int
        /\ \A j \in (i + n)..L : text[j] \in C
    BY <1>1, <1>2
  <2> QED
    BY <2>1, SubSeqProperties
<1>6. SubSeq(text, i, i + n - 1) = d
  <2>1. /\ i \in Int /\ i + n - 1 \in Int
        /\ \A j \in i..(i + n - 1) : text[j] \in C
    BY <1>1, <1>2, <1>3
  <2>2. /\ SubSeq(text, i, i + n - 1) \in Seq(C)
        /\ Len(SubSeq(text, i, i + n - 1)) =
             IF i <= i + n - 1 THEN (i + n - 1) - i + 1 ELSE 0
        /\ \A j \in 1..(i + n - 1) - i + 1 :
             SubSeq(text, i, i + n - 1)[j] = text[i + j - 1]
    BY <2>1, SubSeqProperties
  <2>3. /\ Len(SubSeq(text, i, i + n - 1)) = n
        /\ \A j \in 1..n : SubSeq(text, i, i + n - 1)[j] = d[j]
    BY <1>1, <1>2, <1>3, <2>2
  <2> QED
    BY <2>2, <2>3, SeqEqual
<1>7. text = before \o (d \o after)
  <2>1. SubSeq(text, 1, L) = text
    BY SubSeqFull
  <2>2. SubSeq(text, i, L) = d \o after
    <3>1. /\ i \in 1..Len(text) + 1 /\ i + n - 1 \in i - 1..Len(text)
          /\ L \in i + n - 1..Len(text) /\ (i + n - 1) + 1 = i + n
      BY <1>1, <1>2, <1>3
    <3>2. SubSeq(text, i, i + n - 1) \o SubSeq(text, (i + n - 1) + 1, L) = SubSeq(text, i, L)
      BY <3>1, ConcatAdjacentSubSeq
    <3> QED
      BY <1>6, <3>1, <3>2
  <2>3. before \o SubSeq(text, i, L) = SubSeq(text, 1, L)
    <3>1. /\ 1 \in 1..Len(text) + 1 /\ i - 1 \in 1 - 1..Len(text)
          /\ L \in i - 1..Len(text) /\ (i - 1) + 1 = i
      BY <1>1, <1>2
    <3>2. SubSeq(text, 1, i - 1) \o SubSeq(text, (i - 1) + 1, L) = SubSeq(text, 1, L)
      BY <3>1, ConcatAdjacentSubSeq
    <3> QED
      BY <3>1, <3>2
  <2> QED
    BY <2>1, <2>2, <2>3
<1>8. ~Contains(before, d)
  <2>1. SUFFICES ASSUME NEW j \in 1..Len(before), OccursAt(d, before, j) PROVE FALSE
    BY DEF Contains, Occurrences
  <2>2. /\ j \in 1..(i - 1) /\ j + n - 1 <= i - 1
        /\ \A k \in 1..n : before[j + k - 1] = d[k]
    BY <1>4, <2>1 DEF OccursAt
  <2>3. \A k \in 1..n : text[j + k - 1] = d[k]
    BY <1>1, <1>2, <1>4, <2>2
  <2>4. j \in Occurrences(d, text)
    BY <1>1, <1>2, <2>2, <2>3 DEF Occurrences, OccursAt
  <2> QED
    BY <1>1, <1>2, <2>2, <2>4
<1> QED
  BY <1>2, <1>3, <1>4, <1>5, <1>7, <1>8 DEF Between, From, Cat, IsCut, i

-----------------------------------------------------------------------------
(* Numbers written in decimal and read again.                              *)

\* Each digit stands for its number, and is neither a blank nor a sign.
LEMMA DigitIs ==
  ASSUME NEW k \in 0..9
  PROVE  /\ Numerals[k + 1] \in DOMAIN Digit /\ Digit[Numerals[k + 1]] = k
         /\ Numerals[k + 1] \notin Blanks /\ Numerals[k + 1] \notin {"-", "+"}
<1> DEFINE numeral(j) == Numerals[j + 1]
<1>1. /\ numeral(0) = "0" /\ numeral(1) = "1" /\ numeral(2) = "2" /\ numeral(3) = "3"
      /\ numeral(4) = "4" /\ numeral(5) = "5" /\ numeral(6) = "6" /\ numeral(7) = "7"
      /\ numeral(8) = "8" /\ numeral(9) = "9"
  BY DEF Numerals
<1>2. DOMAIN Digit = {numeral(j) : j \in 0..9}
  BY DEF Digit
<1>3. \A d \in DOMAIN Digit : Digit[d] = CHOOSE j \in 0..9 : numeral(j) = d
  BY DEF Digit
<1> HIDE DEF numeral
<1>4. \A j \in 0..9 : \/ j = 0 \/ j = 1 \/ j = 2 \/ j = 3 \/ j = 4
                      \/ j = 5 \/ j = 6 \/ j = 7 \/ j = 8 \/ j = 9
  OBVIOUS
<1>5. \A i, j \in 0..9 : numeral(i) = numeral(j) => i = j
  <2> SUFFICES ASSUME NEW i \in 0..9, NEW j \in 0..9, numeral(i) = numeral(j)
               PROVE  i = j
    OBVIOUS
  <2> QED
    BY <1>1, <1>4
<1>6. numeral(k) \in DOMAIN Digit
  BY <1>2
<1>7. Digit[numeral(k)] = k
  BY <1>3, <1>5, <1>6
<1>8. numeral(k) \notin Blanks /\ numeral(k) \notin {"-", "+"}
  BY <1>1, <1>4 DEF Blanks
<1> QED
  BY <1>6, <1>7, <1>8 DEF numeral

\* There is one number of characters that lead.
LEMMA LeadingIs ==
  ASSUME NEW text, Len(text) \in Nat, NEW set, NEW n \in 0..Len(text),
         \A i \in 1..n : text[i] \in set, n < Len(text) => text[n + 1] \notin set
  PROVE  Leading(text, set) = n
<1> DEFINE Leads(m) == /\ \A i \in 1..m : text[i] \in set
                       /\ m < Len(text) => text[m + 1] \notin set
<1>1. Leads(n)
  OBVIOUS
<1>2. ASSUME NEW m \in 0..Len(text), Leads(m)
      PROVE  m = n
  <2>1. CASE m < n
    <3>1. m < Len(text) /\ m + 1 \in 1..n
      BY <2>1
    <3> QED
      BY <1>1, <1>2, <3>1
  <2>2. CASE n < m
    <3>1. n < Len(text) /\ n + 1 \in 1..m
      BY <2>2
    <3> QED
      BY <1>1, <1>2, <3>1
  <2> QED
    BY <2>1, <2>2
<1>3. Leading(text, set) = CHOOSE m \in 0..Len(text) : Leads(m)
  BY DEF Leading
<1> HIDE DEF Leads
<1> QED
  BY <1>1, <1>2, <1>3

\* What values the first n digits.
IsValued(f, digits, N) ==
  f = [n \in 0..N |-> IF n = 0 THEN 0 ELSE 10 * f[n - 1] + Digit[digits[n]]]

LEMMA ValuedExists ==
  ASSUME NEW digits, NEW N \in Nat
  PROVE  \E f : IsValued(f, digits, N)
<1> DEFINE Bad == {n \in Nat : ~ \E f : IsValued(f, digits, n)}
<1>1. SUFFICES ASSUME Bad # {} PROVE FALSE
  OBVIOUS
<1>2. PICK n \in Bad : \A m \in Bad : n <= m
  <2>1. Bad \in SUBSET Nat
    OBVIOUS
  <2> HIDE DEF Bad
  <2> QED
    BY <1>1, <2>1, LeastNumber
<1>3. CASE n = 0
  <2>1. IsValued([k \in 0..0 |-> 0], digits, 0)
    BY DEF IsValued
  <2> QED
    BY <1>2, <1>3, <2>1
<1>4. CASE n # 0
  <2>1. n - 1 \in Nat /\ n - 1 \notin Bad
    BY <1>2, <1>4
  <2>2. PICK f : IsValued(f, digits, n - 1)
    BY <2>1
  <2> DEFINE last == 10 * f[n - 1] + Digit[digits[n]]
             g == [k \in 0..n |-> IF k = n THEN last ELSE f[k]]
             h == [k \in 0..n |-> IF k = 0 THEN 0 ELSE 10 * g[k - 1] + Digit[digits[k]]]
  <2>3. \A k \in 0..n : g[k] = h[k]
    <3>1. \A k \in 0..(n - 1) :
            f[k] = IF k = 0 THEN 0 ELSE 10 * f[k - 1] + Digit[digits[k]]
      BY <2>2 DEF IsValued
    <3>2. \A k \in 0..(n - 1) : g[k] = f[k]
      BY <1>2
    <3>3. TAKE k \in 0..n
    <3>4. CASE k = n
      BY <1>2, <1>4, <3>2, <3>4
    <3>5. CASE k # n
      <4>1. k \in 0..(n - 1) /\ g[k] = f[k]
        BY <1>2, <3>2, <3>5
      <4>2. k # 0 => g[k - 1] = f[k - 1]
        BY <4>1, <3>2
      <4> QED
        BY <3>1, <4>1, <4>2
    <3> QED
      BY <3>4, <3>5
  <2>4. g = h
    BY <2>3
  <2>5. IsValued(g, digits, n)
    BY <2>4 DEF IsValued
  <2> QED
    BY <1>2, <2>5
<1> QED
  BY <1>3, <1>4

LEMMA ValuedIs ==
  ASSUME NEW digits, Len(digits) \in Nat
  PROVE  \A n \in 0..Len(digits) :
           Valued(digits)[n] =
             IF n = 0 THEN 0 ELSE 10 * Valued(digits)[n - 1] + Digit[digits[n]]
<1>1. PICK f : IsValued(f, digits, Len(digits))
  BY ValuedExists
<1>2. IsValued(Valued(digits), digits, Len(digits))
  BY <1>1 DEF Valued, IsValued
<1> QED
  BY <1>2 DEF IsValued

\* What the first digits stand for does not depend on what follows.
LEMMA ValuedPrefix ==
  ASSUME NEW s, NEW t, Len(s) \in Nat, Len(t) \in Nat, Len(s) <= Len(t),
         \A i \in 1..Len(s) : t[i] = s[i], NEW n \in 0..Len(s)
  PROVE  Valued(t)[n] = Valued(s)[n]
<1> DEFINE Bad == {m \in 0..Len(s) : Valued(t)[m] # Valued(s)[m]}
<1>1. SUFFICES ASSUME Bad # {} PROVE FALSE
  OBVIOUS
<1>2. PICK m \in Bad : \A k \in Bad : m <= k
  <2>1. Bad \in SUBSET Nat
    OBVIOUS
  <2> HIDE DEF Bad
  <2> QED
    BY <1>1, <2>1, LeastNumber
<1>3. m \in 0..Len(s) /\ m \in 0..Len(t) /\ Valued(t)[m] # Valued(s)[m]
  BY <1>2
<1>4. /\ Valued(s)[m] = IF m = 0 THEN 0 ELSE 10 * Valued(s)[m - 1] + Digit[s[m]]
      /\ Valued(t)[m] = IF m = 0 THEN 0 ELSE 10 * Valued(t)[m - 1] + Digit[t[m]]
  BY <1>3, ValuedIs
<1>5. m # 0
  BY <1>3, <1>4
<1>6. m - 1 \in 0..Len(s) /\ m - 1 \notin Bad /\ m \in 1..Len(s)
  BY <1>2, <1>3, <1>5
<1>7. Valued(t)[m - 1] = Valued(s)[m - 1] /\ t[m] = s[m]
  BY <1>6
<1> QED
  BY <1>3, <1>4, <1>5, <1>7

\* What writes the numbers up to N.
IsDecimals(f, N) ==
  f = [k \in 0..N |-> IF k < 10 THEN <<Numerals[k + 1]>>
                      ELSE f[k \div 10] \o <<Numerals[(k % 10) + 1]>>]

\* A number of several digits has a last one and others.
LEMMA LastDigit ==
  ASSUME NEW k \in Nat
  PROVE  /\ k \div 10 \in Nat /\ k % 10 \in 0..9 /\ k = 10 * (k \div 10) + (k % 10)
         /\ k >= 10 => k \div 10 < k
OBVIOUS

LEMMA DecimalsExist ==
  ASSUME NEW N \in Nat
  PROVE  \E f : IsDecimals(f, N)
<1> DEFINE Bad == {n \in Nat : ~ \E f : IsDecimals(f, n)}
<1>1. SUFFICES ASSUME Bad # {} PROVE FALSE
  OBVIOUS
<1>2. PICK n \in Bad : \A m \in Bad : n <= m
  <2>1. Bad \in SUBSET Nat
    OBVIOUS
  <2> HIDE DEF Bad
  <2> QED
    BY <1>1, <2>1, LeastNumber
<1>3. CASE n = 0
  <2>1. IsDecimals([k \in 0..0 |-> <<Numerals[k + 1]>>], 0)
    BY DEF IsDecimals
  <2> QED
    BY <1>2, <1>3, <2>1
<1>4. CASE n # 0
  <2>1. n - 1 \in Nat /\ n - 1 \notin Bad
    BY <1>2, <1>4
  <2>2. PICK f : IsDecimals(f, n - 1)
    BY <2>1
  <2> DEFINE Next(g, k) == IF k < 10 THEN <<Numerals[k + 1]>>
                           ELSE g[k \div 10] \o <<Numerals[(k % 10) + 1]>>
             new == [k \in 0..n |-> IF k = n THEN Next(f, n) ELSE f[k]]
  <2>3. \A k \in 0..(n - 1) : f[k] = Next(f, k) /\ new[k] = f[k]
    <3>1. f = [k \in 0..(n - 1) |-> Next(f, k)]
      BY <2>2 DEF IsDecimals
    <3>2. TAKE k \in 0..(n - 1)
    <3>3. k \in 0..n /\ k # n
      BY <1>2
    <3>4. new[k] = f[k]
      BY <3>3
    <3> HIDE DEF Next
    <3>5. f[k] = Next(f, k)
      BY <3>1
    <3> QED
      BY <3>4, <3>5
  <2>4. new[n] = Next(f, n)
    BY <1>2
  <2>5. \A k \in 0..n : Next(new, k) = Next(f, k)
    <3>1. TAKE k \in 0..n
    <3>2. CASE k < 10
      BY <3>2
    <3>3. CASE k >= 10
      <4>1. k \div 10 \in Nat /\ k \div 10 < k
        BY <1>2, <3>3, LastDigit
      <4>2. k \div 10 \in 0..(n - 1)
        BY <1>2, <4>1
      <4> QED
        BY <2>3, <4>2
    <3> QED
      BY <1>2, <3>2, <3>3
  <2> DEFINE made == [k \in 0..n |-> Next(new, k)]
  <2>6. \A k \in 0..n : new[k] = made[k]
    <3>1. TAKE k \in 0..n
    <3>2. k = n \/ k \in 0..(n - 1)
      BY <1>2
    <3>3. new[k] = Next(f, k)
      BY <2>3, <2>4, <3>2
    <3>4. made[k] = Next(new, k)
      OBVIOUS
    <3> QED
      BY <2>5, <3>3, <3>4
  <2>7. new = made
    <3>1. DOMAIN new = 0..n /\ DOMAIN made = 0..n
      OBVIOUS
    <3> QED
      BY <2>6
  <2>8. IsDecimals(new, n)
    BY <2>7 DEF IsDecimals
  <2> QED
    BY <1>2, <2>8
<1> QED
  BY <1>3, <1>4

LEMMA DecimalsAre ==
  ASSUME NEW N \in Nat
  PROVE  \A k \in 0..N :
           Decimals(N)[k] = IF k < 10 THEN <<Numerals[k + 1]>>
                            ELSE Decimals(N)[k \div 10] \o <<Numerals[(k % 10) + 1]>>
<1>1. PICK f : IsDecimals(f, N)
  BY DecimalsExist
<1>2. IsDecimals(Decimals(N), N)
  BY <1>1 DEF Decimals, IsDecimals
<1> QED
  BY <1>2 DEF IsDecimals

\* The text is that of the number k: one digit or more, that stand for k.
StandsFor(s, k) ==
  s \in Seq(DOMAIN Digit) /\ Len(s) >= 1 /\ Valued(s)[Len(s)] = k

LEMMA OneDigit ==
  ASSUME NEW k \in 0..9
  PROVE  StandsFor(<<Numerals[k + 1]>>, k)
<1> DEFINE s == <<Numerals[k + 1]>>
<1>1. Numerals[k + 1] \in DOMAIN Digit /\ Digit[Numerals[k + 1]] = k
  BY DigitIs
<1>2. s \in Seq(DOMAIN Digit) /\ Len(s) = 1 /\ s[1] = Numerals[k + 1]
  BY <1>1
<1> HIDE DEF s
<1>3. Valued(s)[0] = 0 /\ Valued(s)[1] = 10 * Valued(s)[0] + Digit[s[1]]
  BY <1>2, ValuedIs
<1>4. Valued(s)[1] = k
  BY <1>1, <1>2, <1>3
<1> QED
  BY <1>2, <1>4 DEF StandsFor, s

LEMMA MoreDigits ==
  ASSUME NEW q \in Nat, NEW t, StandsFor(t, q), NEW r \in 0..9
  PROVE  StandsFor(t \o <<Numerals[r + 1]>>, 10 * q + r)
<1> DEFINE last == <<Numerals[r + 1]>>
           s == t \o last
<1>1. Numerals[r + 1] \in DOMAIN Digit /\ Digit[Numerals[r + 1]] = r
  BY DigitIs
<1>2. last \in Seq(DOMAIN Digit) /\ Len(last) = 1 /\ last[1] = Numerals[r + 1]
  BY <1>1
<1>3. t \in Seq(DOMAIN Digit) /\ Len(t) \in Nat /\ Valued(t)[Len(t)] = q
  BY LenProperties DEF StandsFor
<1> HIDE DEF last
<1>4. /\ s \in Seq(DOMAIN Digit) /\ Len(s) = Len(t) + 1
      /\ \A i \in 1..Len(t) : s[i] = t[i]
      /\ s[Len(t) + 1] = last[1]
  <2>1. /\ s \in Seq(DOMAIN Digit) /\ Len(s) = Len(t) + Len(last)
        /\ \A i \in 1..(Len(t) + Len(last)) :
             s[i] = IF i <= Len(t) THEN t[i] ELSE last[i - Len(t)]
    BY <1>2, <1>3, ConcatProperties
  <2> HIDE DEF s
  <2> QED
    BY <1>2, <1>3, <2>1
<1> HIDE DEF s
<1>5. PICK n \in Nat : n = Len(t)
  BY <1>3
<1>6. Valued(s)[n] = q
  <2>1. Len(t) \in Nat /\ Len(s) \in Nat /\ Len(t) <= Len(s) /\ n \in 0..Len(t)
    BY <1>3, <1>4, <1>5
  <2>2. Valued(s)[n] = Valued(t)[n]
    BY <1>4, <2>1, ValuedPrefix
  <2> QED
    BY <1>3, <1>5, <2>2
<1>7. n + 1 \in 0..Len(s) /\ n + 1 # 0 /\ n + 1 - 1 = n
  BY <1>4, <1>5
<1>8. Valued(s)[n + 1] = 10 * Valued(s)[n + 1 - 1] + Digit[s[n + 1]]
  BY <1>4, <1>5, <1>7, ValuedIs
<1>9. Valued(s)[n + 1] = 10 * q + r
  BY <1>1, <1>2, <1>4, <1>5, <1>6, <1>7, <1>8
<1> QED
  BY <1>4, <1>5, <1>9 DEF StandsFor, s, last

LEMMA DecimalsStand ==
  ASSUME NEW N \in Nat, NEW k \in 0..N
  PROVE  StandsFor(Decimals(N)[k], k)
<1> DEFINE Bad == {m \in 0..N : ~StandsFor(Decimals(N)[m], m)}
<1>1. SUFFICES ASSUME Bad # {} PROVE FALSE
  OBVIOUS
<1>2. PICK m \in Bad : \A j \in Bad : m <= j
  <2>1. Bad \in SUBSET Nat
    OBVIOUS
  <2> HIDE DEF Bad
  <2> QED
    BY <1>1, <2>1, LeastNumber
<1>3. m \in 0..N /\ ~StandsFor(Decimals(N)[m], m)
  BY <1>2
<1>4. Decimals(N)[m] = IF m < 10 THEN <<Numerals[m + 1]>>
                       ELSE Decimals(N)[m \div 10] \o <<Numerals[(m % 10) + 1]>>
  BY <1>3, DecimalsAre
<1>5. CASE m < 10
  <2>1. m \in 0..9 /\ Decimals(N)[m] = <<Numerals[m + 1]>>
    BY <1>3, <1>4, <1>5
  <2> QED
    BY <1>3, <2>1, OneDigit
<1>6. CASE m >= 10
  <2>1. PICK q \in Nat, r \in 0..9 :
          q = m \div 10 /\ r = m % 10 /\ m = 10 * q + r /\ q < m
    BY <1>3, <1>6, LastDigit
  <2>2. Decimals(N)[m] = Decimals(N)[q] \o <<Numerals[r + 1]>>
    <3>1. ~(m < 10)
      BY <1>3, <1>6
    <3>2. Decimals(N)[m] = Decimals(N)[m \div 10] \o <<Numerals[(m % 10) + 1]>>
      BY <1>4, <3>1
    <3> QED
      BY <2>1, <3>2
  <2>3. q \in 0..N /\ q \notin Bad
    BY <1>2, <1>3, <2>1
  <2>4. StandsFor(Decimals(N)[q], q)
    BY <2>3
  <2> QED
    BY <1>3, <2>1, <2>2, <2>4, MoreDigits
<1> QED
  BY <1>3, <1>5, <1>6

\* A whole text is a part of itself.
LEMMA WholeText ==
  ASSUME NEW C, NEW s \in Seq(C)
  PROVE  From(s, 1) = s /\ Between(s, 1, Len(s) + 1) = s
<1>1. Len(s) + 1 - 1 = Len(s)
  BY LenProperties
<1> QED
  BY <1>1, SubSeqFull DEF From, Between

\* The text of a number is read as its digits only.
LEMMA ReadDigits ==
  ASSUME NEW k, NEW s, StandsFor(s, k)
  PROVE  /\ s # <<>> /\ s[1] \notin Blanks /\ s[1] \notin {"-", "+"}
         /\ Between(s, 1, Leading(s, DOMAIN Digit) + 1) = s
<1>1. s \in Seq(DOMAIN Digit) /\ Len(s) \in Nat /\ Len(s) >= 1
  BY LenProperties DEF StandsFor
<1>2. \A i \in 1..Len(s) : s[i] \in DOMAIN Digit
  BY <1>1, ElementOfSeq
<1>3. s # <<>>
  BY <1>1, EmptySeq
<1>4. PICK j \in 0..9 : s[1] = Numerals[j + 1]
  BY <1>1, <1>2 DEF Digit
<1>5. Leading(s, DOMAIN Digit) = Len(s)
  <2>1. Len(s) \in 0..Len(s) /\ ~(Len(s) < Len(s))
    BY <1>1
  <2> QED
    BY <1>1, <1>2, <2>1, LeadingIs
<1> QED
  BY <1>1, <1>3, <1>4, <1>5, DigitIs, WholeText

\* What stoi and stol make of a text without blanks before it.
LEMMA ReadsAtOnce ==
  ASSUME NEW C, NEW text \in Seq(C), text # <<>>, text[1] \notin Blanks,
         NEW s, s = IF text[1] \in {"-", "+"} THEN Tail(text) ELSE text,
         NEW k, StandsFor(s, k)
  PROVE  ToInteger(text) = IF text[1] = "-" THEN -k ELSE k
<1>1. Len(text) \in Nat /\ Len(text) >= 1
  BY LenProperties, EmptySeq
<1>2. Leading(text, Blanks) = 0
  <2>1. 0 \in 0..Len(text) /\ 0 + 1 = 1 /\ \A i \in 1..0 : FALSE
    BY <1>1
  <2> QED
    BY <1>1, <2>1, LeadingIs
<1>3. From(text, Leading(text, Blanks) + 1) = text
  BY <1>2, WholeText
<1>4. Unsigned(text) = s
  BY <1>3 DEF Unsigned
<1>5. DigitsOf(text) = s
  BY <1>4, ReadDigits DEF DigitsOf
<1>6. Valued(s)[Len(s)] = k
  BY DEF StandsFor
<1> QED
  BY <1>3, <1>5, <1>6 DEF ToInteger

\* A number that std::to_string has written is read as that number.
THEOREM DecimalRead ==
  ASSUME NEW n \in Int
  PROVE  ToInteger(Decimal(n)) = n
<1>1. CASE n >= 0
  <2>1. PICK s : s = Decimals(n)[n]
    OBVIOUS
  <2>2. StandsFor(s, n)
    BY <1>1, <2>1, DecimalsStand
  <2>3. s \in Seq(DOMAIN Digit) /\ s # <<>> /\ s[1] \notin Blanks /\ s[1] \notin {"-", "+"}
    BY <2>2, ReadDigits DEF StandsFor
  <2>4. ToInteger(s) = n
    BY <2>2, <2>3, ReadsAtOnce
  <2> QED
    BY <1>1, <2>1, <2>4 DEF Decimal
<1>2. CASE n < 0
  <2>1. PICK s : s = Decimals(-n)[-n]
    OBVIOUS
  <2>2. PICK k \in Nat : k = -n
    BY <1>2
  <2>3. StandsFor(s, k)
    BY <2>1, <2>2, DecimalsStand
  <2>4. PICK text : text = <<"-">> \o s
    OBVIOUS
  <2> DEFINE C == DOMAIN Digit \cup {"-"}
  <2>5. s \in Seq(C) /\ <<"-">> \in Seq(C) /\ Len(<<"-">>) = 1 /\ <<"-">>[1] = "-"
    <3>1. s \in Seq(DOMAIN Digit)
      BY <2>3 DEF StandsFor
    <3> QED
      BY <3>1
  <2> HIDE DEF C
  <2>6. /\ text \in Seq(C) /\ Len(text) = 1 + Len(s) /\ Len(s) \in Nat
        /\ text[1] = "-" /\ \A i \in 1..Len(s) : text[i + 1] = s[i]
    <3>1. /\ text \in Seq(C) /\ Len(text) = 1 + Len(s)
          /\ \A i \in 1..(1 + Len(s)) :
               text[i] = IF i <= 1 THEN <<"-">>[i] ELSE s[i - 1]
      BY <2>4, <2>5, ConcatProperties
    <3>2. Len(s) \in Nat
      BY <2>5, LenProperties
    <3>3. \A i \in 1..Len(s) :
            i + 1 \in 1..(1 + Len(s)) /\ ~(i + 1 <= 1) /\ i + 1 - 1 = i
      BY <3>2
    <3>4. 1 \in 1..(1 + Len(s)) /\ 1 <= 1
      BY <3>2
    <3> QED
      BY <2>5, <3>1, <3>2, <3>3, <3>4
  <2>7. text # <<>> /\ Tail(text) = s
    <3>1. text # <<>>
      BY <2>6, EmptySeq
    <3>2. /\ Tail(text) \in Seq(C) /\ Len(Tail(text)) = Len(text) - 1
          /\ \A i \in 1..Len(Tail(text)) : Tail(text)[i] = text[i + 1]
      BY <2>6, <3>1, HeadTailProperties
    <3>3. Len(Tail(text)) = Len(s)
      BY <2>6, <3>2
    <3> QED
      BY <2>5, <2>6, <3>1, <3>2, <3>3, SeqEqual
  <2>8. text[1] \notin Blanks /\ text[1] \in {"-", "+"}
    BY <2>6 DEF Blanks
  <2>9. ToInteger(text) = -k
    BY <2>3, <2>6, <2>7, <2>8, ReadsAtOnce
  <2> QED
    BY <1>2, <2>1, <2>2, <2>4, <2>9 DEF Decimal
<1> QED
  BY <1>1, <1>2
=============================================================================
