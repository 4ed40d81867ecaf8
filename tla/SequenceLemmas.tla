--------------------------- MODULE SequenceLemmas ---------------------------
(***************************************************************************)
(* What appending, taking the head and removing an element do to the       *)
(* elements of a sequence, to a sequence without repetitions, and to one   *)
(* in the order of its elements' numbers; what is left of a sequence when  *)
(* it is filtered; how many values that differ are; and what moving a      *)
(* sample from one place to another does to samples that are in one place  *)
(* each.  The transport's queues are such sequences, and such places.      *)
(***************************************************************************)
EXTENDS Naturals, SequencesExt, SequenceTheorems, FiniteSetTheorems,
        WellFoundedInduction, TLAPS

\* RemoveAt takes one element out of a sequence and keeps the others.
LEMMA RemoveAtProperties ==
    ASSUME NEW S, NEW s \in Seq(S), NEW i \in 1..Len(s)
    PROVE  /\ RemoveAt(s, i) \in Seq(S)
           /\ Len(RemoveAt(s, i)) = Len(s) - 1
           /\ \A j \in 1..(Len(s) - 1) :
                 RemoveAt(s, i)[j] = IF j < i THEN s[j] ELSE s[j + 1]
<1> DEFINE front == SubSeq(s, 1, i - 1)
           back == SubSeq(s, i + 1, Len(s))
<1>1. Len(s) \in Nat /\ \A j \in 1..Len(s) : s[j] \in S
  BY LenProperties, ElementOfSeq
<1>2. /\ front \in Seq(S)
      /\ Len(front) = i - 1
      /\ \A j \in 1..(i - 1) : front[j] = s[j]
  BY <1>1, SubSeqProperties
<1>3. /\ back \in Seq(S)
      /\ Len(back) = Len(s) - i
      /\ \A j \in 1..(Len(s) - i) : back[j] = s[i + j]
  <2>1. \A j \in (i + 1)..Len(s) : s[j] \in S
    BY <1>1
  <2>2. /\ back \in Seq(S)
        /\ Len(back) = IF i + 1 <= Len(s) THEN Len(s) - (i + 1) + 1 ELSE 0
        /\ \A j \in 1..(Len(s) - (i + 1) + 1) : back[j] = s[(i + 1) + j - 1]
    BY <1>1, <2>1, SubSeqProperties
  <2> QED
    BY <1>1, <2>2
<1>4. /\ front \o back \in Seq(S)
      /\ Len(front \o back) = Len(front) + Len(back)
      /\ \A j \in 1..(Len(front) + Len(back)) :
            (front \o back)[j] = IF j <= Len(front) THEN front[j]
                                                    ELSE back[j - Len(front)]
  BY <1>2, <1>3, ConcatProperties
<1>5. RemoveAt(s, i) = front \o back
  BY DEF RemoveAt
<1> HIDE DEF front, back
<1>6. Len(RemoveAt(s, i)) = Len(s) - 1
  <2>1. Len(RemoveAt(s, i)) = Len(front) + Len(back)
    BY <1>4, <1>5, Zenon
  <2>2. Len(front) = i - 1 /\ Len(back) = Len(s) - i
    BY <1>2, <1>3, Zenon
  <2> QED
    BY <1>1, <2>1, <2>2
<1>7. ASSUME NEW j \in 1..(Len(s) - 1)
      PROVE  RemoveAt(s, i)[j] = IF j < i THEN s[j] ELSE s[j + 1]
  <2>1. CASE j < i
    <3>1. j \in 1..(i - 1) /\ j <= Len(front) /\ j \in 1..(Len(front) + Len(back))
      BY <1>1, <1>2, <1>3, <2>1
    <3> QED
      BY <1>2, <1>4, <1>5, <2>1, <3>1
  <2>2. CASE j >= i
    <3>1. /\ ~(j <= Len(front)) /\ j \in 1..(Len(front) + Len(back))
          /\ j - (i - 1) \in 1..(Len(s) - i) /\ i + (j - (i - 1)) = j + 1
      BY <1>1, <1>2, <1>3, <2>2
    <3> QED
      BY <1>2, <1>3, <1>4, <1>5, <2>2, <3>1
  <2> QED
    BY <1>1, <2>1, <2>2
<1> QED
  BY <1>4, <1>5, <1>6, <1>7

\* The elements of a sequence are its values at the indices up to its length.
LEMMA ElementsOf ==
    ASSUME NEW S, NEW s \in Seq(S)
    PROVE  /\ ToSet(s) \in SUBSET S
           /\ \A x : x \in ToSet(s) <=> \E i \in 1..Len(s) : s[i] = x
           /\ IsInjective(s) <=> \A i, j \in 1..Len(s) : s[i] = s[j] => i = j
<1>1. DOMAIN s = 1..Len(s) /\ \A i \in 1..Len(s) : s[i] \in S
  BY LenProperties, ElementOfSeq
<1> QED
  BY <1>1 DEF ToSet, IsInjective

LEMMA EmptyElements == ToSet(<<>>) = {} /\ IsInjective(<<>>)
BY DEF ToSet, IsInjective

\* What is appended is one more element.
LEMMA AppendElements ==
    ASSUME NEW S, NEW s \in Seq(S), NEW x \in S
    PROVE  /\ ToSet(Append(s, x)) = ToSet(s) \cup {x}
           /\ IsInjective(s) /\ x \notin ToSet(s) => IsInjective(Append(s, x))
<1>1. /\ Append(s, x) \in Seq(S) /\ Len(s) \in Nat
      /\ Len(Append(s, x)) = Len(s) + 1
      /\ \A i \in 1..Len(s) : Append(s, x)[i] = s[i]
      /\ Append(s, x)[Len(s) + 1] = x
  BY AppendProperties, LenProperties
<1>2. \A i \in 1..(Len(s) + 1) : i \in 1..Len(s) \/ i = Len(s) + 1
  BY <1>1
<1>3. \A i \in 1..Len(s) : i \in 1..(Len(s) + 1)
  BY <1>1
<1>4. Len(s) + 1 \in 1..(Len(s) + 1)
  BY <1>1
<1>5. ToSet(Append(s, x)) = ToSet(s) \cup {x}
  <2> DEFINE t == Append(s, x)
  <2>0. t \in Seq(S) /\ Len(t) = Len(s) + 1
    BY <1>1
  <2> HIDE DEF t
  <2>1. \A y : y \in ToSet(t) <=> \E i \in 1..(Len(s) + 1) : t[i] = y
    BY <2>0, ElementsOf
  <2>2. \A y : y \in ToSet(s) <=> \E i \in 1..Len(s) : s[i] = y
    BY ElementsOf
  <2> QED
    BY <1>1, <1>2, <1>3, <1>4, <2>1, <2>2 DEF t
<1>6. ASSUME IsInjective(s), x \notin ToSet(s),
             NEW i \in 1..(Len(s) + 1), NEW j \in 1..(Len(s) + 1),
             Append(s, x)[i] = Append(s, x)[j]
      PROVE  i = j
  <2>1. /\ \A y : y \in ToSet(s) <=> \E k \in 1..Len(s) : s[k] = y
        /\ \A k, l \in 1..Len(s) : s[k] = s[l] => k = l
    BY <1>6, ElementsOf
  <2> QED
    BY <1>1, <1>2, <1>6, <2>1
<1> QED
  BY <1>1, <1>5, <1>6, ElementsOf

\* What is removed from a sequence without repetitions is no longer in it.
LEMMA RemoveAtElements ==
    ASSUME NEW S, NEW s \in Seq(S), IsInjective(s), NEW i \in 1..Len(s)
    PROVE  /\ ToSet(RemoveAt(s, i)) = ToSet(s) \ {s[i]}
           /\ IsInjective(RemoveAt(s, i))
<1> DEFINE t == RemoveAt(s, i)
<1>1. /\ t \in Seq(S) /\ Len(s) \in Nat /\ Len(t) = Len(s) - 1
      /\ \A j \in 1..(Len(s) - 1) : t[j] = IF j < i THEN s[j] ELSE s[j + 1]
  BY RemoveAtProperties, LenProperties
<1> HIDE DEF t
<1>2. \A j \in 1..(Len(s) - 1) : j \in 1..Len(s) /\ j + 1 \in 1..Len(s)
  BY <1>1
<1>3. \A j \in 1..Len(s) : (j < i \/ j > i \/ j = i) /\ (j < i => j \in 1..(Len(s) - 1))
         /\ (j > i => j - 1 \in 1..(Len(s) - 1) /\ ~(j - 1 < i) /\ (j - 1) + 1 = j)
  BY <1>1
<1>4. /\ \A j, k \in 1..Len(s) : s[j] = s[k] => j = k
      /\ \A x : x \in ToSet(s) <=> \E j \in 1..Len(s) : s[j] = x
      /\ \A x : x \in ToSet(t) <=> \E j \in 1..(Len(s) - 1) : t[j] = x
  BY <1>1, ElementsOf
<1>5. ASSUME NEW x \in ToSet(t) PROVE x \in ToSet(s) \ {s[i]}
  <2>1. PICK j \in 1..(Len(s) - 1) : t[j] = x
    BY <1>4, <1>5
  <2>2. CASE j < i
    BY <1>1, <1>2, <1>4, <2>1, <2>2
  <2>3. CASE ~(j < i)
    <3>1. j + 1 # i
      BY <2>3
    <3> QED
      BY <1>1, <1>2, <1>4, <2>1, <2>3, <3>1
  <2> QED
    BY <2>2, <2>3
<1>6. ASSUME NEW x \in ToSet(s) \ {s[i]} PROVE x \in ToSet(t)
  <2>1. PICK j \in 1..Len(s) : s[j] = x
    BY <1>4, <1>6
  <2>2. CASE j < i
    BY <1>1, <1>3, <1>4, <2>1, <2>2
  <2>3. CASE j > i
    <3>1. t[j - 1] = s[j] /\ j - 1 \in 1..(Len(s) - 1)
      BY <1>1, <1>3, <2>3
    <3> QED
      BY <1>4, <2>1, <3>1
  <2> QED
    BY <1>3, <1>6, <2>1, <2>2, <2>3
<1>7. ASSUME NEW j \in 1..(Len(s) - 1), NEW k \in 1..(Len(s) - 1), t[j] = t[k]
      PROVE  j = k
  <2>1. t[j] = (IF j < i THEN s[j] ELSE s[j + 1]) /\ t[k] = (IF k < i THEN s[k] ELSE s[k + 1])
    BY <1>1
  <2>2. j \in Nat /\ k \in Nat /\ i \in Nat
    BY <1>1
  <2>3. CASE j < i /\ k < i
    BY <1>2, <1>4, <1>7, <2>1, <2>3
  <2>4. CASE ~(j < i) /\ ~(k < i)
    <3>1. j + 1 = k + 1
      BY <1>2, <1>4, <1>7, <2>1, <2>4
    <3> QED
      BY <2>2, <3>1
  <2>5. CASE j < i /\ ~(k < i)
    <3>1. j = k + 1
      BY <1>2, <1>4, <1>7, <2>1, <2>5
    <3> QED
      BY <2>2, <2>5, <3>1
  <2>6. CASE ~(j < i) /\ k < i
    <3>1. j + 1 = k
      BY <1>2, <1>4, <1>7, <2>1, <2>6
    <3> QED
      BY <2>2, <2>6, <3>1
  <2> QED
    BY <2>3, <2>4, <2>5, <2>6
<1> QED
  BY <1>1, <1>5, <1>6, <1>7, ElementsOf DEF t

\* A sequence is its head and the elements of its tail.
LEMMA TailElements ==
    ASSUME NEW S, NEW s \in Seq(S), s # <<>>
    PROVE  /\ Head(s) \in ToSet(s) /\ ToSet(s) = ToSet(Tail(s)) \cup {Head(s)}
           /\ IsInjective(s) => /\ ToSet(Tail(s)) = ToSet(s) \ {Head(s)}
                                /\ IsInjective(Tail(s))
<1> DEFINE t == Tail(s)
           h == Head(s)
<1>1. /\ t \in Seq(S) /\ Len(s) \in Nat \ {0} /\ Len(t) = Len(s) - 1
      /\ h = s[1] /\ \A j \in 1..(Len(s) - 1) : t[j] = s[j + 1]
  BY HeadTailProperties, LenProperties, EmptySeq
<1> HIDE DEF t, h
<1>2. \A j \in 1..(Len(s) - 1) : j + 1 \in 1..Len(s) /\ j + 1 # 1
  BY <1>1
<1>3. 1 \in 1..Len(s) /\ \A j \in 1..Len(s) :
         j = 1 \/ (j - 1 \in 1..(Len(s) - 1) /\ (j - 1) + 1 = j)
  BY <1>1
<1>0. /\ \A x : x \in ToSet(t) <=> \E j \in 1..Len(t) : t[j] = x
      /\ IsInjective(t) <=> \A j, k \in 1..Len(t) : t[j] = t[k] => j = k
  BY <1>1, ElementsOf
<1>4. /\ \A x : x \in ToSet(s) <=> \E j \in 1..Len(s) : s[j] = x
      /\ \A x : x \in ToSet(t) <=> \E j \in 1..(Len(s) - 1) : t[j] = x
      /\ IsInjective(s) <=> \A j, k \in 1..Len(s) : s[j] = s[k] => j = k
      /\ IsInjective(t) <=> \A j, k \in 1..(Len(s) - 1) : t[j] = t[k] => j = k
  <2>1. /\ \A x : x \in ToSet(s) <=> \E j \in 1..Len(s) : s[j] = x
        /\ IsInjective(s) <=> \A j, k \in 1..Len(s) : s[j] = s[k] => j = k
    BY ElementsOf
  <2>2. Len(t) = Len(s) - 1
    BY <1>1
  <2> QED
    BY <1>0, <2>1, <2>2, Zenon
<1>5. ToSet(s) = ToSet(t) \cup {h}
  <2>1. ASSUME NEW x \in ToSet(s) PROVE x \in ToSet(t) \cup {h}
    <3>1. PICK j \in 1..Len(s) : s[j] = x
      BY <1>4
    <3>2. j = 1 \/ (j - 1 \in 1..(Len(s) - 1) /\ t[j - 1] = x)
      BY <1>1, <1>3, <3>1
    <3> QED
      BY <1>1, <1>4, <3>1, <3>2
  <2>2. \A x \in ToSet(t) \cup {h} : x \in ToSet(s)
    BY <1>1, <1>2, <1>3, <1>4
  <2> QED
    BY <2>1, <2>2
<1>6. ASSUME IsInjective(s)
      PROVE  h \notin ToSet(t) /\ IsInjective(t)
  <2>1. h \notin ToSet(t)
    BY <1>1, <1>2, <1>3, <1>4, <1>6
  <2>2. ASSUME NEW j \in 1..(Len(s) - 1), NEW k \in 1..(Len(s) - 1), t[j] = t[k]
        PROVE  j = k
    <3>2. j + 1 \in 1..Len(s) /\ k + 1 \in 1..Len(s) /\ s[j + 1] = s[k + 1]
      BY <1>1, <1>2, <2>2
    <3>1. j + 1 = k + 1
      BY <1>4, <1>6, <3>2, Zenon
    <3> QED
      BY <1>1, <3>1
  <2> QED
    BY <1>4, <2>1, <2>2
<1> QED
  BY <1>5, <1>6 DEF t, h

-----------------------------------------------------------------------------

\* The samples of a sequence are in the order of their numbers.
Ordered(s) == \A i, j \in 1..Len(s) : i < j => s[i].id < s[j].id

LEMMA EmptyOrdered == Ordered(<<>>)
BY EmptySeq DEF Ordered

LEMMA AppendOrdered ==
    ASSUME NEW S, NEW s \in Seq(S), Ordered(s), NEW x \in S,
           \A y \in ToSet(s) : y.id < x.id
    PROVE  Ordered(Append(s, x))
<1> DEFINE t == Append(s, x)
<1>1. /\ Len(s) \in Nat /\ Len(t) = Len(s) + 1 /\ t[Len(s) + 1] = x
      /\ \A i \in 1..Len(s) : t[i] = s[i]
  BY AppendProperties, LenProperties
<1>2. \A i \in 1..Len(s) : s[i] \in ToSet(s)
  BY ElementsOf
<1> HIDE DEF t
<1> SUFFICES ASSUME NEW i \in 1..Len(t), NEW j \in 1..Len(t), i < j
             PROVE  t[i].id < t[j].id
  BY DEF Ordered, t
<1>3. i \in 1..Len(s) /\ (j \in 1..Len(s) \/ j = Len(s) + 1)
  BY <1>1
<1> QED
  BY <1>1, <1>2, <1>3 DEF Ordered

LEMMA TailOrdered ==
    ASSUME NEW S, NEW s \in Seq(S), Ordered(s), s # <<>>
    PROVE  /\ Ordered(Tail(s))
           /\ \A y \in ToSet(Tail(s)) : Head(s).id < y.id
<1> DEFINE t == Tail(s)
           h == Head(s)
<1>1. /\ t \in Seq(S) /\ Len(s) \in Nat \ {0} /\ Len(t) = Len(s) - 1
      /\ h = s[1] /\ \A i \in 1..Len(t) : t[i] = s[i + 1]
  BY HeadTailProperties, LenProperties, EmptySeq
<1> HIDE DEF t, h
<1>2. \A i \in 1..Len(t) : i + 1 \in 1..Len(s) /\ 1 < i + 1
  BY <1>1
<1>3. 1 \in 1..Len(s)
  BY <1>1
<1>4. Ordered(t)
  <2> SUFFICES ASSUME NEW i \in 1..Len(t), NEW j \in 1..Len(t), i < j
               PROVE  t[i].id < t[j].id
    BY DEF Ordered
  <2>1. i + 1 < j + 1
    BY <1>1
  <2> QED
    BY <1>1, <1>2, <2>1 DEF Ordered
<1>5. ASSUME NEW y \in ToSet(t) PROVE h.id < y.id
  <2>1. PICK i \in 1..Len(t) : t[i] = y
    BY <1>1, ElementsOf
  <2> QED
    BY <1>1, <1>2, <1>3, <2>1 DEF Ordered
<1> QED
  BY <1>4, <1>5 DEF t, h

LEMMA RemoveAtOrdered ==
    ASSUME NEW S, NEW s \in Seq(S), Ordered(s), NEW i \in 1..Len(s)
    PROVE  Ordered(RemoveAt(s, i))
<1> DEFINE t == RemoveAt(s, i)
<1>1. /\ t \in Seq(S) /\ Len(s) \in Nat /\ Len(t) = Len(s) - 1
      /\ \A j \in 1..(Len(s) - 1) : t[j] = IF j < i THEN s[j] ELSE s[j + 1]
  BY RemoveAtProperties, LenProperties
<1> HIDE DEF t
<1> SUFFICES ASSUME NEW j \in 1..Len(t), NEW k \in 1..Len(t), j < k
             PROVE  t[j].id < t[k].id
  BY DEF Ordered, t
<1>2. /\ j \in 1..Len(s) /\ j + 1 \in 1..Len(s) /\ k \in 1..Len(s) /\ k + 1 \in 1..Len(s)
      /\ j < k + 1 /\ j + 1 < k + 1 /\ (~(j < i) => ~(k < i))
  BY <1>1
<1> QED
  BY <1>1, <1>2 DEF Ordered

-----------------------------------------------------------------------------
(* Filtered sequences *)

\* A set of naturals with 0 and the successor of each of its elements has them all.
LEMMA SetInduction ==
    ASSUME NEW T, 0 \in T, \A n \in Nat : n \in T => n + 1 \in T
    PROVE  \A n \in Nat : n \in T
<1> DEFINE R == OpToRel(<, Nat)
           Out == {n \in Nat : n \notin T}
<1>1. IsWellFoundedOn(R, Nat)
  BY NatLessThanWellFounded
<1>2. \A k, m \in Nat : <<k, m>> \in R <=> k < m
  BY DEF OpToRel
<1> SUFFICES ASSUME Out # {} PROVE FALSE
  OBVIOUS
<1>3. PICK m \in Out : \A k \in Out : ~(<<k, m>> \in R)
  <2> HIDE DEF R
  <2> QED
    BY <1>1, WFMin
<1>4. m \in Nat /\ m # 0 /\ m - 1 \in Nat /\ (m - 1) + 1 = m /\ m - 1 < m
  OBVIOUS
<1>5. m - 1 \in T
  BY <1>2, <1>3, <1>4
<1> QED
  BY <1>4, <1>5

\* What is kept of the first i elements of s: those in T.
KeptOf(f, s, T) ==
    f = [i \in 0..Len(s) |->
           IF i = 0 THEN <<>>
           ELSE IF s[i] \in T THEN Append(f[i - 1], s[i]) ELSE f[i - 1]]

\* Such a function exists.
LEMMA KeptExists ==
    ASSUME NEW S, NEW s \in Seq(S), NEW T
    PROVE  \E f : KeptOf(f, s, T)
<1> DEFINE Step(g, i) == IF s[i] \in T THEN Append(g[i - 1], s[i]) ELSE g[i - 1]
           UpTo(g, n) == g = [i \in 0..n |-> IF i = 0 THEN <<>> ELSE Step(g, i)]
           N == {n \in Nat : \E g : UpTo(g, n)}
<1>1. 0 \in N
  <2> DEFINE g == [i \in 0..0 |-> <<>>]
  <2>1. UpTo(g, 0)
    OBVIOUS
  <2> HIDE DEF UpTo, g
  <2> QED
    BY <2>1
<1>2. ASSUME NEW n \in Nat, n \in N PROVE n + 1 \in N
  <2>1. PICK g : UpTo(g, n)
    BY <1>2
  <2> DEFINE h == [i \in 0..(n + 1) |-> IF i = n + 1 THEN Step(g, n + 1) ELSE g[i]]
  <2>2. \A i \in 0..n : g[i] = IF i = 0 THEN <<>> ELSE Step(g, i)
    BY <2>1
  <2>3. \A i \in 0..n : h[i] = g[i]
    OBVIOUS
  <2>4. ASSUME NEW i \in 0..(n + 1) PROVE h[i] = IF i = 0 THEN <<>> ELSE Step(h, i)
    <3>1. CASE i = n + 1
      <4>1. (n + 1) - 1 = n /\ n \in 0..n /\ n + 1 # 0
        OBVIOUS
      <4>2. h[(n + 1) - 1] = g[(n + 1) - 1]
        BY <2>3, <4>1
      <4>3. h[i] = Step(g, n + 1)
        BY <3>1
      <4> HIDE DEF h
      <4> QED
        BY <3>1, <4>1, <4>2, <4>3
    <3>2. CASE i # n + 1
      <4>1. i \in 0..n /\ (i # 0 => i - 1 \in 0..n)
        BY <3>2
      <4>2. h[i] = g[i] /\ (i # 0 => h[i - 1] = g[i - 1])
        BY <2>3, <4>1
      <4> HIDE DEF h
      <4> QED
        BY <2>2, <4>1, <4>2
    <3> QED
      BY <3>1, <3>2
  <2>5. h = [i \in 0..(n + 1) |-> h[i]]
    OBVIOUS
  <2> HIDE DEF h
  <2>6. UpTo(h, n + 1)
    BY <2>4, <2>5
  <2> HIDE DEF UpTo
  <2> QED
    BY <2>6
<1>3. Len(s) \in N
  <2>1. Len(s) \in Nat
    BY LenProperties
  <2> HIDE DEF N
  <2> QED
    BY <1>1, <1>2, <2>1, SetInduction
<1> QED
  BY <1>3 DEF KeptOf

\* It gives sequences of the elements that are in T, each as often as it was.
LEMMA KeptElements ==
    ASSUME NEW S, NEW s \in Seq(S), NEW T, NEW f, KeptOf(f, s, T)
    PROVE  /\ f[Len(s)] \in Seq(S)
           /\ ToSet(f[Len(s)]) = ToSet(s) \cap T
           /\ IsInjective(s) => IsInjective(f[Len(s)])
<1> DEFINE Good(n) == /\ f[n] \in Seq(S)
                      /\ \A x : x \in ToSet(f[n]) <=> x \in T /\ \E j \in 1..n : s[j] = x
                      /\ IsInjective(s) => IsInjective(f[n])
           N == {n \in Nat : n <= Len(s) => Good(n)}
<1>0. /\ Len(s) \in Nat /\ \A j \in 1..Len(s) : s[j] \in S
      /\ \A i \in 0..Len(s) : f[i] = IF i = 0 THEN <<>>
            ELSE IF s[i] \in T THEN Append(f[i - 1], s[i]) ELSE f[i - 1]
  BY LenProperties, ElementOfSeq DEF KeptOf
<1>1. 0 \in N
  <2>1. f[0] = <<>>
    BY <1>0
  <2>2. Good(0)
    BY <2>1, EmptySeq, EmptyElements
  <2> HIDE DEF Good
  <2> QED
    BY <2>2
<1>2. ASSUME NEW n \in Nat, n \in N, n + 1 <= Len(s) PROVE Good(n + 1)
  <2>1. /\ n <= Len(s) /\ n + 1 \in 1..Len(s) /\ n + 1 \in 0..Len(s)
        /\ (n + 1) - 1 = n /\ n + 1 # 0
    BY <1>0, <1>2
  <2>2. Good(n)
    <3> HIDE DEF Good
    <3> QED
      BY <1>2, <2>1
  <2>3. f[n + 1] = IF s[n + 1] \in T THEN Append(f[n], s[n + 1]) ELSE f[n]
    BY <1>0, <2>1
  <2>4. \A j : j \in 1..(n + 1) <=> j \in 1..n \/ j = n + 1
    BY <1>2
  <2>5. CASE s[n + 1] \notin T
    BY <2>2, <2>3, <2>4, <2>5
  <2>6. CASE s[n + 1] \in T
    <3> DEFINE g == f[n]
               e == s[n + 1]
    <3>1. f[n + 1] = Append(g, e) /\ g \in Seq(S) /\ e \in S
      BY <1>0, <2>1, <2>2, <2>3, <2>6
    <3>2. /\ \A x : x \in ToSet(g) <=> x \in T /\ \E j \in 1..n : s[j] = x
          /\ IsInjective(s) => IsInjective(g)
      BY <2>2
    <3>3. IsInjective(s) => e \notin ToSet(g)
      <4>1. IsInjective(s) => \A i, j \in 1..Len(s) : s[i] = s[j] => i = j
        BY ElementsOf
      <4>2. \A j \in 1..n : j \in 1..Len(s) /\ j # n + 1
        BY <1>0, <1>2
      <4> QED
        BY <2>1, <3>2, <4>1, <4>2
    <3> HIDE DEF g, e
    <3>4. /\ Append(g, e) \in Seq(S) /\ ToSet(Append(g, e)) = ToSet(g) \cup {e}
          /\ IsInjective(s) => IsInjective(Append(g, e))
      BY <3>1, <3>2, <3>3, AppendElements, AppendProperties
    <3>5. ASSUME NEW x
          PROVE  x \in ToSet(f[n + 1]) <=> x \in T /\ \E j \in 1..(n + 1) : s[j] = x
      BY <2>4, <2>6, <3>1, <3>2, <3>4 DEF e
    <3> QED
      BY <3>1, <3>4, <3>5
  <2> QED
    BY <2>5, <2>6
<1>3. Len(s) \in N
  <2>1. \A n \in Nat : n \in N => n + 1 \in N
    <3> HIDE DEF Good
    <3> QED
      BY <1>2
  <2> HIDE DEF N
  <2> QED
    BY <1>0, <1>1, <2>1, SetInduction
<1>4. Good(Len(s))
  <2> HIDE DEF Good
  <2> QED
    BY <1>0, <1>3
<1> QED
  <2>1. \A x : x \in ToSet(s) <=> \E j \in 1..Len(s) : s[j] = x
    BY ElementsOf
  <2> QED
    BY <1>4, <2>1

-----------------------------------------------------------------------------
(* Values that differ *)

\* The values of N places that all differ are N.
LEMMA CountValues ==
    ASSUME NEW N \in Nat, NEW V, NEW f \in [1..N -> V],
           \A v \in V : \E i \in 1..N : f[i] = v,
           \A i, j \in 1..N : f[i] = f[j] => i = j
    PROVE  Cardinality(V) = N
<1>1. f \in Injection(1..N, V)
  BY DEF Injection, IsInjective
<1>2. f \in Surjection(1..N, V)
  BY DEF Surjection
<1>3. ExistsBijection(1..N, V)
  BY <1>1, <1>2 DEF Bijection, ExistsBijection
<1> QED
  BY <1>3, FS_CountingElements

-----------------------------------------------------------------------------
(* Samples in places *)

\* Contents of places, with the samples numbered 1 to n each in one of them.
Apart(P, C, n) ==
    /\ \A p \in P : \A s \in C[p] : s.id \in 1..n
    /\ \A p, q \in P : \A s \in C[p], t \in C[q] : s.id = t.id => p = q /\ s = t
    /\ \A m \in 1..n : \E p \in P : \E s \in C[p] : s.id = m

\* C with the sample s in the place p as well, and with it moved from p to q.
Put(C, p, s) == [C EXCEPT ![p] = @ \cup {s}]
Move(C, p, q, s) == [C EXCEPT ![p] = @ \ {s}, ![q] = @ \cup {s}]

LEMMA PutApart ==
    ASSUME NEW P, NEW S, NEW C \in [P -> SUBSET S],
           NEW n \in Nat, Apart(P, C, n),
           NEW p \in P, NEW s \in S, s.id = n + 1
    PROVE  /\ Put(C, p, s) \in [P -> SUBSET S]
           /\ Apart(P, Put(C, p, s), n + 1)
<1> DEFINE D == Put(C, p, s)
<1>1. D \in [P -> SUBSET S]
  BY DEF Put
<1>2. \A q \in P : D[q] = IF q = p THEN C[q] \cup {s} ELSE C[q]
  BY DEF Put
<1> HIDE DEF D
<1>0. \A q \in P : \A t \in C[q] : t.id \in 1..n
  BY DEF Apart
<1>3. \A q \in P : \A t \in D[q] : (t \in C[q] /\ t.id \in 1..n) \/ (q = p /\ t = s)
  BY <1>0, <1>2
<1>4. \A q \in P : \A t \in D[q] : t.id \in 1..(n + 1)
  BY <1>3
<1>5. ASSUME NEW q \in P, NEW r \in P, NEW t \in D[q], NEW u \in D[r], t.id = u.id
      PROVE  q = r /\ t = u
  <2>1. CASE t.id = n + 1
    <3>1. \A k \in 1..n : k # n + 1
      OBVIOUS
    <3>2. ~(t.id \in 1..n) /\ ~(u.id \in 1..n)
      BY <1>5, <2>1, <3>1
    <3> QED
      BY <1>3, <3>2
  <2>2. CASE t.id # n + 1
    <3>1. t \in C[q] /\ u \in C[r]
      BY <1>3, <1>5, <2>2
    <3> QED
      BY <1>5, <3>1 DEF Apart
  <2> QED
    BY <2>1, <2>2
<1>6. ASSUME NEW m \in 1..(n + 1)
      PROVE  \E q \in P : \E t \in D[q] : t.id = m
  <2>1. CASE m = n + 1
    BY <1>2, <2>1
  <2>2. CASE m \in 1..n
    BY <1>2, <2>2 DEF Apart
  <2> QED
    BY <2>1, <2>2
<1> QED
  BY <1>1, <1>4, <1>5, <1>6 DEF D, Apart

LEMMA MoveApart ==
    ASSUME NEW P, NEW S, NEW C \in [P -> SUBSET S],
           NEW n \in Nat, Apart(P, C, n),
           NEW p \in P, NEW q \in P, p # q, NEW s \in C[p]
    PROVE  /\ Move(C, p, q, s) \in [P -> SUBSET S]
           /\ Apart(P, Move(C, p, q, s), n)
<1> DEFINE D == Move(C, p, q, s)
<1>0. s \in S
  OBVIOUS
<1>1. D \in [P -> SUBSET S]
  BY <1>0 DEF Move
<1>2. \A r \in P : D[r] = IF r = p THEN C[r] \ {s}
                               ELSE IF r = q THEN C[r] \cup {s} ELSE C[r]
  BY DEF Move
<1> HIDE DEF D
<1>3. \A r \in P : \A t \in D[r] : (t \in C[r] /\ t # s) \/ (r = q /\ t = s)
  <2> SUFFICES ASSUME NEW r \in P, NEW t \in D[r], t # s PROVE t \in C[r]
    <3>1. \A r \in P : r # p => s \notin C[r]
      BY DEF Apart
    <3> QED
      BY <1>2, <3>1
  <2> QED
    BY <1>2
<1>4. \A r \in P : \A t \in D[r] : t.id \in 1..n
  BY <1>3 DEF Apart
<1>5. ASSUME NEW r \in P, NEW v \in P, NEW t \in D[r], NEW u \in D[v], t.id = u.id
      PROVE  r = v /\ t = u
  <2>1. CASE t = s
    BY <1>3, <1>5, <2>1 DEF Apart
  <2>2. CASE u = s
    BY <1>3, <1>5, <2>2 DEF Apart
  <2>3. CASE t # s /\ u # s
    BY <1>3, <1>5, <2>3 DEF Apart
  <2> QED
    BY <2>1, <2>2, <2>3
<1>6. ASSUME NEW m \in 1..n
      PROVE  \E r \in P : \E t \in D[r] : t.id = m
  <2>0. PICK r \in P : \E t \in C[r] : t.id = m
    BY DEF Apart
  <2>1. PICK t \in C[r] : t.id = m
    BY <2>0
  <2>2. CASE t = s
    BY <1>2, <2>1, <2>2
  <2>3. CASE t # s
    BY <1>2, <2>1, <2>3
  <2> QED
    BY <2>2, <2>3
<1> QED
  BY <1>1, <1>4, <1>5, <1>6 DEF D, Apart

=============================================================================
