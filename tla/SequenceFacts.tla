--------------------------- MODULE SequenceFacts ---------------------------
(***************************************************************************)
(* What the operators on sequences do to the set of their elements and to  *)
(* their being distinct: the facts that the proofs about queues rest on.   *)
(***************************************************************************)
EXTENDS Integers, SequencesExt, TLAPS

\* Taking one element out of a sequence leaves a sequence.
LEMMA RemoveAtType ==
  ASSUME NEW S, NEW s \in Seq(S), NEW i \in 1 .. Len(s)
  PROVE  RemoveAt(s, i) \in Seq(S)
BY DEF RemoveAt

\* Cons builds a sequence.
LEMMA ConsType ==
  ASSUME NEW S, NEW s \in Seq(S), NEW e \in S
  PROVE  Cons(e, s) \in Seq(S)
BY DEF Cons

\* The elements of a sequence over S are in S.
LEMMA ToSetType ==
  ASSUME NEW S, NEW s \in Seq(S)
  PROVE  ToSet(s) \subseteq S
BY DEF ToSet

\* A non-empty sequence splits into head and tail.
LEMMA HeadTailType ==
  ASSUME NEW S, NEW s \in Seq(S), s # <<>>
  PROVE  Head(s) \in S /\ Tail(s) \in Seq(S)
OBVIOUS

\* Append adds one element, and keeps the elements distinct if it is new.
LEMMA AppendSet ==
  ASSUME NEW S, NEW s \in Seq(S), NEW e \in S
  PROVE  /\ ToSet(Append(s, e)) = ToSet(s) \cup {e}
         /\ IsInjective(s) /\ e \notin ToSet(s) => IsInjective(Append(s, e))
<1>1. ASSUME NEW x \in ToSet(s) \cup {e}  PROVE x \in ToSet(Append(s, e))
  <2>1. CASE x = e
    <3>1. Append(s, e)[Len(s) + 1] = e /\ Len(s) + 1 \in DOMAIN Append(s, e)
      OBVIOUS
    <3> QED
      BY <2>1, <3>1 DEF ToSet
  <2>2. CASE x \in ToSet(s)
    <3>1. PICK i \in 1 .. Len(s) : s[i] = x
      BY <2>2 DEF ToSet
    <3>2. Append(s, e)[i] = x /\ i \in DOMAIN Append(s, e)
      BY <3>1
    <3> QED
      BY <3>2 DEF ToSet
  <2> QED
    BY <1>1, <2>1, <2>2
<1>2. ToSet(Append(s, e)) \subseteq ToSet(s) \cup {e}
  BY DEF ToSet
<1>3. IsInjective(s) /\ e \notin ToSet(s) => IsInjective(Append(s, e))
  BY DEF IsInjective, ToSet
<1> QED
  BY <1>1, <1>2, <1>3

\* Concatenation unites the elements, and keeps disjoint distinct ones distinct.
LEMMA ConcatSet ==
  ASSUME NEW S, NEW s \in Seq(S), NEW r \in Seq(S)
  PROVE  /\ ToSet(s \o r) = ToSet(s) \cup ToSet(r)
         /\ IsInjective(s) /\ IsInjective(r) /\ ToSet(s) \cap ToSet(r) = {}
              => IsInjective(s \o r)
<1>1. ASSUME NEW x \in ToSet(s)  PROVE x \in ToSet(s \o r)
  <2>1. PICK i \in 1 .. Len(s) : s[i] = x
    BY <1>1 DEF ToSet
  <2>2. (s \o r)[i] = x /\ i \in DOMAIN (s \o r)
    BY <2>1
  <2> QED
    BY <2>2 DEF ToSet
<1>2. ASSUME NEW x \in ToSet(r)  PROVE x \in ToSet(s \o r)
  <2>1. PICK i \in 1 .. Len(r) : r[i] = x
    BY <1>2 DEF ToSet
  <2>2. (s \o r)[Len(s) + i] = x /\ Len(s) + i \in DOMAIN (s \o r)
    BY <2>1
  <2> QED
    BY <2>2 DEF ToSet
<1>3. ASSUME NEW i \in DOMAIN (s \o r)
      PROVE  \/ i \in 1 .. Len(s) /\ (s \o r)[i] = s[i]
             \/ i - Len(s) \in 1 .. Len(r) /\ (s \o r)[i] = r[i - Len(s)]
  BY <1>3
<1>4. ToSet(s \o r) \subseteq ToSet(s) \cup ToSet(r)
  BY <1>3 DEF ToSet
<1>5. ASSUME IsInjective(s), IsInjective(r), ToSet(s) \cap ToSet(r) = {}
      PROVE  IsInjective(s \o r)
  <2> SUFFICES ASSUME NEW i \in DOMAIN (s \o r), NEW j \in DOMAIN (s \o r),
                      (s \o r)[i] = (s \o r)[j]
               PROVE  i = j
    BY DEF IsInjective
  <2>1. /\ i \in 1 .. Len(s) => (s \o r)[i] \in ToSet(s)
        /\ j \in 1 .. Len(s) => (s \o r)[j] \in ToSet(s)
        /\ i \notin 1 .. Len(s) => (s \o r)[i] \in ToSet(r)
        /\ j \notin 1 .. Len(s) => (s \o r)[j] \in ToSet(r)
    BY <1>3 DEF ToSet
  <2>2. i \in 1 .. Len(s) <=> j \in 1 .. Len(s)
    BY <1>5, <2>1
  <2> QED
    BY <1>3, <1>5, <2>2 DEF IsInjective
<1> QED
  BY <1>1, <1>2, <1>4, <1>5

\* Cons is the concatenation with a sequence of one element.
LEMMA ConsSet ==
  ASSUME NEW S, NEW s \in Seq(S), NEW e \in S
  PROVE  /\ ToSet(Cons(e, s)) = ToSet(s) \cup {e}
         /\ IsInjective(s) /\ e \notin ToSet(s) => IsInjective(Cons(e, s))
<1> DEFINE one == <<e>>
<1>1. one \in Seq(S) /\ ToSet(one) = {e} /\ IsInjective(one)
  BY DEF ToSet, IsInjective
<1>2. Cons(e, s) = one \o s
  BY DEF Cons
<1> HIDE DEF one
<1>3. /\ ToSet(one \o s) = ToSet(one) \cup ToSet(s)
      /\ IsInjective(s) /\ ToSet(one) \cap ToSet(s) = {} => IsInjective(one \o s)
  BY <1>1, ConcatSet
<1> QED
  BY <1>1, <1>2, <1>3

\* The tail of a sequence of distinct elements has all of them but the head.
LEMMA TailSet ==
  ASSUME NEW S, NEW s \in Seq(S), s # <<>>, IsInjective(s)
  PROVE  /\ ToSet(Tail(s)) = ToSet(s) \ {Head(s)}
         /\ Head(s) \in ToSet(s)
         /\ IsInjective(Tail(s))
<1>1. /\ \A i \in 1 .. Len(s) - 1 : Tail(s)[i] = s[i + 1]
      /\ DOMAIN Tail(s) = 1 .. Len(s) - 1
      /\ Head(s) = s[1] /\ 1 \in DOMAIN s
  OBVIOUS
<1>2. IsInjective(Tail(s)) /\ Head(s) \in ToSet(s)
  BY <1>1 DEF IsInjective, ToSet
<1>3. ToSet(Tail(s)) \subseteq ToSet(s) \ {Head(s)}
  BY <1>1 DEF IsInjective, ToSet
<1>4. ASSUME NEW x \in ToSet(s), x # Head(s)  PROVE x \in ToSet(Tail(s))
  <2>1. PICK i \in 1 .. Len(s) : s[i] = x
    BY <1>4 DEF ToSet
  <2>2. i - 1 \in 1 .. Len(s) - 1 /\ Tail(s)[i - 1] = x
    BY <1>1, <1>4, <2>1
  <2> QED
    BY <1>1, <2>2 DEF ToSet
<1> QED
  BY <1>2, <1>3, <1>4

\* RemoveAt closes the gap.
LEMMA RemoveAtIndex ==
  ASSUME NEW S, NEW s \in Seq(S), NEW i \in 1 .. Len(s)
  PROVE  /\ DOMAIN RemoveAt(s, i) = 1 .. Len(s) - 1
         /\ \A j \in 1 .. Len(s) - 1 : RemoveAt(s, i)[j] = IF j < i THEN s[j] ELSE s[j + 1]
<1> DEFINE r == RemoveAt(s, i)
<1> DEFINE a == SubSeq(s, 1, i - 1)
           b == SubSeq(s, i + 1, Len(s))
<1>1. a \in Seq(S) /\ Len(a) = i - 1 /\ \A j \in 1 .. i - 1 : a[j] = s[j]
  OBVIOUS
<1>2. b \in Seq(S) /\ Len(b) = Len(s) - i /\ \A j \in 1 .. Len(s) - i : b[j] = s[i + j]
  OBVIOUS
<1>3. r = a \o b
  BY DEF RemoveAt
<1> HIDE DEF a, b, r
<1>4. DOMAIN r = 1 .. Len(s) - 1
  BY <1>1, <1>2, <1>3
<1>5. ASSUME NEW j \in 1 .. Len(s) - 1, j < i  PROVE r[j] = s[j]
  BY <1>1, <1>2, <1>3, <1>5
<1>6. ASSUME NEW j \in 1 .. Len(s) - 1, ~(j < i)  PROVE r[j] = s[j + 1]
  <2>1. r[j] = b[j - (i - 1)] /\ j - (i - 1) \in 1 .. Len(s) - i
    BY <1>1, <1>2, <1>3, <1>6
  <2> QED
    BY <1>2, <2>1
<1> QED
  BY <1>4, <1>5, <1>6 DEF r

\* RemoveAt takes exactly the element at its position out.
LEMMA RemoveAtSet ==
  ASSUME NEW S, NEW s \in Seq(S), NEW i \in 1 .. Len(s), IsInjective(s)
  PROVE  /\ ToSet(RemoveAt(s, i)) = ToSet(s) \ {s[i]}
         /\ IsInjective(RemoveAt(s, i))
<1> DEFINE r == RemoveAt(s, i)
<1>1. /\ DOMAIN r = 1 .. Len(s) - 1
      /\ \A j \in 1 .. Len(s) - 1 : r[j] = IF j < i THEN s[j] ELSE s[j + 1]
  BY RemoveAtIndex
<1> HIDE DEF r
<1>2. IsInjective(r)
  BY <1>1 DEF IsInjective
<1>3. ToSet(r) \subseteq ToSet(s) \ {s[i]}
  BY <1>1 DEF IsInjective, ToSet
<1>4. ASSUME NEW x \in ToSet(s), x # s[i]  PROVE x \in ToSet(r)
  <2>1. PICK j \in 1 .. Len(s) : s[j] = x
    BY <1>4 DEF ToSet
  <2>2. CASE j < i
    BY <1>1, <2>1, <2>2 DEF ToSet
  <2>3. CASE j > i
    <3>1. j - 1 \in 1 .. Len(s) - 1 /\ r[j - 1] = x
      BY <1>1, <2>1, <2>3
    <3> QED
      BY <1>1, <3>1 DEF ToSet
  <2> QED
    BY <1>4, <2>1, <2>2, <2>3
<1> QED
  BY <1>2, <1>3, <1>4 DEF r

\* The empty sequence has no elements.
LEMMA EmptySet ==
  /\ ToSet(<<>>) = {} /\ IsInjective(<<>>)
  /\ \A S : \A s \in Seq(S) : ToSet(s) = {} => s = <<>>
<1>1. ToSet(<<>>) = {} /\ IsInjective(<<>>)
  BY DEF ToSet, IsInjective
<1>2. ASSUME NEW S, NEW s \in Seq(S), s # <<>>  PROVE s[1] \in ToSet(s)
  BY <1>2 DEF ToSet
<1> QED
  BY <1>1, <1>2

\* Contains speaks of the elements of a sequence.
LEMMA ContainsSet ==
  ASSUME NEW S, NEW s \in Seq(S)
  PROVE  \A e : Contains(s, e) <=> e \in ToSet(s)
<1>1. DOMAIN s = 1 .. Len(s)
  OBVIOUS
<1> QED
  BY <1>1 DEF Contains, ToSet

\* A first part of a sequence has some of its elements, still distinct.
LEMMA FrontSet ==
  ASSUME NEW S, NEW s \in Seq(S), NEW n \in 0 .. Len(s)
  PROVE  /\ SubSeq(s, 1, n) \in Seq(S) /\ Len(SubSeq(s, 1, n)) = n
         /\ \A i \in 1 .. n : SubSeq(s, 1, n)[i] = s[i]
         /\ ToSet(SubSeq(s, 1, n)) \subseteq ToSet(s)
         /\ IsInjective(s) => IsInjective(SubSeq(s, 1, n))
<1> DEFINE f == SubSeq(s, 1, n)
<1>1. f \in Seq(S) /\ Len(f) = n /\ DOMAIN f = 1 .. n /\ \A i \in 1 .. n : f[i] = s[i] /\ i \in DOMAIN s
  OBVIOUS
<1> HIDE DEF f
<1>2. ToSet(f) \subseteq ToSet(s)
  BY <1>1 DEF ToSet
<1>3. IsInjective(s) => IsInjective(f)
  BY <1>1 DEF IsInjective
<1> QED
  BY <1>1, <1>2, <1>3 DEF f

\* The part of a sequence after its first n elements, which it shares none of
\* its elements with if they are distinct.
LEMMA RestSet ==
  ASSUME NEW S, NEW s \in Seq(S), NEW n \in 0 .. Len(s)
  PROVE  LET r == SubSeq(s, n + 1, Len(s))
         IN /\ r \in Seq(S) /\ Len(r) = Len(s) - n
            /\ \A i \in 1 .. Len(r) : r[i] = s[n + i]
            /\ ToSet(s) = ToSet(SubSeq(s, 1, n)) \cup ToSet(r)
            /\ IsInjective(s) => IsInjective(r) /\ ToSet(SubSeq(s, 1, n)) \cap ToSet(r) = {}
<1> DEFINE r == SubSeq(s, n + 1, Len(s))
           f == SubSeq(s, 1, n)
<1>1. /\ r \in Seq(S) /\ Len(r) = Len(s) - n /\ DOMAIN r = 1 .. Len(r)
      /\ \A i \in 1 .. Len(r) : r[i] = s[n + i] /\ n + i \in DOMAIN s
  OBVIOUS
<1>2. DOMAIN f = 1 .. n /\ \A i \in 1 .. n : f[i] = s[i] /\ i \in DOMAIN s
  OBVIOUS
<1>3. DOMAIN s = 1 .. Len(s)
  OBVIOUS
<1> HIDE DEF r, f
<1>4. ToSet(r) \subseteq ToSet(s) /\ ToSet(f) \subseteq ToSet(s)
  BY <1>1, <1>2 DEF ToSet
<1>5. ASSUME NEW x \in ToSet(s)  PROVE x \in ToSet(f) \cup ToSet(r)
  <2>1. PICK i \in 1 .. Len(s) : s[i] = x
    BY <1>3 DEF ToSet
  <2>2. CASE i <= n
    BY <1>2, <2>1, <2>2 DEF ToSet
  <2>3. CASE i > n
    <3>1. i - n \in 1 .. Len(r) /\ r[i - n] = x
      BY <1>1, <2>1, <2>3
    <3> QED
      BY <1>1, <3>1 DEF ToSet
  <2> QED
    BY <2>1, <2>2, <2>3
<1>6. ASSUME IsInjective(s)  PROVE IsInjective(r) /\ ToSet(f) \cap ToSet(r) = {}
  <2>1. ASSUME NEW i \in 1 .. Len(r), NEW j \in 1 .. Len(r), r[i] = r[j]  PROVE i = j
    <3>1. s[n + i] = s[n + j] /\ n + i \in DOMAIN s /\ n + j \in DOMAIN s
      BY <1>1, <2>1
    <3>2. n + i = n + j
      BY <1>6, <3>1 DEF IsInjective
    <3> QED
      BY <3>2
  <2>2. ASSUME NEW x \in ToSet(f), x \in ToSet(r)  PROVE FALSE
    <3>1. PICK i \in 1 .. n : s[i] = x /\ i \in DOMAIN s
      BY <1>2, <2>2 DEF ToSet
    <3>2. PICK j \in 1 .. Len(r) : s[n + j] = x /\ n + j \in DOMAIN s
      BY <1>1, <2>2 DEF ToSet
    <3>3. i = n + j
      BY <1>6, <3>1, <3>2 DEF IsInjective
    <3> QED
      BY <3>3
  <2> QED
    BY <1>1, <2>1, <2>2 DEF IsInjective
<1> QED
  BY <1>1, <1>4, <1>5, <1>6 DEF r, f

\* Where the elements of a concatenation are.
LEMMA ConcatIndex ==
  ASSUME NEW S, NEW s \in Seq(S), NEW r \in Seq(S)
  PROVE  /\ s \o r \in Seq(S) /\ Len(s \o r) = Len(s) + Len(r)
         /\ DOMAIN (s \o r) = 1 .. Len(s) + Len(r)
         /\ \A i \in 1 .. Len(s) : (s \o r)[i] = s[i]
         /\ \A i \in 1 .. Len(r) : (s \o r)[Len(s) + i] = r[i]
OBVIOUS

\* Where the elements of a tail are, and that it has no others.
LEMMA TailIndex ==
  ASSUME NEW S, NEW s \in Seq(S), s # <<>>
  PROVE  /\ Tail(s) \in Seq(S) /\ Len(Tail(s)) = Len(s) - 1 /\ Len(s) \in Nat \ {0}
         /\ DOMAIN Tail(s) = 1 .. Len(s) - 1
         /\ \A i \in 1 .. Len(s) - 1 : Tail(s)[i] = s[i + 1]
         /\ Head(s) = s[1] /\ 1 \in DOMAIN s /\ Head(s) \in ToSet(s)
         /\ ToSet(Tail(s)) \subseteq ToSet(s)
<1>1. /\ Tail(s) \in Seq(S) /\ Len(Tail(s)) = Len(s) - 1 /\ Len(s) \in Nat \ {0}
      /\ DOMAIN Tail(s) = 1 .. Len(s) - 1
      /\ \A i \in 1 .. Len(s) - 1 : Tail(s)[i] = s[i + 1] /\ i + 1 \in DOMAIN s
      /\ Head(s) = s[1] /\ 1 \in DOMAIN s
  OBVIOUS
<1>2. Head(s) \in ToSet(s) /\ ToSet(Tail(s)) \subseteq ToSet(s)
  BY <1>1 DEF ToSet
<1> QED
  BY <1>1, <1>2

\* Where the elements of a sequence with one more are.
LEMMA AppendIndex ==
  ASSUME NEW S, NEW s \in Seq(S), NEW e \in S
  PROVE  /\ Append(s, e) \in Seq(S) /\ Len(Append(s, e)) = Len(s) + 1 /\ Len(s) \in Nat
         /\ DOMAIN s = 1 .. Len(s) /\ DOMAIN Append(s, e) = 1 .. Len(s) + 1
         /\ \A i \in 1 .. Len(s) : Append(s, e)[i] = s[i]
         /\ Append(s, e)[Len(s) + 1] = e
OBVIOUS
=============================================================================
