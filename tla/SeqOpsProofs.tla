----------------------------- MODULE SeqOpsProofs -----------------------------
(***************************************************************************)
(* Induction over the natural numbers for sets in place of predicates, so  *)
(* that every prover can use it, and what the operators of SeqOps compute, *)
(* proved with it for sequences of every length.                           *)
(***************************************************************************)
EXTENDS SeqOps, WellFoundedInduction, TLAPS

\* A set with 0 that has n + 1 whenever it has n is all of Nat: otherwise the least
\* number it lacks has a predecessor.
LEMMA NatSetInduction ==
  ASSUME NEW S, 0 \in S, \A n \in Nat : n \in S => n + 1 \in S
  PROVE  \A n \in Nat : n \in S
<1> DEFINE Less == {ss \in Nat \X Nat : ss[1] < ss[2]}
           Missing == Nat \ S
<1>1. IsWellFoundedOn(Less, Nat)
  BY NatLessThanWellFounded DEF OpToRel
<1> SUFFICES ASSUME Missing # {} PROVE FALSE
  OBVIOUS
<1>2. PICK x \in Missing : \A y \in Missing : <<y, x>> \notin Less
  BY <1>1, WFMin, Zenon
<1>3. x \in Nat /\ x # 0 /\ x - 1 \in Nat /\ (x - 1) + 1 = x /\ x - 1 < x
  BY <1>2
<1>4. x - 1 \notin S
  BY <1>2, <1>3
<1>5. <<x - 1, x>> \in Less
  BY <1>3
<1> QED BY <1>2, <1>3, <1>4, <1>5

\* The same up to a bound.
LEMMA IntervalInduction ==
  ASSUME NEW S, NEW n \in Nat, 0 \in S, \A i \in 0..(n - 1) : i \in S => i + 1 \in S
  PROVE  \A i \in 0..n : i \in S
<1> DEFINE T == {i \in Nat : i <= n => i \in S}
<1>1. 0 \in T
  OBVIOUS
<1>2. \A i \in Nat : i \in T => i + 1 \in T
  OBVIOUS
<1> HIDE DEF T
<1>3. \A i \in Nat : i \in T
  BY <1>1, <1>2, NatSetInduction
<1> QED BY <1>3 DEF T

\* A set of numbers with an upper bound has a greatest element.
LEMMA GreatestExists ==
  ASSUME NEW S, S \subseteq Nat, S # {}, NEW n \in Nat, \A x \in S : x <= n
  PROVE  \E x \in S : \A y \in S : y <= x
<1> DEFINE T == {m \in Nat : (\E x \in S : m <= x)}
<1> SUFFICES ASSUME \A x \in S : \E y \in S : ~(y <= x) PROVE FALSE
  OBVIOUS
<1>1. 0 \in T
  <2>1. PICK x \in S : TRUE
    BY Zenon
  <2> QED BY <2>1
<1>2. ASSUME NEW m \in Nat, m \in T PROVE m + 1 \in T
  <2>1. PICK x \in S : m <= x
    BY <1>2
  <2>2. PICK y \in S : ~(y <= x)
    OBVIOUS
  <2> QED BY <2>1, <2>2
<1> HIDE DEF T
<1>3. n + 1 \in T
  BY <1>1, <1>2, NatSetInduction
<1> QED BY <1>3 DEF T

-------------------------------------------------------------------------------
(* Sequences.  What the proofs use of them, stated here: the fewer facts a *)
(* module brings along, the sooner its users are checked.                  *)

\* The empty sequence, and the others.
LEMMA NilIs ==
  ASSUME NEW T
  PROVE  /\ <<>> \in Seq(T) /\ Len(<<>>) = 0
         /\ \A s \in Seq(T) : s # <<>> => Len(s) \in Nat /\ Len(s) > 0
OBVIOUS

\* Sequences with the same elements are the same.
LEMMA SameSeq ==
  ASSUME NEW T, NEW s \in Seq(T), NEW r \in Seq(T), Len(s) = Len(r), \A i \in 1..Len(s) : s[i] = r[i]
  PROVE  s = r
OBVIOUS

\* What is in two sequences, one after the other.
LEMMA ConcatAt ==
  ASSUME NEW T, NEW s \in Seq(T), NEW r \in Seq(T)
  PROVE  /\ s \o r \in Seq(T) /\ Len(s \o r) = Len(s) + Len(r)
         /\ \A i \in 1..(Len(s) + Len(r)) :
              (s \o r)[i] = IF i <= Len(s) THEN s[i] ELSE r[i - Len(s)]
OBVIOUS

\* Nothing before or after a sequence.
LEMMA ConcatNil ==
  ASSUME NEW T, NEW s \in Seq(T)
  PROVE  s \o <<>> = s /\ <<>> \o s = s
OBVIOUS

\* An element more is a sequence of one more.
LEMMA ConcatOne ==
  ASSUME NEW T, NEW s \in Seq(T), NEW x \in T
  PROVE  Append(s, x) = s \o <<x>>
OBVIOUS

\* A sequence without its first element.
LEMMA TailAt ==
  ASSUME NEW T, NEW s \in Seq(T), s # <<>>
  PROVE  /\ s[1] \in T /\ Tail(s) \in Seq(T) /\ Len(Tail(s)) = Len(s) - 1
         /\ \A i \in 1..Len(Tail(s)) : Tail(s)[i] = s[i + 1]
OBVIOUS

\* A sequence that is not empty has a last element.
LEMMA EndExists ==
  ASSUME NEW T, NEW s \in Seq(T), s # <<>>
  PROVE  \E r \in Seq(T), x \in T : s = Append(r, x)
<1> DEFINE n == Len(s) - 1  r == [i \in 1..n |-> s[i]]  x == s[Len(s)]
<1>1. Len(s) \in Nat /\ n \in Nat /\ Len(s) = n + 1 /\ x \in T
  BY NilIs
<1> HIDE DEF n
<1>2. r \in Seq(T) /\ Len(r) = n
  BY <1>1
<1>3. \A i \in 1..n : r[i] = s[i]
  BY <1>1
<1> HIDE DEF r
<1>4. Append(r, x) \in Seq(T) /\ Len(Append(r, x)) = Len(s)
  BY <1>1, <1>2
<1>5. \A i \in 1..Len(s) : s[i] = Append(r, x)[i]
  BY <1>1, <1>2, <1>3
<1>6. s = Append(r, x)
  BY <1>4, <1>5, SameSeq
<1> QED BY <1>2, <1>6

\* A set with the empty sequence that has Append(s, x) whenever it has s has all
\* sequences.
LEMMA SeqSetInduction ==
  ASSUME NEW T, NEW Q, <<>> \in Q, \A s \in Seq(T), x \in T : s \in Q => Append(s, x) \in Q
  PROVE  \A s \in Seq(T) : s \in Q
<1> DEFINE S == {n \in Nat : \A s \in Seq(T) : Len(s) = n => s \in Q}
<1>1. 0 \in S
  BY NilIs
<1>2. ASSUME NEW n \in Nat, n \in S PROVE n + 1 \in S
  <2> SUFFICES ASSUME NEW s \in Seq(T), Len(s) = n + 1 PROVE s \in Q
    OBVIOUS
  <2>1. s # <<>>
    BY NilIs
  <2>2. PICK r \in Seq(T), x \in T : s = Append(r, x)
    BY <2>1, EndExists
  <2>3. Len(r) = n
    BY <2>2
  <2> QED BY <1>2, <2>2, <2>3
<1> HIDE DEF S
<1>3. \A n \in Nat : n \in S
  BY <1>1, <1>2, NatSetInduction
<1> QED BY <1>3 DEF S

\* Two sequences agree up to a length.
Agree(s, t, n) == \A i \in 1..n : s[i] = t[i]

-------------------------------------------------------------------------------
(* SumSeq.                                                                 *)

\* f is the function of partial sums that SumSeq chooses.
IsSum(f, s, n) == f = [i \in 0..n |-> IF i = 0 THEN 0 ELSE f[i - 1] + s[i]]

\* Partial sums exist for every length.
LEMMA SumExists ==
  ASSUME NEW s
  PROVE  \A n \in Nat : \E f : IsSum(f, s, n)
<1> DEFINE S == {n \in Nat : \E f : IsSum(f, s, n)}
<1>1. 0 \in S
  <2>1. IsSum([i \in 0..0 |-> 0], s, 0)
    BY DEF IsSum
  <2> QED BY <2>1
<1>2. ASSUME NEW n \in Nat, n \in S PROVE n + 1 \in S
  <2>1. PICK f : IsSum(f, s, n)
    BY <1>2
  <2> DEFINE g == [i \in 0..(n + 1) |-> IF i = n + 1 THEN f[n] + s[n + 1] ELSE f[i]]
  <2>2. IsSum(g, s, n + 1)
    BY <2>1 DEF IsSum
  <2> QED BY <2>2
<1> HIDE DEF S
<1>3. \A n \in Nat : n \in S
  BY <1>1, <1>2, NatSetInduction
<1> QED BY <1>3 DEF S

\* They are determined by the sequence.
LEMMA SumUnique ==
  ASSUME NEW s, NEW t, NEW f, NEW g, NEW m \in Nat, NEW n \in Nat,
         IsSum(f, s, m), IsSum(g, t, n), m <= n, Agree(s, t, m)
  PROVE  f[m] = g[m]
<1> DEFINE S == {i \in Nat : f[i] = g[i]}
<1>1. 0 \in S
  BY DEF IsSum
<1>2. ASSUME NEW i \in 0..(m - 1), i \in S PROVE i + 1 \in S
  BY <1>2 DEF IsSum, Agree
<1> HIDE DEF S
<1>3. \A i \in 0..m : i \in S
  BY <1>1, <1>2, IntervalInduction
<1> QED BY <1>3 DEF S

\* The partial sums of s, and their value.
LEMMA SumSeqIs ==
  ASSUME NEW s, Len(s) \in Nat
  PROVE  \E f : IsSum(f, s, Len(s)) /\ SumSeq(s) = f[Len(s)]
<1> DEFINE f == CHOOSE g : IsSum(g, s, Len(s))
<1>1. IsSum(f, s, Len(s))
  BY SumExists
<1>2. SumSeq(s) = f[Len(s)]
  BY DEF SumSeq, IsSum
<1> QED BY <1>1, <1>2, Zenon

\* The sum of nothing.
LEMMA SumEmpty == SumSeq(<<>>) = 0
<1>1. PICK f : IsSum(f, <<>>, 0) /\ SumSeq(<<>>) = f[0]
  BY SumSeqIs
<1> QED BY <1>1 DEF IsSum

\* An element more adds to the sum.
LEMMA SumAppend ==
  ASSUME NEW T, NEW s \in Seq(T), NEW x \in T
  PROVE  SumSeq(Append(s, x)) = SumSeq(s) + x
<1> DEFINE n == Len(s)
           t == Append(s, x)
<1>1. /\ n \in Nat /\ n + 1 \in Nat /\ n <= n + 1 /\ Len(s) = n
      /\ Len(t) = n + 1 /\ t[n + 1] = x /\ Agree(s, t, n)
  BY DEF Agree
<1> HIDE DEF n, t
<1>2. PICK f : IsSum(f, s, n) /\ SumSeq(s) = f[n]
  BY <1>1, SumSeqIs
<1>3. PICK g : IsSum(g, t, n + 1) /\ SumSeq(t) = g[n + 1]
  BY <1>1, SumSeqIs
<1>4. f[n] = g[n]
  BY <1>1, <1>2, <1>3, SumUnique
<1>5. g[n + 1] = g[n] + t[n + 1]
  BY <1>1, <1>3 DEF IsSum
<1> QED BY <1>1, <1>2, <1>3, <1>4, <1>5 DEF t

\* Sums of naturals are naturals.
LEMMA SumType ==
  ASSUME NEW s \in Seq(Nat)
  PROVE  SumSeq(s) \in Nat
<1>1. PICK f : IsSum(f, s, Len(s)) /\ SumSeq(s) = f[Len(s)]
  BY SumSeqIs
<1> DEFINE S == {i \in Nat : f[i] \in Nat}
<1>2. 0 \in S
  BY <1>1 DEF IsSum
<1>3. ASSUME NEW i \in 0..(Len(s) - 1), i \in S PROVE i + 1 \in S
  <2>1. i + 1 \in 0..Len(s) /\ i + 1 # 0 /\ (i + 1) - 1 = i /\ i + 1 \in 1..Len(s)
    OBVIOUS
  <2>2. f[i + 1] = f[i] + s[i + 1]
    BY <1>1, <2>1, Zenon DEF IsSum
  <2>3. f[i] \in Nat /\ s[i + 1] \in Nat
    BY <1>3, <2>1
  <2>4. f[i + 1] \in Nat
    BY <2>2, <2>3
  <2> QED BY <2>4
<1> HIDE DEF S
<1>4. \A i \in 0..Len(s) : i \in S
  <2>1. Len(s) \in Nat
    OBVIOUS
  <2> QED BY <1>2, <1>3, <2>1, IntervalInduction, Zenon
<1> QED BY <1>1, <1>4 DEF S

-------------------------------------------------------------------------------
(* Flatten.                                                                *)

\* f is the function of prefixes that Flatten chooses.
IsFlat(f, ss, n) == f = [i \in 0..n |-> IF i = 0 THEN <<>> ELSE f[i - 1] \o ss[i]]

\* Partial concatenations exist for every length.
LEMMA FlatExists ==
  ASSUME NEW ss
  PROVE  \A n \in Nat : \E f : IsFlat(f, ss, n)
<1> DEFINE S == {n \in Nat : \E f : IsFlat(f, ss, n)}
<1>1. 0 \in S
  <2>1. IsFlat([i \in 0..0 |-> <<>>], ss, 0)
    BY DEF IsFlat
  <2> QED BY <2>1
<1>2. ASSUME NEW n \in Nat, n \in S PROVE n + 1 \in S
  <2>1. PICK f : IsFlat(f, ss, n)
    BY <1>2
  <2> DEFINE g == [i \in 0..(n + 1) |-> IF i = n + 1 THEN f[n] \o ss[n + 1] ELSE f[i]]
  <2>2. IsFlat(g, ss, n + 1)
    BY <2>1 DEF IsFlat
  <2> QED BY <2>2
<1> HIDE DEF S
<1>3. \A n \in Nat : n \in S
  BY <1>1, <1>2, NatSetInduction
<1> QED BY <1>3 DEF S

\* They are determined by the sequences.
LEMMA FlatUnique ==
  ASSUME NEW s, NEW t, NEW f, NEW g, NEW m \in Nat, NEW n \in Nat,
         IsFlat(f, s, m), IsFlat(g, t, n), m <= n, Agree(s, t, m)
  PROVE  f[m] = g[m]
<1> DEFINE S == {i \in Nat : f[i] = g[i]}
<1>1. 0 \in S
  BY DEF IsFlat
<1>2. ASSUME NEW i \in 0..(m - 1), i \in S PROVE i + 1 \in S
  BY <1>2 DEF IsFlat, Agree
<1> HIDE DEF S
<1>3. \A i \in 0..m : i \in S
  BY <1>1, <1>2, IntervalInduction
<1> QED BY <1>3 DEF S

\* Flatten is the last of the partial concatenations.
LEMMA FlattenIs ==
  ASSUME NEW ss, Len(ss) \in Nat
  PROVE  \E f : IsFlat(f, ss, Len(ss)) /\ Flatten(ss) = f[Len(ss)]
<1> DEFINE f == CHOOSE g : IsFlat(g, ss, Len(ss))
<1>1. IsFlat(f, ss, Len(ss))
  BY FlatExists
<1>2. Flatten(ss) = f[Len(ss)]
  BY DEF Flatten, IsFlat
<1> QED BY <1>1, <1>2, Zenon

\* Nothing to concatenate.
LEMMA FlattenEmpty == Flatten(<<>>) = <<>>
<1>1. PICK f : IsFlat(f, <<>>, 0) /\ Flatten(<<>>) = f[0]
  BY FlattenIs
<1> QED BY <1>1 DEF IsFlat

\* A sequence more goes to the end.
LEMMA FlattenAppend ==
  ASSUME NEW T, NEW ss \in Seq(T), NEW x \in T
  PROVE  Flatten(Append(ss, x)) = Flatten(ss) \o x
<1> DEFINE n == Len(ss)
           t == Append(ss, x)
<1>1. /\ n \in Nat /\ n + 1 \in Nat /\ n <= n + 1 /\ Len(ss) = n
      /\ Len(t) = n + 1 /\ t[n + 1] = x /\ Agree(ss, t, n)
  BY DEF Agree
<1> HIDE DEF n, t
<1>2. PICK f : IsFlat(f, ss, n) /\ Flatten(ss) = f[n]
  BY <1>1, FlattenIs
<1>3. PICK g : IsFlat(g, t, n + 1) /\ Flatten(t) = g[n + 1]
  BY <1>1, FlattenIs
<1>4. f[n] = g[n]
  BY <1>1, <1>2, <1>3, FlatUnique
<1>5. g[n + 1] = g[n] \o t[n + 1]
  <2>1. n + 1 \in 0..(n + 1) /\ n + 1 # 0 /\ (n + 1) - 1 = n
    BY <1>1
  <2> QED BY <1>3, <2>1, Zenon DEF IsFlat
<1> QED BY <1>1, <1>2, <1>3, <1>4, <1>5 DEF t

\* The elements of the concatenation are elements of the sequences.
LEMMA FlattenType ==
  ASSUME NEW T, NEW ss \in Seq(Seq(T))
  PROVE  Flatten(ss) \in Seq(T)
<1>1. PICK f : IsFlat(f, ss, Len(ss)) /\ Flatten(ss) = f[Len(ss)]
  BY FlattenIs
<1> DEFINE S == {i \in Nat : f[i] \in Seq(T)}
<1>2. 0 \in S
  BY <1>1 DEF IsFlat
<1>3. ASSUME NEW i \in 0..(Len(ss) - 1), i \in S PROVE i + 1 \in S
  <2>1. f[i] \in Seq(T) /\ ss[i + 1] \in Seq(T) /\ i + 1 \in Nat
    BY <1>3
  <2>2. i + 1 \in 0..Len(ss) /\ i + 1 # 0 /\ (i + 1) - 1 = i
    BY <1>3
  <2>3. f[i + 1] = f[i] \o ss[i + 1]
    BY <1>1, <2>2, Zenon DEF IsFlat
  <2>4. f[i] \o ss[i + 1] \in Seq(T)
    BY <2>1, ConcatAt
  <2> QED BY <2>1, <2>3, <2>4, Zenon
<1> HIDE DEF S
<1>4. \A i \in 0..Len(ss) : i \in S
  <2>1. Len(ss) \in Nat
    OBVIOUS
  <2> QED BY <1>2, <1>3, <2>1, IntervalInduction, Zenon
<1> QED BY <1>1, <1>4 DEF S

-------------------------------------------------------------------------------
(* Filter, and the elements of sequences.                                  *)

\* The elements of a sequence with one more.
LEMMA RangeAppend ==
  ASSUME NEW T, NEW s \in Seq(T), NEW x \in T
  PROVE  Range(Append(s, x)) = Range(s) \cup {x}
<1> DEFINE t == Append(s, x)
<1>1. /\ Len(s) \in Nat /\ DOMAIN s = 1..Len(s) /\ DOMAIN t = 1..(Len(s) + 1)
      /\ \A i \in 1..Len(s) : t[i] = s[i]
      /\ t[Len(s) + 1] = x
  OBVIOUS
<1> HIDE DEF t
<1>2. ASSUME NEW y \in Range(t) PROVE y \in Range(s) \cup {x}
  BY <1>1 DEF Range
<1>3. ASSUME NEW y \in Range(s) \cup {x} PROVE y \in Range(t)
  BY <1>1 DEF Range
<1> QED BY <1>2, <1>3 DEF t

\* The elements of two sequences, one after the other.
LEMMA RangeConcat ==
  ASSUME NEW T, NEW s \in Seq(T), NEW r \in Seq(T)
  PROVE  Range(s \o r) = Range(s) \cup Range(r)
<1> DEFINE t == s \o r
<1>1. /\ Len(s) \in Nat /\ Len(r) \in Nat /\ DOMAIN s = 1..Len(s) /\ DOMAIN r = 1..Len(r)
      /\ DOMAIN t = 1..(Len(s) + Len(r))
  BY ConcatAt
<1>2. /\ \A i \in 1..Len(s) : t[i] = s[i]
      /\ \A i \in 1..Len(r) : t[Len(s) + i] = r[i]
  BY ConcatAt
<1> HIDE DEF t
<1>3. ASSUME NEW y \in Range(t) PROVE y \in Range(s) \cup Range(r)
  <2>1. PICK i \in 1..(Len(s) + Len(r)) : y = t[i]
    BY <1>1 DEF Range
  <2>2. CASE i <= Len(s)
    BY <1>1, <1>2, <2>1, <2>2 DEF Range
  <2>3. CASE ~(i <= Len(s))
    <3>1. i - Len(s) \in 1..Len(r) /\ Len(s) + (i - Len(s)) = i
      BY <1>1, <2>3
    <3> QED BY <1>1, <1>2, <2>1, <3>1, Zenon DEF Range
  <2> QED BY <2>2, <2>3
<1>4. ASSUME NEW y \in Range(s) PROVE y \in Range(t)
  BY <1>1, <1>2 DEF Range
<1>5. ASSUME NEW y \in Range(r) PROVE y \in Range(t)
  <2>1. PICK i \in 1..Len(r) : y = r[i]
    BY <1>1 DEF Range
  <2>2. Len(s) + i \in 1..(Len(s) + Len(r))
    BY <1>1
  <2> QED BY <1>1, <1>2, <2>1, <2>2 DEF Range
<1> QED BY <1>3, <1>4, <1>5 DEF t

\* The last element of a sequence, and the sequence without it.
LEMMA FrontAppend ==
  ASSUME NEW T, NEW s \in Seq(T), NEW x \in T
  PROVE  /\ Append(s, x) \in Seq(T) /\ Append(s, x) # <<>>
         /\ Front(Append(s, x)) = s /\ Last(Append(s, x)) = x
BY DEF Front, Last

\* What is in a sequence that has got an element more.
LEMMA AppendAt ==
  ASSUME NEW T, NEW s \in Seq(T), NEW x
  PROVE  /\ Len(s) \in Nat /\ Len(Append(s, x)) = Len(s) + 1 /\ Append(s, x)[Len(s) + 1] = x
         /\ \A i \in 1..Len(s) : Append(s, x)[i] = s[i]
OBVIOUS

\* A sequence is its front and its last element.
LEMMA SplitLast ==
  ASSUME NEW T, NEW s \in Seq(T), s # <<>>
  PROVE  /\ Front(s) \in Seq(T) /\ Last(s) \in T /\ s = Append(Front(s), Last(s))
         /\ Len(s) \in Nat /\ Len(s) > 0 /\ Len(Front(s)) = Len(s) - 1
         /\ Last(s) = s[Len(s)]
         /\ \A i \in 1..(Len(s) - 1) : Front(s)[i] = s[i]
<1>1. PICK r \in Seq(T), x \in T : s = Append(r, x)
  BY EndExists
<1>2. Front(s) = r /\ Last(s) = x
  BY <1>1, FrontAppend
<1>3. Len(r) \in Nat /\ Len(s) = Len(r) + 1 /\ s[Len(r) + 1] = x
  BY <1>1
<1>4. \A i \in 1..Len(r) : r[i] = s[i]
  BY <1>1
<1> QED BY <1>1, <1>2, <1>3, <1>4

\* A sequence with another last element.
LEMMA PutLast ==
  ASSUME NEW T, NEW s \in Seq(T), s # <<>>, NEW x \in T
  PROVE  [s EXCEPT ![Len(s)] = x] = Append(Front(s), x)
<1> DEFINE u == [s EXCEPT ![Len(s)] = x]  n == Len(s)  f == Front(s)
<1>1. /\ f \in Seq(T) /\ n \in Nat /\ n > 0 /\ Len(f) = n - 1
      /\ \A i \in 1..(n - 1) : f[i] = s[i]
  BY SplitLast, Zenon
<1> HIDE DEF f
<1>2. u \in Seq(T) /\ Len(u) = n /\ \A i \in 1..n : u[i] = IF i = n THEN x ELSE s[i]
  BY <1>1
<1>3. /\ Append(f, x) \in Seq(T) /\ Len(Append(f, x)) = n /\ Append(f, x)[n] = x
      /\ \A i \in 1..(n - 1) : Append(f, x)[i] = f[i]
  BY <1>1
<1> HIDE DEF u
<1>4. \A i \in 1..n : u[i] = Append(f, x)[i]
  BY <1>1, <1>2, <1>3
<1>5. u = Append(f, x)
  BY <1>2, <1>3, <1>4, SameSeq
<1> QED BY <1>5 DEF u, f

\* Concatenation and append commute.
LEMMA ConcatAppend ==
  ASSUME NEW T, NEW r \in Seq(T), NEW s \in Seq(T), NEW x \in T
  PROVE  r \o Append(s, x) = Append(r \o s, x)
<1> DEFINE y == <<x>>
<1>1. y \in Seq(T) /\ Append(s, x) = s \o y
  BY ConcatOne
<1>2. r \o s \in Seq(T)
  BY ConcatAt
<1>3. Append(r \o s, x) = (r \o s) \o y
  BY <1>2, ConcatOne
<1> HIDE DEF y
<1>4. (r \o s) \o y = r \o (s \o y)
  <2>1. y \in Seq(T)
    BY <1>1, Zenon
  <2> QED BY <2>1
<1> QED BY <1>1, <1>3, <1>4

\* Moving the first element of what follows to the end of what precedes.
LEMMA ConcatTail ==
  ASSUME NEW T, NEW r \in Seq(T), NEW s \in Seq(T), s # <<>>
  PROVE  /\ s[1] \in T /\ Tail(s) \in Seq(T) /\ Append(r, s[1]) \in Seq(T)
         /\ Append(r, s[1]) \o Tail(s) = r \o s
<1> DEFINE x == s[1]  t == Tail(s)  y == <<x>>
<1>1. x \in T /\ t \in Seq(T) /\ Len(t) = Len(s) - 1 /\ \A i \in 1..Len(t) : t[i] = s[i + 1]
  BY TailAt
<1>2. Len(s) \in Nat /\ Len(s) >= 1
  BY NilIs
<1>3. s = y \o t
  <2> HIDE DEF t
  <2>1. y \in Seq(T) /\ Len(y) = 1 /\ y[1] = x
    BY <1>1
  <2> HIDE DEF y
  <2>2. /\ y \o t \in Seq(T) /\ Len(y \o t) = 1 + Len(t)
        /\ \A i \in 1..(1 + Len(t)) : (y \o t)[i] = IF i <= 1 THEN y[i] ELSE t[i - 1]
    <3>1. /\ y \o t \in Seq(T) /\ Len(y \o t) = Len(y) + Len(t)
          /\ \A i \in 1..(Len(y) + Len(t)) :
               (y \o t)[i] = IF i <= Len(y) THEN y[i] ELSE t[i - Len(y)]
      <4>1. y \in Seq(T) /\ t \in Seq(T)
        BY <1>1, <2>1
      <4> QED BY <4>1, ConcatAt
    <3> QED BY <2>1, <3>1
  <2>3. ASSUME NEW i \in 1..Len(s) PROVE s[i] = (y \o t)[i]
    <3>1. i \in 1..(1 + Len(t))
      BY <1>1, <1>2
    <3>2. CASE i = 1
      BY <2>1, <2>2, <3>1, <3>2
    <3>3. CASE i # 1
      <4>1. i - 1 \in 1..Len(t) /\ (i - 1) + 1 = i /\ ~(i <= 1)
        BY <1>1, <1>2, <3>3
      <4>2. t[i - 1] = s[i]
        BY <1>1, <4>1
      <4> QED BY <2>2, <3>1, <4>1, <4>2
    <3> QED BY <3>2, <3>3, Zenon
  <2>4. Len(s) = Len(y \o t)
    BY <1>1, <1>2, <2>2
  <2> QED BY <2>2, <2>3, <2>4, SameSeq
<1>4. y \in Seq(T) /\ Append(r, x) = r \o y /\ Append(r, x) \in Seq(T)
  BY <1>1, ConcatOne
<1> HIDE DEF x, t, y
<1>5. (r \o y) \o t = r \o (y \o t)
  <2>1. y \in Seq(T) /\ t \in Seq(T)
    BY <1>1, <1>4, Zenon
  <2> QED BY <2>1
<1> QED BY <1>1, <1>3, <1>4, <1>5, Zenon DEF x, t

\* The last element is an element.
LEMMA LastInSet ==
  ASSUME NEW T, NEW s \in Seq(T), s # <<>>
  PROVE  Last(s) \in Range(s)
<1>1. PICK r \in Seq(T), x \in T : s = Append(r, x)
  BY EndExists
<1>2. Last(s) = x
  BY <1>1, FrontAppend
<1>3. x \in Range(s)
  BY <1>1, RangeAppend
<1> QED BY <1>2, <1>3

\* Nothing to select from.
LEMMA FilterEmpty == \A S : Filter(<<>>, S) = <<>>
<1> SUFFICES ASSUME NEW S PROVE Filter(<<>>, S) = <<>>
  OBVIOUS
<1>1. [i \in 1..Len(<<>>) |-> IF <<>>[i] \in S THEN <<<<>>[i]>> ELSE <<>>] = <<>>
  OBVIOUS
<1> QED BY <1>1, FlattenEmpty DEF Filter

\* An element more is selected or not.
LEMMA FilterAppend ==
  ASSUME NEW T, NEW s \in Seq(T), NEW x \in T, NEW S
  PROVE  Filter(Append(s, x), S) = Filter(s, S) \o (IF x \in S THEN <<x>> ELSE <<>>)
<1> DEFINE Kept(u) == IF u \in S THEN <<u>> ELSE <<>>
           t == Append(s, x)
           ss == [i \in 1..Len(s) |-> Kept(s[i])]
           tt == [i \in 1..Len(t) |-> Kept(t[i])]
<1>1. /\ Len(s) \in Nat /\ Len(t) = Len(s) + 1
      /\ \A i \in 1..Len(s) : t[i] = s[i] /\ s[i] \in T
      /\ t[Len(s) + 1] = x
  OBVIOUS
<1>2. \A u \in T : Kept(u) \in Seq(T)
  OBVIOUS
<1> HIDE DEF t, Kept
<1>3. ss \in Seq(Seq(T)) /\ Len(ss) = Len(s)
  BY <1>1, <1>2
<1>4. tt = Append(ss, Kept(x))
  BY <1>1, <1>3
<1>5. Flatten(tt) = Flatten(ss) \o Kept(x)
  <2> HIDE DEF ss, tt
  <2> QED BY <1>2, <1>3, <1>4, FlattenAppend
<1> QED BY <1>5, Zenon DEF Filter, Kept, t

\* What is selected are elements of the sequence.
LEMMA FilterType ==
  ASSUME NEW T, NEW s \in Seq(T), NEW S
  PROVE  Filter(s, S) \in Seq(T) /\ Range(Filter(s, S)) = Range(s) \cap S
<1> DEFINE Good(r) == Filter(r, S) \in Seq(T) /\ Range(Filter(r, S)) = Range(r) \cap S
           Q == {r \in Seq(T) : Good(r)}
<1>1. Good(<<>>)
  <2>1. Range(<<>>) = {}
    BY DEF Range
  <2>2. Filter(<<>>, S) = <<>>
    BY FilterEmpty
  <2>3. <<>> \in Seq(T)
    OBVIOUS
  <2> QED BY <2>1, <2>2, <2>3, Zenon
<1>2. ASSUME NEW r \in Seq(T), NEW x \in T, Good(r) PROVE Good(Append(r, x))
  <2> DEFINE f == Filter(r, S)
  <2>1. Append(r, x) \in Seq(T) /\ Range(Append(r, x)) = Range(r) \cup {x}
    BY RangeAppend
  <2>2. f \in Seq(T) /\ Range(f) = Range(r) \cap S
    BY <1>2
  <2>3. Filter(Append(r, x), S) = f \o (IF x \in S THEN <<x>> ELSE <<>>)
    BY FilterAppend
  <2>4. CASE x \in S
    <3> HIDE DEF f
    <3>1. f \o <<x>> = Append(f, x)
      BY <2>2
    <3>2. Range(Append(f, x)) = Range(f) \cup {x}
      BY <2>2, RangeAppend
    <3>3. Filter(Append(r, x), S) = Append(f, x)
      BY <2>3, <2>4, <3>1
    <3> QED BY <2>1, <2>2, <2>4, <3>2, <3>3
  <2>5. CASE x \notin S
    <3> HIDE DEF f
    <3>1. f \o <<>> = f
      BY <2>2
    <3>2. Filter(Append(r, x), S) = f
      BY <2>3, <2>5, <3>1
    <3> QED BY <2>1, <2>2, <2>5, <3>2
  <2> QED BY <2>4, <2>5
<1> HIDE DEF Good
<1>3. <<>> \in Q /\ \A r \in Seq(T), x \in T : r \in Q => Append(r, x) \in Q
  BY <1>1, <1>2
<1> HIDE DEF Q
<1>4. s \in Q
  BY <1>3, SeqSetInduction
<1> QED BY <1>4 DEF Q, Good


-------------------------------------------------------------------------------
(* Sums of what a function makes of the elements.                          *)

FunSum(s, F) == SumSeq([i \in 1..Len(s) |-> F[s[i]]])

\* The sum of a function over no elements.
LEMMA FunSumEmpty == \A F : FunSum(<<>>, F) = 0
<1> SUFFICES ASSUME NEW F PROVE FunSum(<<>>, F) = 0
  OBVIOUS
<1>1. [i \in 1..Len(<<>>) |-> F[<<>>[i]]] = <<>>
  OBVIOUS
<1> QED BY <1>1, SumEmpty DEF FunSum

\* An element more adds what the function makes of it.
LEMMA FunSumAppend ==
  ASSUME NEW T, NEW F \in [T -> Nat], NEW s \in Seq(T), NEW x \in T
  PROVE  FunSum(Append(s, x), F) = FunSum(s, F) + F[x]
<1> DEFINE t == Append(s, x)
           ss == [i \in 1..Len(s) |-> F[s[i]]]
           tt == [i \in 1..Len(t) |-> F[t[i]]]
<1>1. /\ Len(s) \in Nat /\ Len(t) = Len(s) + 1
      /\ \A i \in 1..Len(s) : t[i] = s[i] /\ s[i] \in T
      /\ t[Len(s) + 1] = x
  OBVIOUS
<1> HIDE DEF t
<1>2. ss \in Seq(Nat) /\ Len(ss) = Len(s) /\ F[x] \in Nat
  BY <1>1
<1>3. tt = Append(ss, F[x])
  BY <1>1, <1>2
<1>4. SumSeq(tt) = SumSeq(ss) + F[x]
  <2> HIDE DEF ss, tt
  <2> QED BY <1>2, <1>3, SumAppend
<1> QED BY <1>4, Zenon DEF FunSum, t

\* Sums of a function to the naturals are naturals.
LEMMA FunSumType ==
  ASSUME NEW T, NEW F \in [T -> Nat], NEW s \in Seq(T)
  PROVE  FunSum(s, F) \in Nat
<1>1. Len(s) \in Nat /\ \A i \in 1..Len(s) : F[s[i]] \in Nat
  OBVIOUS
<1>2. [i \in 1..Len(s) |-> F[s[i]]] \in Seq(Nat)
  BY <1>1
<1> QED BY <1>2, SumType, Zenon DEF FunSum
===============================================================================
