------------------------------ MODULE Induction ------------------------------
(***************************************************************************)
(* Induction over natural numbers and finite sets, stated so that the      *)
(* proofs of the other modules can cite it: a property is put as a set     *)
(* instead of an operator, and the step of a recursion as a function.      *)
(* Then what the community modules' lists and folds return.                *)
(***************************************************************************)
EXTENDS Integers, Sequences, FiniteSets, SequencesExt, FiniteSetTheorems, WellFoundedInduction, TLAPS

\* Every non-empty set of natural numbers has a least element.
LEMMA LeastExists ==
  ASSUME NEW S \in SUBSET Nat, S # {}
  PROVE  \E m \in S : \A k \in S : m <= k
<1> DEFINE Less == OpToRel(<, Nat)
<1>1. PICK m \in S : \A k \in S : <<k, m>> \notin Less
  BY NatLessThanWellFounded, WFMin
<1>2. \A k, n \in Nat : <<k, n>> \in Less <=> k < n
  BY DEF OpToRel
<1> HIDE DEF Less
<1>3. ASSUME NEW k \in S PROVE m <= k
  <2>1. k \in Nat /\ m \in Nat /\ ~(k < m)
    BY <1>1, <1>2, Zenon
  <2> QED
    BY <2>1
<1> QED
  BY <1>3

\* Induction for a set, to which a property is put as {n \in Nat : P(n)}.
LEMMA SetInduction ==
  ASSUME NEW S, 0 \in S, \A n \in Nat : n \in S => n + 1 \in S
  PROVE  \A n \in Nat : n \in S
<1> SUFFICES ASSUME Nat \ S # {} PROVE FALSE
  OBVIOUS
<1>1. PICK m \in Nat \ S : \A k \in Nat \ S : m <= k
  BY LeastExists
<1>2. m - 1 \in Nat /\ ~(m <= m - 1)
  BY <1>1
<1>3. m - 1 \in S
  BY <1>1, <1>2
<1> QED
  BY <1>1, <1>2, <1>3

\* A finite set of numbers that is not empty has a greatest element.
LEMMA GreatestExists ==
  ASSUME NEW T \in SUBSET Nat, IsFiniteSet(T), T # {}
  PROVE  \E m \in T : \A k \in T : k <= m
<1> DEFINE Bounded(X) == \E m \in X : \A k \in X : k <= m
           Bounding == {n \in Nat : \A X \in SUBSET Nat :
                          IsFiniteSet(X) /\ X # {} /\ Cardinality(X) = n => Bounded(X)}
<1>1. 0 \in Bounding
  BY FS_EmptySet
<1>2. ASSUME NEW n \in Nat, n \in Bounding PROVE n + 1 \in Bounding
  <2> SUFFICES ASSUME NEW X \in SUBSET Nat, IsFiniteSet(X), X # {}, Cardinality(X) = n + 1
               PROVE  Bounded(X)
    OBVIOUS
  <2>1. PICK x \in X : TRUE
    OBVIOUS
  <2> DEFINE Y == X \ {x}
  <2>2. IsFiniteSet(Y) /\ Cardinality(Y) = n
    <3>1. IsFiniteSet(Y) /\ Cardinality(Y) = Cardinality(X) - 1
      BY <2>1, FS_RemoveElement, Zenon
    <3> QED
      BY <3>1
  <2>3. CASE Y = {}
    BY <2>1, <2>3
  <2>4. CASE Y # {}
    <3>1. PICK m \in Y : \A k \in Y : k <= m
      BY <1>2, <2>2, <2>4
    <3>2. m \in Nat /\ x \in Nat /\ m \in X
      BY <2>1
    <3>3. CASE x <= m
      BY <3>1, <3>2, <3>3
    <3>4. CASE ~(x <= m)
      <4>1. \A k \in X : k <= x
        BY <3>1, <3>2, <3>4
      <4> QED
        BY <2>1, <4>1
    <3> QED
      BY <3>3, <3>4
  <2> QED
    BY <2>3, <2>4
<1> HIDE DEF Bounding
<1>3. Cardinality(T) \in Nat
  BY FS_CardinalityType
<1>4. Cardinality(T) \in Bounding
  BY <1>1, <1>2, <1>3, SetInduction
<1> QED
  BY <1>4 DEF Bounding

\* A function on 0..n defined by its value at 0 and a step from each argument to the next.
IsRecursion(f, n, A, base, H) ==
  /\ f \in [0..n -> A] /\ f[0] = base
  /\ \A i \in 1..n : f[i] = H[<<f[i - 1], i>>]

LEMMA RecursionExists ==
  ASSUME NEW n \in Nat, NEW A, NEW base \in A, NEW H \in [A \X (1..n) -> A]
  PROVE  \E f : IsRecursion(f, n, A, base, H)
<1> DEFINE Good(m, f) == IsRecursion(f, m, A, base, H)
           Reached == {m \in Nat : m <= n => \E f : Good(m, f)}
<1>1. 0 \in Reached
  <2> DEFINE f == [i \in 0..0 |-> base]
  <2>1. f \in [0..0 -> A] /\ f[0] = base /\ 1..0 = {}
    OBVIOUS
  <2>2. Good(0, f)
    BY <2>1 DEF IsRecursion
  <2> QED
    BY <2>2
<1>2. ASSUME NEW m \in Nat, m \in Reached PROVE m + 1 \in Reached
  <2> SUFFICES ASSUME m + 1 <= n PROVE \E f : Good(m + 1, f)
    OBVIOUS
  <2>0. m <= n /\ m + 1 \in 1..n /\ m \in 0..m /\ m + 1 \notin 0..m
    OBVIOUS
  <2>1. PICK f : Good(m, f)
    BY <1>2, <2>0
  <2> DEFINE last == H[<<f[m], m + 1>>]
             g == [i \in 0..(m + 1) |-> IF i = m + 1 THEN last ELSE f[i]]
  <2>2. last \in A
    BY <2>0, <2>1 DEF IsRecursion
  <2> HIDE DEF last
  <2>3. g \in [0..(m + 1) -> A]
    <3>1. \A i \in 0..(m + 1) : i # m + 1 => i \in 0..m
      OBVIOUS
    <3> QED
      BY <2>1, <2>2, <3>1 DEF IsRecursion
  <2>4. g[0] = base
    <3>1. 0 \in 0..(m + 1) /\ 0 # m + 1
      OBVIOUS
    <3> QED
      BY <2>1, <3>1 DEF IsRecursion
  <2>5. ASSUME NEW i \in 1..(m + 1) PROVE g[i] = H[<<g[i - 1], i>>]
    <3>1. i - 1 \in 0..(m + 1) /\ i - 1 # m + 1 /\ i \in 0..(m + 1)
      OBVIOUS
    <3>2. g[i - 1] = f[i - 1]
      BY <3>1
    <3>3. CASE i = m + 1
      <4>1. g[i] = last /\ i - 1 = m
        BY <3>1, <3>3
      <4> QED
        BY <3>2, <3>3, <4>1 DEF last
    <3>4. CASE i # m + 1
      <4>1. i \in 1..m /\ g[i] = f[i]
        BY <3>1, <3>4
      <4> QED
        BY <2>1, <3>2, <4>1 DEF IsRecursion
    <3> QED
      BY <3>3, <3>4
  <2> HIDE DEF g
  <2>6. Good(m + 1, g)
    BY <2>3, <2>4, <2>5 DEF IsRecursion
  <2> QED
    BY <2>6
<1> HIDE DEF Reached
<1>3. n \in Reached
  BY <1>1, <1>2, SetInduction
<1> QED
  BY <1>3 DEF Reached

\* The greatest of a set of indices.
LEMMA MaxIs ==
  ASSUME NEW m \in Nat, NEW s \in SUBSET (1..m), s # {}
  PROVE  Max(s) \in s /\ \A k \in s : Max(s) >= k
<1>1. s \in SUBSET Nat
  OBVIOUS
<1>2. IsFiniteSet(s)
  <2>1. IsFiniteSet(1..m)
    BY FS_Interval
  <2> QED
    BY <2>1, FS_Subset
<1>3. \E x \in s : \A k \in s : x >= k
  <2>1. PICK x \in s : \A k \in s : k <= x
    BY <1>1, <1>2, GreatestExists
  <2> QED
    BY <1>1, <2>1
<1> QED
  BY <1>3, Zenon DEF Max

\* A fold of sets of indices up to m, as FoldLeft builds it.
FoldOn(H, base, A, m, f) ==
  /\ f \in [SUBSET (1..m) -> A] /\ f[{}] = base
  /\ \A s \in SUBSET (1..m) : s # {} => f[s] = H[<<f[s \ {Max(s)}], Max(s)>>]

LEMMA FoldExists ==
  ASSUME NEW n \in Nat, NEW A, NEW base \in A, NEW H \in [A \X (1..n) -> A]
  PROVE  \E f : FoldOn(H, base, A, n, f)
<1> DEFINE Fold(m, f) == FoldOn(H, base, A, m, f)
           Reached == {m \in Nat : m <= n => \E f : Fold(m, f)}
<1>1. 0 \in Reached
  <2> DEFINE f == [s \in SUBSET (1..0) |-> base]
  <2>1. 1..0 = {}
    OBVIOUS
  <2>2. Fold(0, f)
    BY <2>1 DEF FoldOn
  <2> QED
    BY <2>2
<1>2. ASSUME NEW m \in Nat, m \in Reached PROVE m + 1 \in Reached
  <2> SUFFICES ASSUME m + 1 <= n PROVE \E f : Fold(m + 1, f)
    OBVIOUS
  <2>0. m <= n /\ m + 1 \in 1..n /\ m + 1 \notin 1..m /\ 1..(m + 1) = (1..m) \cup {m + 1}
    OBVIOUS
  <2>1. PICK f : Fold(m, f)
    BY <1>2, <2>0
  <2> DEFINE B(s) == s \ {m + 1}
             g == [s \in SUBSET (1..(m + 1)) |->
                     IF m + 1 \in s THEN H[<<f[B(s)], m + 1>>] ELSE f[s]]
  <2>2. \A s \in SUBSET (1..(m + 1)) : B(s) \in SUBSET (1..m) /\ (m + 1 \notin s => s \in SUBSET (1..m))
    BY <2>0
  <2>3. ASSUME NEW s \in SUBSET (1..(m + 1))
        PROVE  g[s] \in A
    BY <2>0, <2>1, <2>2 DEF FoldOn
  <2>4. g \in [SUBSET (1..(m + 1)) -> A]
    BY <2>3
  <2>5. g[{}] = base
    BY <2>1 DEF FoldOn
  <2>6. ASSUME NEW s \in SUBSET (1..(m + 1)), s # {}
        PROVE  g[s] = H[<<g[s \ {Max(s)}], Max(s)>>]
    <3>1. m + 1 \in Nat
      OBVIOUS
    <3>2. Max(s) \in s /\ \A k \in s : Max(s) >= k
      BY <2>6, <3>1, MaxIs, Zenon
    <3>3. CASE m + 1 \in s
      <4>1. Max(s) = m + 1
        <5>1. Max(s) \in 1..(m + 1) /\ Max(s) >= m + 1
          BY <3>2, <3>3
        <5> QED
          BY <5>1
      <4>2. g[s] = H[<<f[B(s)], m + 1>>]
        BY <3>3
      <4>3. g[B(s)] = f[B(s)]
        OBVIOUS
      <4> QED
        BY <4>1, <4>2, <4>3
    <3>4. CASE m + 1 \notin s
      <4>1. s \in SUBSET (1..m) /\ g[s] = f[s]
        BY <2>2, <3>4
      <4>2. g[s \ {Max(s)}] = f[s \ {Max(s)}]
        BY <3>4
      <4> QED
        BY <2>1, <2>6, <4>1, <4>2 DEF FoldOn
    <3> QED
      BY <3>3, <3>4
  <2> HIDE DEF g
  <2>7. Fold(m + 1, g)
    BY <2>4, <2>5, <2>6 DEF FoldOn
  <2> QED
    BY <2>7
<1> HIDE DEF Reached
<1>3. n \in Reached
  BY <1>1, <1>2, SetInduction
<1> QED
  BY <1>3 DEF Reached

-----------------------------------------------------------------------------
(* Lists.                                                                   *)

\* SetToSeq lists a finite set: every element, each once.
LEMMA SetToSeqLists ==
  ASSUME NEW S, IsFiniteSet(S)
  PROVE  /\ SetToSeq(S) \in Seq(S) /\ IsInjective(SetToSeq(S)) /\ Range(SetToSeq(S)) = S
         /\ \A x \in S : \E i \in DOMAIN SetToSeq(S) : SetToSeq(S)[i] = x
<1> DEFINE n == Cardinality(S)
<1>1. n \in Nat /\ ExistsBijection(1..n, S)
  BY FS_CardinalityType
<1>2. \E f \in [1..n -> S] : IsInjective(f)
  BY <1>1 DEF ExistsBijection, Bijection, Injection
<1>3. SetToSeq(S) \in [1..n -> S] /\ IsInjective(SetToSeq(S))
  BY <1>2 DEF SetToSeq
<1>4. SetToSeq(S) \in Injection(1..n, S)
  BY <1>3 DEF Injection
<1>5. IsFiniteSet(1..n) /\ Cardinality(1..n) = n
  BY <1>1, FS_Interval
<1>6. SetToSeq(S) \in Surjection(1..n, S)
  BY <1>4, <1>5, FS_Injection
<1> QED
  BY <1>1, <1>3, <1>6 DEF Surjection, Range

LEMMA AppendRange ==
  ASSUME NEW S, NEW s \in Seq(S), NEW x \in S
  PROVE  /\ Append(s, x) \in Seq(S) /\ Append(s, x) # <<>>
         /\ Range(Append(s, x)) = Range(s) \cup {x}
<1>1. /\ Len(s) \in Nat /\ DOMAIN s = 1..Len(s) /\ Append(s, x) \in Seq(S)
      /\ Len(Append(s, x)) = Len(s) + 1 /\ DOMAIN Append(s, x) = 1..(Len(s) + 1)
      /\ \A i \in 1..Len(s) : Append(s, x)[i] = s[i]
      /\ Append(s, x)[Len(s) + 1] = x
  OBVIOUS
<1>2. \A i \in 1..(Len(s) + 1) : i \in 1..Len(s) \/ i = Len(s) + 1
  BY <1>1
<1>3. Range(Append(s, x)) \subseteq Range(s) \cup {x}
  BY <1>1, <1>2 DEF Range
<1>4. Range(s) \cup {x} \subseteq Range(Append(s, x))
  BY <1>1 DEF Range
<1>5. Append(s, x) # <<>>
  BY <1>1
<1> QED
  BY <1>1, <1>3, <1>4, <1>5

\* A stretch of a sequence.
LEMMA SubSeqRange ==
  ASSUME NEW S, NEW s \in Seq(S), NEW m \in Nat \ {0}, NEW n \in 0..Len(s)
  PROVE  SubSeq(s, m, n) \in Seq(S) /\ Range(SubSeq(s, m, n)) \subseteq Range(s)
<1>1. /\ SubSeq(s, m, n) \in Seq(S)
      /\ \A i \in DOMAIN SubSeq(s, m, n) :
            i \in Nat /\ m + i - 1 \in DOMAIN s /\ SubSeq(s, m, n)[i] = s[m + i - 1]
  OBVIOUS
<1> QED
  BY <1>1 DEF Range

LEMMA ConcatRange ==
  ASSUME NEW S, NEW s \in Seq(S), NEW t \in Seq(S)
  PROVE  s \o t \in Seq(S) /\ Range(s \o t) = Range(s) \cup Range(t)
<1>1. /\ s \o t \in Seq(S) /\ Len(s) \in Nat /\ Len(t) \in Nat
      /\ DOMAIN s = 1..Len(s) /\ DOMAIN t = 1..Len(t) /\ DOMAIN (s \o t) = 1..(Len(s) + Len(t))
      /\ \A i \in 1..Len(s) : (s \o t)[i] = s[i]
      /\ \A i \in 1..Len(t) : (s \o t)[Len(s) + i] = t[i]
  OBVIOUS
<1>2. ASSUME NEW i \in 1..(Len(s) + Len(t)), i \notin 1..Len(s)
      PROVE  i - Len(s) \in 1..Len(t) /\ Len(s) + (i - Len(s)) = i
  BY <1>1, <1>2
<1>3. Range(s \o t) \subseteq Range(s) \cup Range(t)
  <2> SUFFICES ASSUME NEW i \in 1..(Len(s) + Len(t))
               PROVE  (s \o t)[i] \in Range(s) \cup Range(t)
    BY <1>1 DEF Range
  <2>1. CASE i \in 1..Len(s)
    BY <1>1, <2>1 DEF Range
  <2>2. CASE i \notin 1..Len(s)
    <3>1. i - Len(s) \in 1..Len(t) /\ (s \o t)[i] = t[i - Len(s)]
      BY <1>1, <1>2, <2>2
    <3> QED
      BY <1>1, <3>1 DEF Range
  <2> QED
    BY <2>1, <2>2
<1>4. Range(s) \subseteq Range(s \o t)
  <2>1. \A i \in 1..Len(s) : i \in 1..(Len(s) + Len(t))
    BY <1>1
  <2> QED
    BY <1>1, <2>1 DEF Range
<1>5. Range(t) \subseteq Range(s \o t)
  <2>1. \A i \in 1..Len(t) : Len(s) + i \in 1..(Len(s) + Len(t))
    BY <1>1
  <2> QED
    BY <1>1, <2>1 DEF Range
<1> QED
  BY <1>1, <1>3, <1>4, <1>5

\* FlattenSeq concatenates sequences over S to one over S, of their elements.
LEMMA FlattenIs ==
  ASSUME NEW S, NEW seqs \in Seq(Seq(S))
  PROVE  /\ FlattenSeq(seqs) \in Seq(S)
         /\ Range(FlattenSeq(seqs)) = UNION {Range(seqs[i]) : i \in DOMAIN seqs}
<1> DEFINE n == Len(seqs)
           A == Seq(S)
           Flat(f) == f = [i \in 1..n |-> IF i = 1 THEN seqs[i] ELSE f[i - 1] \o seqs[i]]
<1>0. n \in Nat /\ \A i \in 1..n : seqs[i] \in A
  OBVIOUS
<1>1. CASE n = 0
  <2>1. seqs = <<>> /\ <<>> \in Seq(S) /\ DOMAIN seqs = {}
    BY <1>1
  <2>2. FlattenSeq(seqs) = seqs
    BY <1>1 DEF FlattenSeq
  <2> QED
    BY <2>1, <2>2 DEF Range
<1>2. CASE n # 0
  <2> DEFINE H == [p \in A \X (1..n) |-> IF p[2] = 1 THEN seqs[1] ELSE p[1] \o seqs[p[2]]]
  <2> HIDE DEF n
  <2>0. 1 \in 1..n /\ <<>> \in A
    BY <1>0, <1>2
  <2>1. H \in [A \X (1..n) -> A]
    BY <1>0, <2>0
  <2> HIDE DEF A, H
  <2>2. PICK g : IsRecursion(g, n, A, <<>>, H)
    BY <1>0, <2>0, <2>1, RecursionExists
  <2> USE DEF A, H
  <2> DEFINE f == [i \in 1..n |-> g[i]]
  <2>3. ASSUME NEW i \in 1..n PROVE f[i] = IF i = 1 THEN seqs[i] ELSE f[i - 1] \o seqs[i]
    <3>1. i - 1 \in 0..n /\ (i # 1 => i - 1 \in 1..n)
      BY <1>0
    <3>2. g[i] = IF i = 1 THEN seqs[1] ELSE g[i - 1] \o seqs[i]
      BY <2>2, <3>1 DEF IsRecursion
    <3> QED
      BY <3>1, <3>2
  <2>4. Flat(f)
    BY <2>3
  <2> DEFINE flatten == CHOOSE h : Flat(h)
  <2>5. Flat(flatten)
    BY <2>4
  <2> DEFINE Upto(i) == UNION {Range(seqs[j]) : j \in 1..i}
             Listed == {i \in Nat : i + 1 \in 1..n =>
                           flatten[i + 1] \in A /\ Range(flatten[i + 1]) = Upto(i + 1)}
  <2>6. \A i \in 1..n : flatten[i] = IF i = 1 THEN seqs[i] ELSE flatten[i - 1] \o seqs[i]
    BY <2>5
  <2>7. FlattenSeq(seqs) = flatten[n]
    BY <1>2 DEF FlattenSeq, n
  <2> HIDE DEF flatten
  <2>8. 0 \in Listed
    <3>1. flatten[1] = seqs[1] /\ seqs[1] \in A
      BY <1>0, <2>0, <2>6
    <3>2. 1..1 = {1}
      OBVIOUS
    <3>3. Upto(1) = Range(seqs[1])
      BY <3>2
    <3>4. 0 \in Nat /\ 0 + 1 = 1
      OBVIOUS
    <3> QED
      BY <3>1, <3>3, <3>4
  <2>9. ASSUME NEW i \in Nat, i \in Listed PROVE i + 1 \in Listed
    <3> SUFFICES ASSUME i + 2 \in 1..n
                 PROVE  flatten[i + 2] \in A /\ Range(flatten[i + 2]) = Upto(i + 2)
      <4>1. i + 1 \in Nat /\ (i + 1) + 1 = i + 2
        OBVIOUS
      <4> QED
        BY <4>1
    <3>1. i + 1 \in 1..n /\ i + 2 # 1 /\ (i + 2) - 1 = i + 1
      BY <1>0
    <3>2. flatten[i + 2] = flatten[i + 1] \o seqs[i + 2]
      BY <2>6, <3>1
    <3>3. /\ flatten[i + 1] \in Seq(S) /\ seqs[i + 2] \in Seq(S)
          /\ Range(flatten[i + 1]) = Upto(i + 1)
      BY <1>0, <2>9, <3>1
    <3>4. /\ flatten[i + 2] \in Seq(S)
          /\ Range(flatten[i + 2]) = Upto(i + 1) \cup Range(seqs[i + 2])
      BY <3>2, <3>3, ConcatRange
    <3>5. 1..(i + 2) = (1..(i + 1)) \cup {i + 2}
      OBVIOUS
    <3>6. Upto(i + 2) = Upto(i + 1) \cup Range(seqs[i + 2])
      BY <3>5, Zenon
    <3> QED
      BY <3>4, <3>6
  <2> HIDE DEF Listed
  <2>10. n - 1 \in Listed /\ (n - 1) + 1 = n /\ n \in 1..n
    <3>1. n - 1 \in Nat /\ (n - 1) + 1 = n /\ n \in 1..n
      BY <1>0, <1>2
    <3>2. \A i \in Nat : i \in Listed
      BY <2>8, <2>9, SetInduction
    <3> QED
      BY <3>1, <3>2
  <2>11. FlattenSeq(seqs) \in A /\ Range(FlattenSeq(seqs)) = Upto(n)
    BY <2>7, <2>10 DEF Listed
  <2>12. DOMAIN seqs = 1..n
    BY DEF n
  <2> QED
    BY <2>11, <2>12
<1> QED
  BY <1>1, <1>2
=============================================================================
