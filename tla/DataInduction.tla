---------------------------- MODULE DataInduction ----------------------------
(***************************************************************************)
(* Induction over numbers, with a set in the place of a predicate, and     *)
(* what follows from it about functions defined by recursion over a finite *)
(* set: FoldLeft and FoldSet of the community modules are such functions.  *)
(* The sets that an induction could miss would have an injection into a    *)
(* smaller set, which FiniteSetTheorems excludes.                          *)
(***************************************************************************)
EXTENDS Integers, FiniteSets, FiniteSetsExt, SequencesExt, FiniteSetTheorems,
        SequenceTheorems, TLAPS


\* What holds of 0 and passes from each number below n to the next holds up to n:
\* the least counterexample m would make the numbers that are missing in 0 .. m
\* as many as those below m.
LEMMA Induction ==
  ASSUME NEW n \in Nat, NEW T,
         0 \in T,
         \A k \in 0 .. (n - 1) : k \in T => k + 1 \in T
  PROVE  \A k \in 0 .. n : k \in T
<1> SUFFICES ASSUME NEW m \in 0 .. n, m \notin T PROVE FALSE
    OBVIOUS
<1> DEFINE U == {k \in 0 .. m : k \notin T}
           pred == [k \in U |-> k - 1]
<1>1. IsFiniteSet(0 .. m)
    BY FS_Interval
<1>2. IsFiniteSet(U) /\ Cardinality(U) \in Nat
    BY <1>1, FS_Subset, FS_CardinalityType
<1>3. IsFiniteSet(U \ {m}) /\ Cardinality(U \ {m}) = Cardinality(U) - 1
    BY <1>2, FS_RemoveElement, m \in U
<1>4. pred \in Injection(U, U \ {m})
    BY DEF Injection, IsInjective
<1>5. QED
    BY <1>2, <1>3, <1>4, FS_Injection

\* pick chooses an element of each subset of D that is not empty.
Picks(pick, D) == \A s \in SUBSET D : s # {} => pick[s] \in s

\* g is the fold over the subsets of D that takes the elements away in the order
\* of pick: it satisfies the recursion.
Folding(g, D, base, step, pick) ==
  \A s \in SUBSET D : g[s] = IF s = {} THEN base
                            ELSE step[pick[s]][g[s \ {pick[s]}]]

\* There is such a fold, with values in V: recursion over a finite set defines a
\* function, so that the CHOOSE behind a recursive function finds one.
LEMMA FoldDefined ==
  ASSUME NEW D, IsFiniteSet(D), NEW V, NEW base \in V,
         NEW step \in [D -> [V -> V]],
         NEW pick, Picks(pick, D)
  PROVE  \E g \in [SUBSET D -> V] : Folding(g, D, base, step, pick)
<1> DEFINE Small(k) == {s \in SUBSET D : Cardinality(s) <= k}
           Rule(g, k) == \A s \in Small(k) :
                            g[s] = IF s = {} THEN base
                                   ELSE step[pick[s]][g[s \ {pick[s]}]]
           T == {k \in 0 .. Cardinality(D) : \E g \in [SUBSET D -> V] : Rule(g, k)}
<1>1. Cardinality(D) \in Nat
    BY FS_CardinalityType
<1>2. \A s \in SUBSET D : /\ IsFiniteSet(s) /\ Cardinality(s) \in 0 .. Cardinality(D)
                          /\ (Cardinality(s) = 0) <=> (s = {})
    BY <1>1, FS_Subset, FS_CardinalityType, FS_EmptySet
<1>3. \A s \in SUBSET D : s # {} => /\ s \ {pick[s]} \in SUBSET D
                                    /\ Cardinality(s \ {pick[s]}) = Cardinality(s) - 1
    BY <1>2, FS_RemoveElement DEF Picks
<1>4. 0 \in T
  <2> DEFINE g == [s \in SUBSET D |-> base]
  <2>1. g \in [SUBSET D -> V] /\ Rule(g, 0)
      BY <1>2
  <2> HIDE DEF g, Rule
  <2> QED
      BY <2>1, <1>1
<1>5. ASSUME NEW k \in 0 .. (Cardinality(D) - 1), k \in T
      PROVE  k + 1 \in T
  <2>1. PICK g \in [SUBSET D -> V] : Rule(g, k)
      BY <1>5
  <2> DEFINE h == [s \in SUBSET D |->
                      IF s = {} THEN base ELSE step[pick[s]][g[s \ {pick[s]}]]]
  <2>2. h \in [SUBSET D -> V]
      BY <1>3 DEF Picks
  <2>3. \A s \in Small(k) : h[s] = g[s]
      BY <2>1
  <2>4. \A s \in Small(k + 1) : s # {} => s \ {pick[s]} \in Small(k)
      BY <1>2, <1>3
  <2>5. Rule(h, k + 1)
      BY <2>3, <2>4, <1>3
  <2> HIDE DEF h, Rule
  <2> QED
      BY <2>2, <2>5, <1>1
<1>6. Cardinality(D) \in T
  <2> HIDE DEF T
  <2> QED
      BY <1>1, <1>4, <1>5, Induction
<1>7. PICK g \in [SUBSET D -> V] : Rule(g, Cardinality(D))
    BY <1>6
<1>8. \A s \in SUBSET D : s \in Small(Cardinality(D))
    BY <1>2
<1> QED
    BY <1>7, <1>8 DEF Folding

\* A set of numbers up to n that is not empty has a greatest element, and Max of
\* FiniteSetsExt is it.
LEMMA MaxFacts ==
  ASSUME NEW n \in Nat, NEW t \in SUBSET (1 .. n), t # {}
  PROVE  Max(t) \in t /\ \A i \in t : i <= Max(t)
<1> DEFINE HasMax(u) == \E m \in u : \A i \in u : i <= m
           T == {k \in 0 .. n : \A u \in SUBSET (1 .. k) : u # {} => HasMax(u)}
<1>1. 0 \in T
  <2> SUFFICES ASSUME NEW u \in SUBSET (1 .. 0), u # {} PROVE HasMax(u)
      OBVIOUS
  <2>1. PICK x \in u : x \in 1 .. 0
      OBVIOUS
  <2> QED
      BY <2>1
<1>2. ASSUME NEW k \in 0 .. (n - 1), k \in T
      PROVE  k + 1 \in T
  <2> SUFFICES ASSUME NEW u \in SUBSET (1 .. (k + 1)), u # {} PROVE HasMax(u)
      OBVIOUS
  <2>1. CASE k + 1 \in u
      BY <2>1
  <2>2. CASE k + 1 \notin u
    <3>1. u \in SUBSET (1 .. k)
        BY <2>2
    <3> QED
        BY <3>1, <1>2
  <2> QED
      BY <2>1, <2>2
<1>3. n \in T
  <2> HIDE DEF T
  <2> QED
      BY <1>1, <1>2, Induction
<1>4. HasMax(t)
    BY <1>3
<1> QED
    BY <1>4 DEF Max

-----------------------------------------------------------------------------
(* Sequences of sequences: FlattenSeq is such a function *)

\* f has the values of a recursion over the numbers up to n.
Recurs(f, n, base, step) ==
  /\ f[0] = base
  /\ \A k \in 1 .. n : f[k] = step[k][f[k - 1]]

\* Recursion over the numbers up to n has a solution with values in V.
LEMMA Recursion ==
  ASSUME NEW n \in Nat, NEW V, NEW base \in V, NEW step \in [1 .. n -> [V -> V]]
  PROVE  \E f \in [0 .. n -> V] : Recurs(f, n, base, step)
<1> DEFINE D == 1 .. n
           pick == [t \in SUBSET D |-> Max(t)]
<1>1. Picks(pick, D)
    BY MaxFacts DEF Picks
<1>2. IsFiniteSet(D)
    BY FS_Interval
<1>3. PICK g \in [SUBSET D -> V] : Folding(g, D, base, step, pick)
  <2> HIDE DEF D, pick
  <2>1. step \in [D -> [V -> V]]
      BY DEF D
  <2> QED
      BY <1>1, <1>2, <2>1, FoldDefined
<1> DEFINE f == [k \in 0 .. n |-> g[1 .. k]]
<1>4. f \in [0 .. n -> V] /\ f[0] = base
  <2>1. \A k \in 0 .. n : 1 .. k \in SUBSET D
      OBVIOUS
  <2>2. 1 .. 0 = {}
      OBVIOUS
  <2>3. g[{}] = base
      BY <1>3 DEF Folding
  <2>4. \A k \in 0 .. n : g[1 .. k] \in V
      BY <1>3, <2>1
  <2>5. 0 \in 0 .. n
      OBVIOUS
  <2> QED
      BY <2>2, <2>3, <2>4, <2>5
<1>5. ASSUME NEW k \in 1 .. n PROVE f[k] = step[k][f[k - 1]]
  <2> DEFINE t == 1 .. k
  <2>1. t \in SUBSET D /\ t # {} /\ k \in t /\ k - 1 \in 0 .. n /\ k \in 0 .. n
    <3>1. k \in t /\ k - 1 \in 0 .. n /\ k \in 0 .. n
        OBVIOUS
    <3>2. \A i \in t : i \in D
        OBVIOUS
    <3> QED
        BY <3>1, <3>2
  <2>2. Max(t) = k
    <3> HIDE DEF t
    <3>1. Max(t) \in t /\ \A i \in t : i <= Max(t)
        BY <2>1, MaxFacts
    <3> QED
        BY <2>1, <3>1 DEF t
  <2>3. t \ {k} = 1 .. (k - 1)
      OBVIOUS
  <2>4. g[t] = step[k][g[1 .. (k - 1)]]
    <3> HIDE DEF t
    <3>1. pick[t] = k
        BY <2>1, <2>2
    <3>2. g[t] = step[pick[t]][g[t \ {pick[t]}]]
        BY <1>3, <2>1 DEF Folding
    <3> QED
        BY <2>3, <3>1, <3>2
  <2> QED
      BY <2>1, <2>4
<1> QED
    BY <1>4, <1>5 DEF Recurs

\* Two functions that start alike and go on alike are the same up to n.
LEMMA SameSteps ==
  ASSUME NEW n \in Nat, NEW f, NEW g, f[0] = g[0],
         \A k \in 0 .. (n - 1) : f[k] = g[k] => f[k + 1] = g[k + 1]
  PROVE  \A k \in 0 .. n : f[k] = g[k]
<1> DEFINE T == {k \in 0 .. n : f[k] = g[k]}
<1>1. 0 \in T
    OBVIOUS
<1>2. \A k \in 0 .. (n - 1) : k \in T => k + 1 \in T
    OBVIOUS
<1>3. \A k \in 0 .. n : k \in T
  <2> HIDE DEF T
  <2> QED
      BY <1>1, <1>2, Induction
<1> QED
    BY <1>3

\* Sequences put together one after the other: f holds what FlattenSeq has after
\* each of them.
Flattens(f, ss) ==
  /\ f[0] = <<>>
  /\ \A k \in 1 .. Len(ss) : f[k] = f[k - 1] \o ss[k]

\* Some function joins the first k sequences, for each k.
LEMMA FlattensExists ==
  ASSUME NEW T, NEW ss \in Seq(Seq(T))
  PROVE  \E f \in [0 .. Len(ss) -> Seq(T)] : Flattens(f, ss)
<1> DEFINE n == Len(ss)
           V == Seq(T)
           base == <<>>
           step == [k \in 1 .. n |-> [x \in V |-> x \o ss[k]]]
<1>1. n \in Nat /\ base \in V
    OBVIOUS
<1>2. \A k \in 1 .. n : \A x \in V : x \o ss[k] \in V
    OBVIOUS
<1>3. step \in [1 .. n -> [V -> V]]
  <2> HIDE DEF n, V
  <2> QED
      BY <1>1, <1>2
<1>4. \A k \in 1 .. n : \A x \in V : step[k][x] = x \o ss[k]
  <2> HIDE DEF n, V
  <2> QED
      OBVIOUS
<1> HIDE DEF n, V, base, step
<1>5. PICK f \in [0 .. n -> V] : Recurs(f, n, base, step)
    BY <1>1, <1>3, Recursion
<1>6. \A k \in 1 .. n : f[k - 1] \in V
    BY <1>1, <1>5
<1>7. \A k \in 1 .. n : f[k] = f[k - 1] \o ss[k]
    BY <1>4, <1>5, <1>6 DEF Recurs
<1>8. Flattens(f, ss)
    BY <1>5, <1>7 DEF Flattens, Recurs, n, base
<1> QED
    BY <1>5, <1>8 DEF n, V

\* FlattenSeq is the last value of such a function.
LEMMA FlattenIs ==
  ASSUME NEW T, NEW ss \in Seq(Seq(T)),
         NEW f \in [0 .. Len(ss) -> Seq(T)], Flattens(f, ss)
  PROVE  FlattenSeq(ss) = f[Len(ss)]
<1> DEFINE n == Len(ss)
           Equation(h) == h = [i \in 1 .. n |-> IF i = 1 THEN ss[i] ELSE h[i - 1] \o ss[i]]
           flat == CHOOSE h : Equation(h)
           front == [i \in 1 .. n |-> f[i]]
           g == [k \in 0 .. n |-> IF k = 0 THEN <<>> ELSE flat[k]]
<1>1. n \in Nat /\ \A k \in 1 .. n : ss[k] \in Seq(T)
    OBVIOUS
<1>2. FlattenSeq(ss) = IF n = 0 THEN ss ELSE flat[n]
    BY DEF FlattenSeq
<1>3. n = 0 => ss = <<>>
    OBVIOUS
<1>4. f[0] = <<>> /\ \A k \in 1 .. n : f[k] = f[k - 1] \o ss[k]
    BY DEF Flattens
<1>5. n >= 1 => f[1] = ss[1]
  <2> SUFFICES ASSUME n >= 1 PROVE f[1] = ss[1]
      OBVIOUS
  <2> HIDE DEF n
  <2>1. 1 \in 1 .. n /\ 1 - 1 = 0
      BY <1>1
  <2>2. f[1] = <<>> \o ss[1] /\ ss[1] \in Seq(T)
      BY <1>1, <1>4, <2>1
  <2> QED
      BY <2>2, ConcatEmptySeq
<1> HIDE DEF n, g
<1>6. Equation(front)
  <2>1. ASSUME NEW i \in 1 .. n
        PROVE  f[i] = IF i = 1 THEN ss[i] ELSE front[i - 1] \o ss[i]
    <3>1. CASE i = 1
        BY <1>1, <1>5, <3>1
    <3>2. CASE i # 1
      <4>1. i - 1 \in 1 .. n
          BY <3>2, <1>1
      <4>2. front[i - 1] = f[i - 1]
          BY <4>1
      <4> HIDE DEF front
      <4> QED
          BY <1>4, <3>2, <4>2
    <3> QED
        BY <3>1, <3>2
  <2> QED
      BY <2>1
<1>7. Equation(flat)
  <2> HIDE DEF Equation
  <2> QED
      BY <1>6
<1> HIDE DEF flat
<1>8. \A i \in 1 .. n : flat[i] = IF i = 1 THEN ss[i] ELSE flat[i - 1] \o ss[i]
    BY <1>7
<1>9. g[0] = <<>> /\ \A k \in 1 .. n : g[k] = flat[k]
    BY <1>1 DEF g
<1>10. ASSUME NEW k \in 0 .. (n - 1), g[k] = f[k]
       PROVE  g[k + 1] = f[k + 1]
  <2>1. k + 1 \in 1 .. n /\ (k + 1) - 1 = k
      BY <1>1
  <2>2. g[k + 1] = flat[k + 1] /\ f[k + 1] = f[k] \o ss[k + 1]
      BY <1>4, <1>9, <2>1
  <2>3. CASE k = 0
    <3>1. 1 \in 1 .. n /\ k + 1 = 1 /\ n >= 1
        BY <1>1, <2>1, <2>3
    <3> QED
        BY <1>5, <1>8, <2>2, <3>1
  <2>4. CASE k # 0
    <3>1. k \in 1 .. n /\ k + 1 # 1
        BY <1>1, <2>4
    <3>2. flat[k + 1] = flat[k] \o ss[k + 1]
        BY <1>8, <2>1, <3>1
    <3> QED
        BY <1>9, <1>10, <2>2, <3>1, <3>2
  <2> QED
      BY <2>3, <2>4
<1>11. g[0] = f[0] /\ \A k \in 0 .. (n - 1) : g[k] = f[k] => g[k + 1] = f[k + 1]
    BY <1>4, <1>9, <1>10
<1>12. \A k \in 0 .. n : g[k] = f[k]
    BY <1>1, <1>11, SameSteps
<1>13. CASE n = 0
    BY <1>2, <1>3, <1>4, <1>13 DEF n
<1>14. CASE n # 0
  <2>1. n \in 1 .. n /\ n \in 0 .. n
      BY <1>1, <1>14
  <2> QED
      BY <1>2, <1>9, <1>12, <1>14, <2>1 DEF n
<1> QED
    BY <1>13, <1>14

\* The members of two sequences are those of their concatenation.
LEMMA ConcatMembers ==
  ASSUME NEW T, NEW a \in Seq(T), NEW b \in Seq(T)
  PROVE  ToSet(a \o b) = ToSet(a) \union ToSet(b)
<1>1. /\ Len(a) \in Nat /\ Len(b) \in Nat /\ Len(a \o b) = Len(a) + Len(b)
      /\ \A i \in 1 .. Len(a) : (a \o b)[i] = a[i]
      /\ \A i \in 1 .. Len(b) : (a \o b)[i + Len(a)] = b[i]
    OBVIOUS
<1>2. /\ DOMAIN a = 1 .. Len(a) /\ DOMAIN b = 1 .. Len(b)
      /\ DOMAIN (a \o b) = 1 .. Len(a \o b)
    OBVIOUS
<1>3. ASSUME NEW x \in ToSet(a \o b) PROVE x \in ToSet(a) \/ x \in ToSet(b)
  <2>1. PICK i \in 1 .. Len(a \o b) : x = (a \o b)[i]
      BY <1>2 DEF ToSet
  <2>2. CASE i \in 1 .. Len(a)
      BY <1>1, <1>2, <2>1, <2>2 DEF ToSet
  <2>3. CASE i \notin 1 .. Len(a)
    <3>1. i - Len(a) \in 1 .. Len(b) /\ (i - Len(a)) + Len(a) = i
        BY <1>1, <2>1, <2>3
    <3>2. x = b[i - Len(a)]
        BY <1>1, <2>1, <3>1
    <3> QED
        BY <1>2, <3>1, <3>2 DEF ToSet
  <2> QED
      BY <2>2, <2>3
<1>4. ASSUME NEW x \in ToSet(a) PROVE x \in ToSet(a \o b)
  <2>1. PICK i \in 1 .. Len(a) : x = a[i]
      BY <1>2 DEF ToSet
  <2>2. i \in 1 .. Len(a \o b) /\ (a \o b)[i] = x
      BY <1>1, <2>1
  <2> QED
      BY <1>2, <2>2 DEF ToSet
<1>5. ASSUME NEW x \in ToSet(b) PROVE x \in ToSet(a \o b)
  <2>1. PICK i \in 1 .. Len(b) : x = b[i]
      BY <1>2 DEF ToSet
  <2>2. i + Len(a) \in 1 .. Len(a \o b) /\ (a \o b)[i + Len(a)] = x
      BY <1>1, <2>1
  <2> QED
      BY <1>2, <2>2 DEF ToSet
<1> QED
    BY <1>3, <1>4, <1>5

\* FlattenSeq has the elements of the sequences and no others.
LEMMA FlattenMembers ==
  ASSUME NEW T, NEW ss \in Seq(Seq(T))
  PROVE  /\ FlattenSeq(ss) \in Seq(T)
         /\ ToSet(FlattenSeq(ss)) = UNION {ToSet(ss[k]) : k \in 1 .. Len(ss)}
<1> DEFINE n == Len(ss)
           First(k) == UNION {ToSet(ss[j]) : j \in 1 .. k}
<1>1. PICK f \in [0 .. n -> Seq(T)] : Flattens(f, ss)
    BY FlattensExists
<1>2. FlattenSeq(ss) = f[n]
    BY <1>1, FlattenIs
<1>3. n \in Nat /\ \A k \in 1 .. n : ss[k] \in Seq(T)
    OBVIOUS
<1>4. f[0] = <<>> /\ \A k \in 1 .. n : f[k] = f[k - 1] \o ss[k]
    BY <1>1 DEF Flattens
<1> HIDE DEF n
<1> DEFINE K == {k \in 0 .. n : ToSet(f[k]) = First(k)}
<1>5. 0 \in K
  <2>1. ToSet(<<>>) = {}
      BY DEF ToSet
  <2>2. First(0) = {}
      OBVIOUS
  <2>3. ToSet(f[0]) = First(0)
      BY <1>4, <2>1, <2>2
  <2>4. 0 \in 0 .. n
      BY <1>3
  <2> HIDE DEF First
  <2> QED
      BY <2>3, <2>4
<1>6. ASSUME NEW k \in 0 .. (n - 1), k \in K
      PROVE  k + 1 \in K
  <2>1. k + 1 \in 1 .. n /\ (k + 1) - 1 = k /\ k \in 0 .. n /\ k + 1 \in 0 .. n
      BY <1>3
  <2>2. f[k + 1] = f[k] \o ss[k + 1] /\ f[k] \in Seq(T) /\ ss[k + 1] \in Seq(T)
      BY <1>1, <1>3, <1>4, <2>1
  <2>3. ToSet(f[k + 1]) = ToSet(f[k]) \union ToSet(ss[k + 1])
      BY <2>2, ConcatMembers
  <2>4. First(k + 1) = First(k) \union ToSet(ss[k + 1])
    <3>1. \A j \in Nat : j \in 1 .. (k + 1) <=> j \in 1 .. k \/ j = k + 1
        BY <1>3
    <3>2. k \in Nat /\ k + 1 \in 1 .. (k + 1) /\ \A j \in 1 .. k : j \in Nat /\ j \in 1 .. (k + 1)
        BY <1>3
    <3>3. \A x \in First(k) : x \in First(k + 1)
        BY <3>2
    <3>4. \A x \in ToSet(ss[k + 1]) : x \in First(k + 1)
        BY <3>2
    <3>5. ASSUME NEW x \in First(k + 1)
          PROVE  x \in First(k) \/ x \in ToSet(ss[k + 1])
      <4>1. PICK j \in 1 .. (k + 1) : x \in ToSet(ss[j])
          OBVIOUS
      <4>2. j \in 1 .. k \/ j = k + 1
          BY <3>1, <4>1
      <4> QED
          BY <4>1, <4>2
    <3> HIDE DEF First
    <3> QED
        BY <3>3, <3>4, <3>5
  <2> HIDE DEF First
  <2> QED
      BY <1>6, <2>1, <2>3, <2>4
<1>7. \A k \in 0 .. n : k \in K
  <2> HIDE DEF K
  <2> QED
      BY <1>3, <1>5, <1>6, Induction
<1>8. n \in 0 .. n
    BY <1>3
<1> QED
    BY <1>1, <1>2, <1>7, <1>8 DEF n

\* b is a, but for its last sequence, which has more at its end.
Lengthens(b, a, more) ==
  /\ Len(a) > 0 /\ Len(b) = Len(a)
  /\ \A k \in 1 .. (Len(a) - 1) : b[k] = a[k]
  /\ b[Len(a)] = a[Len(a)] \o more

\* What is appended to the last of the sequences comes last.
LEMMA FlattenExtend ==
  ASSUME NEW T, NEW a \in Seq(Seq(T)), NEW b \in Seq(Seq(T)), NEW more \in Seq(T),
         Lengthens(b, a, more)
  PROVE  FlattenSeq(b) = FlattenSeq(a) \o more
<1>0. \A x, y \in Seq(T) : (x \o y) \o more = x \o (y \o more)
    BY ConcatAssociative
<1> DEFINE n == Len(a)
<1>1. PICK f \in [0 .. n -> Seq(T)] : Flattens(f, a)
    BY FlattensExists
<1>2. FlattenSeq(a) = f[n]
    BY <1>1, FlattenIs
<1>3. n \in Nat /\ n > 0 /\ Len(b) = n /\ \A k \in 1 .. n : a[k] \in Seq(T)
    BY DEF Lengthens
<1>4. f[0] = <<>> /\ \A k \in 1 .. n : f[k] = f[k - 1] \o a[k]
    BY <1>1 DEF Flattens
<1>5. /\ \A k \in 1 .. (n - 1) : b[k] = a[k]
      /\ b[n] = a[n] \o more
    BY DEF Lengthens
<1> HIDE DEF n
<1> DEFINE g == [k \in 0 .. n |-> IF k = n THEN f[n] \o more ELSE f[k]]
<1>6. f[n] \o more \in Seq(T) /\ n \in 0 .. n
    BY <1>1, <1>3
<1>7. g \in [0 .. n -> Seq(T)]
    BY <1>1, <1>6
<1>8. g[0] = <<>> /\ g[n] = f[n] \o more /\ \A k \in 0 .. (n - 1) : g[k] = f[k]
  <2>1. 0 \in 0 .. n /\ 0 # n
      BY <1>3
  <2>2. \A k \in 0 .. (n - 1) : k \in 0 .. n /\ k # n
      BY <1>3
  <2> QED
      BY <1>4, <1>6, <2>1, <2>2
<1> HIDE DEF g
<1>9. ASSUME NEW k \in 1 .. n PROVE g[k] = g[k - 1] \o b[k]
  <2>1. k - 1 \in 0 .. (n - 1) /\ k - 1 \in 0 .. n /\ f[k - 1] \in Seq(T) /\ a[k] \in Seq(T)
      BY <1>1, <1>3
  <2>2. CASE k = n
    <3>1. g[k] = (f[k - 1] \o a[k]) \o more
        BY <1>4, <1>8, <2>2
    <3>2. (f[k - 1] \o a[k]) \o more = f[k - 1] \o (a[k] \o more)
      <4>1. f[k - 1] \in Seq(T) /\ a[k] \in Seq(T)
          BY <2>1
      <4> QED
          BY <1>0, <4>1
    <3> QED
        BY <1>5, <1>8, <2>1, <2>2, <3>1, <3>2
  <2>3. CASE k # n
    <3>1. k \in 1 .. (n - 1) /\ k \in 0 .. (n - 1)
        BY <1>3, <2>3
    <3> QED
        BY <1>4, <1>5, <1>8, <2>1, <3>1
  <2> QED
      BY <2>2, <2>3
<1>10. Flattens(g, b)
    BY <1>3, <1>8, <1>9 DEF Flattens
<1>11. FlattenSeq(b) = g[n]
    BY <1>3, <1>7, <1>10, FlattenIs
<1> QED
    BY <1>2, <1>8, <1>11

\* FlattenSeq of two lists of sequences one after the other.
LEMMA FlattenConcat ==
  ASSUME NEW T, NEW a \in Seq(Seq(T)), NEW b \in Seq(Seq(T))
  PROVE  FlattenSeq(a \o b) = FlattenSeq(a) \o FlattenSeq(b)
<1> DEFINE n == Len(a)
           m == Len(b)
           c == a \o b
<1>1. PICK f \in [0 .. n -> Seq(T)] : Flattens(f, a)
    BY FlattensExists
<1>2. PICK h \in [0 .. m -> Seq(T)] : Flattens(h, b)
    BY FlattensExists
<1>3. FlattenSeq(a) = f[n] /\ FlattenSeq(b) = h[m]
    BY <1>1, <1>2, FlattenIs
<1>4. /\ n \in Nat /\ m \in Nat /\ Len(c) = n + m /\ c \in Seq(Seq(T))
      /\ \A k \in 1 .. n : a[k] \in Seq(T) /\ c[k] = a[k]
      /\ \A k \in 1 .. m : b[k] \in Seq(T) /\ c[k + n] = b[k]
    OBVIOUS
<1>5. f[0] = <<>> /\ \A k \in 1 .. n : f[k] = f[k - 1] \o a[k]
    BY <1>1 DEF Flattens
<1>6. h[0] = <<>> /\ \A k \in 1 .. m : h[k] = h[k - 1] \o b[k]
    BY <1>2 DEF Flattens
<1> HIDE DEF n, m, c
<1> DEFINE g == [k \in 0 .. (n + m) |-> IF k <= n THEN f[k] ELSE f[n] \o h[k - n]]
<1>7. n \in 0 .. n /\ f[n] \in Seq(T) /\ \A k \in 0 .. m : f[n] \o h[k] \in Seq(T)
    BY <1>1, <1>2, <1>4
<1>8. g \in [0 .. (n + m) -> Seq(T)]
  <2>1. ASSUME NEW k \in 0 .. (n + m)
        PROVE  (IF k <= n THEN f[k] ELSE f[n] \o h[k - n]) \in Seq(T)
    <3>1. k <= n => k \in 0 .. n
        BY <1>4
    <3>2. k > n => k - n \in 0 .. m
        BY <1>4
    <3> QED
        BY <1>1, <1>4, <1>7, <3>1, <3>2
  <2> QED
      BY <2>1
<1>9. /\ \A k \in 0 .. n : g[k] = f[k]
      /\ \A k \in 0 .. m : g[k + n] = f[n] \o h[k]
  <2>1. \A k \in 0 .. n : g[k] = f[k]
      BY <1>4
  <2>2. ASSUME NEW k \in 0 .. m PROVE g[k + n] = f[n] \o h[k]
    <3>1. CASE k = 0
      <4>1. f[n] \o <<>> = f[n]
          BY <1>7, ConcatEmptySeq
      <4>2. k + n = n /\ h[k] = <<>>
          BY <1>4, <1>6, <3>1
      <4>3. g[n] = f[n]
          BY <1>7, <2>1
      <4> HIDE DEF g
      <4> QED
          BY <4>1, <4>2, <4>3
    <3>2. CASE k # 0
      <4>1. k + n \in 0 .. (n + m) /\ ~(k + n <= n) /\ (k + n) - n = k
          BY <1>4, <3>2
      <4> QED
          BY <4>1
    <3> QED
        BY <3>1, <3>2
  <2> QED
      BY <2>1, <2>2
<1> HIDE DEF g
<1>10. ASSUME NEW k \in 1 .. (n + m) PROVE g[k] = g[k - 1] \o c[k]
  <2>1. CASE k \in 1 .. n
    <3>1. k \in 0 .. n /\ k - 1 \in 0 .. n
        BY <1>4, <2>1
    <3> QED
        BY <1>4, <1>5, <1>9, <2>1, <3>1
  <2>2. CASE k \notin 1 .. n
    <3> DEFINE j == k - n
    <3>1. j \in 1 .. m /\ j \in 0 .. m /\ j - 1 \in 0 .. m /\ j + n = k /\ (j - 1) + n = k - 1
        BY <1>4, <2>2
    <3> HIDE DEF j
    <3>2. g[k] = f[n] \o (h[j - 1] \o b[j])
        BY <1>6, <1>9, <3>1
    <3>3. g[k - 1] \o c[k] = (f[n] \o h[j - 1]) \o b[j]
        BY <1>4, <1>9, <3>1
    <3>4. h[j - 1] \in Seq(T) /\ b[j] \in Seq(T)
        BY <1>2, <1>4, <3>1
    <3> DEFINE w == f[n]
               x == h[j - 1]
               y == b[j]
    <3>5. w \in Seq(T) /\ x \in Seq(T) /\ y \in Seq(T)
        BY <1>7, <3>4
    <3> HIDE DEF w, x, y
    <3>6. (w \o x) \o y = w \o (x \o y)
        BY <3>5, ConcatAssociative
    <3> QED
        BY <3>2, <3>3, <3>6 DEF w, x, y
  <2> QED
      BY <2>1, <2>2
<1>11. Flattens(g, c)
  <2>1. 0 \in 0 .. n
      BY <1>4
  <2> QED
      BY <1>4, <1>5, <1>9, <1>10, <2>1 DEF Flattens
<1>12. FlattenSeq(c) = g[n + m]
    BY <1>4, <1>8, <1>11, FlattenIs
<1>13. g[m + n] = f[n] \o h[m] /\ m + n = n + m
    BY <1>4, <1>9
<1> QED
    BY <1>3, <1>12, <1>13 DEF c

\* Flattening one sequence gives that sequence.
LEMMA FlattenOne ==
  ASSUME NEW T, NEW s \in Seq(T)
  PROVE  FlattenSeq(<<s>>) = s
<1> DEFINE f == [k \in 0 .. 1 |-> IF k = 0 THEN <<>> ELSE s]
<1>1. f \in [0 .. 1 -> Seq(T)] /\ f[0] = <<>> /\ f[1] = s
    OBVIOUS
<1>2. <<s>> \in Seq(Seq(T)) /\ Len(<<s>>) = 1 /\ <<s>>[1] = s
    OBVIOUS
<1>3. <<>> \o s = s
    BY ConcatEmptySeq
<1>4. \A k \in 1 .. 1 : f[k] = f[k - 1] \o <<s>>[k]
  <2> HIDE DEF f
  <2> QED
      BY <1>1, <1>2, <1>3
<1> HIDE DEF f
<1>5. Flattens(f, <<s>>)
    BY <1>1, <1>2, <1>4 DEF Flattens
<1> QED
    BY <1>1, <1>2, <1>5, FlattenIs

\* Flattening no sequences gives the empty one.
LEMMA FlattenEmpty == FlattenSeq(<<>>) = <<>>
BY DEF FlattenSeq

\* Lists of the same shape have the same length put together.
LEMMA FlattenLength ==
  ASSUME NEW T, NEW U, NEW a \in Seq(Seq(T)), NEW b \in Seq(Seq(U)), Len(b) = Len(a),
         \A k \in 1 .. Len(a) : Len(b[k]) = Len(a[k])
  PROVE  Len(FlattenSeq(b)) = Len(FlattenSeq(a))
<1> DEFINE n == Len(a)
<1>1. PICK f \in [0 .. n -> Seq(T)] : Flattens(f, a)
    BY FlattensExists
<1>2. PICK h \in [0 .. n -> Seq(U)] : Flattens(h, b)
    BY FlattensExists
<1>3. FlattenSeq(a) = f[n] /\ FlattenSeq(b) = h[n]
    BY <1>1, <1>2, FlattenIs
<1>4. /\ n \in Nat /\ Len(b) = n
      /\ \A k \in 1 .. n : a[k] \in Seq(T) /\ b[k] \in Seq(U) /\ Len(b[k]) = Len(a[k])
    OBVIOUS
<1>5. f[0] = <<>> /\ \A k \in 1 .. n : f[k] = f[k - 1] \o a[k]
    BY <1>1 DEF Flattens
<1>6. h[0] = <<>> /\ \A k \in 1 .. n : h[k] = h[k - 1] \o b[k]
    BY <1>2, <1>4 DEF Flattens
<1> HIDE DEF n
<1> DEFINE p == [k \in 0 .. n |-> Len(f[k])]
           q == [k \in 0 .. n |-> Len(h[k])]
<1>7. p[0] = q[0]
    BY <1>4, <1>5, <1>6
<1>8. ASSUME NEW k \in 0 .. (n - 1), p[k] = q[k] PROVE p[k + 1] = q[k + 1]
  <2>1. k + 1 \in 1 .. n /\ (k + 1) - 1 = k /\ k \in 0 .. n /\ k + 1 \in 0 .. n
      BY <1>4
  <2>2. /\ f[k + 1] = f[k] \o a[k + 1] /\ f[k] \in Seq(T) /\ a[k + 1] \in Seq(T)
        /\ h[k + 1] = h[k] \o b[k + 1] /\ h[k] \in Seq(U) /\ b[k + 1] \in Seq(U)
      BY <1>1, <1>2, <1>4, <1>5, <1>6, <2>1
  <2>3. Len(f[k] \o a[k + 1]) = Len(f[k]) + Len(a[k + 1])
      BY <2>2
  <2>4. Len(h[k] \o b[k + 1]) = Len(h[k]) + Len(b[k + 1])
      BY <2>2
  <2>5. Len(f[k]) = Len(h[k]) /\ Len(b[k + 1]) = Len(a[k + 1])
      BY <1>4, <1>8, <2>1
  <2> QED
      BY <2>1, <2>2, <2>3, <2>4, <2>5
<1> HIDE DEF p, q
<1>9. \A k \in 0 .. n : p[k] = q[k]
  <2>1. \A k \in 0 .. (n - 1) : p[k] = q[k] => p[k + 1] = q[k + 1]
      BY <1>8
  <2>2. n \in Nat /\ p[0] = q[0]
      BY <1>4, <1>7
  <2> QED
      BY <2>1, <2>2, SameSteps
<1>10. n \in 0 .. n
    BY <1>4
<1> QED
    BY <1>3, <1>9, <1>10 DEF p, q
=============================================================================
