------------------------------ MODULE FoldLemmas ------------------------------
(***************************************************************************)
(* What the other proofs need of recursion over the natural numbers and of *)
(* folds over sequences.  No prover takes an induction theorem, which has  *)
(* an operator as its parameter: here induction is over sets of natural    *)
(* numbers (SetInduction), from the least member that every such set has.  *)
(*                                                                         *)
(* FoldLeft is defined with a function on the sets of indices that are     *)
(* left, and CHOOSE: such a function exists (FoldExists), and any such     *)
(* function has a value for every prefix, made of that of the prefix       *)
(* before (FoldPrefixes).                                                  *)
(***************************************************************************)
EXTENDS Naturals, Sequences, SequencesExt, TLAPS, WellFoundedInduction, SequenceTheorems

\* Every set of natural numbers that is not empty has a least member.
LEMMA LeastNat ==
  ASSUME NEW T \in SUBSET Nat, T # {}
  PROVE  \E x \in T : \A y \in T : x <= y
<1>1. PICK x \in T : \A y \in T : <<y, x>> \notin OpToRel(<, Nat)
  BY NatLessThanWellFounded, WFMin
<1>2. ASSUME NEW y \in T, y < x PROVE FALSE
  <2>1. <<y, x>> \in OpToRel(<, Nat)
    BY <1>2 DEF OpToRel
  <2> QED
    BY <1>1, <2>1
<1> QED
  BY <1>2

\* Induction, stated of a set: it is what the provers can be given of it.
LEMMA SetInduction ==
  ASSUME NEW S \in SUBSET Nat, 0 \in S, \A n \in S : n + 1 \in S
  PROVE  S = Nat
<1> SUFFICES ASSUME Nat \ S # {} PROVE FALSE
  OBVIOUS
<1>1. PICK x \in Nat \ S : \A y \in Nat \ S : x <= y
  <2>1. Nat \ S \in SUBSET Nat
    OBVIOUS
  <2> QED
    BY <2>1, LeastNat
<1>2. x - 1 \in Nat /\ x - 1 \notin S
  BY <1>1
<1> QED
  BY <1>1, <1>2

\* A recursion over the natural numbers has a solution.
HasRecursion(X) ==
  \A x0 \in X : \A step \in [Nat -> [X -> X]] :
    \E g \in [Nat -> X] : g[0] = x0 /\ \A n \in Nat : g[n + 1] = step[n][g[n]]

\* By induction, for as many steps as there are.
LEMMA Recursion == \A X : HasRecursion(X)
<1> SUFFICES ASSUME NEW X, NEW x0 \in X, NEW step \in [Nat -> [X -> X]]
             PROVE  \E g \in [Nat -> X] :
                      g[0] = x0 /\ \A n \in Nat : g[n + 1] = step[n][g[n]]
  BY DEF HasRecursion
<1> DEFINE App(g, n) == /\ g \in [0 .. n -> X] /\ g[0] = x0
                        /\ \A k \in Nat : k < n => g[k + 1] = step[k][g[k]]
           S == {n \in Nat : \E g : App(g, n)}
           app(n) == CHOOSE g : App(g, n)
<1>1. 0 \in S
  <2>1. App([k \in 0 .. 0 |-> x0], 0)
    OBVIOUS
  <2> QED
    BY <2>1
<1>2. ASSUME NEW n \in S PROVE n + 1 \in S
  <2>1. PICK g : App(g, n)
    OBVIOUS
  <2> DEFINE h == [k \in 0 .. n + 1 |-> IF k = n + 1 THEN step[n][g[n]] ELSE g[k]]
  <2>2. step[n][g[n]] \in X
    BY <2>1
  <2>3. h \in [0 .. n + 1 -> X] /\ h[0] = x0
    BY <2>1, <2>2
  <2>4. ASSUME NEW k \in Nat, k < n + 1 PROVE h[k + 1] = step[k][h[k]]
    <3>1. h[n + 1] = step[n][g[n]] /\ h[n] = g[n]
      OBVIOUS
    <3>2. CASE k = n
      <4> HIDE DEF h
      <4> QED
        BY <3>1, <3>2
    <3>3. CASE k < n
      <4>1. h[k + 1] = g[k + 1] /\ h[k] = g[k]
        BY <3>3
      <4> HIDE DEF h
      <4> QED
        BY <2>1, <3>3, <4>1
    <3> QED
      BY <2>4, <3>2, <3>3
  <2> HIDE DEF h
  <2>5. App(h, n + 1)
    BY <2>3, <2>4
  <2> QED
    BY <2>5
<1>3. S = Nat
  <2>1. S \in SUBSET Nat
    OBVIOUS
  <2> HIDE DEF S
  <2> QED
    BY <1>1, <1>2, <2>1, SetInduction
<1>4. ASSUME NEW n \in Nat PROVE App(app(n), n)
  <2>1. \E g : App(g, n)
    BY <1>3
  <2> HIDE DEF App
  <2> QED
    BY <2>1
<1> HIDE DEF app, S
<1>5. ASSUME NEW n \in Nat PROVE app(n + 1)[n] = app(n)[n]
  <2> DEFINE T == {k \in Nat : k <= n => app(n + 1)[k] = app(n)[k]}
  <2>1. App(app(n), n) /\ App(app(n + 1), n + 1)
    BY <1>4
  <2>2. 0 \in T
    BY <2>1
  <2>3. ASSUME NEW k \in T PROVE k + 1 \in T
    <3>1. CASE k + 1 <= n
      <4>1. app(n + 1)[k] = app(n)[k]
        BY <3>1
      <4>2. app(n + 1)[k + 1] = step[k][app(n + 1)[k]] /\ app(n)[k + 1] = step[k][app(n)[k]]
        BY <2>1, <3>1
      <4> QED
        BY <4>1, <4>2
    <3> QED
      BY <3>1
  <2>4. T \in SUBSET Nat
    OBVIOUS
  <2>5. T = Nat
    <3> HIDE DEF T
    <3> QED
      BY <2>2, <2>3, <2>4, SetInduction
  <2>6. n \in T
    BY <2>5
  <2> QED
    BY <2>6
<1> DEFINE f == [n \in Nat |-> app(n)[n]]
<1>6. f \in [Nat -> X] /\ f[0] = x0
  BY <1>4
<1>7. ASSUME NEW n \in Nat PROVE f[n + 1] = step[n][f[n]]
  <2>1. f[n + 1] = app(n + 1)[n + 1] /\ f[n] = app(n)[n]
    OBVIOUS
  <2>2. app(n + 1)[n + 1] = step[n][app(n + 1)[n]]
    BY <1>4
  <2> HIDE DEF f
  <2> QED
    BY <1>5, <2>1, <2>2
<1> HIDE DEF f
<1> QED
  BY <1>6, <1>7

-----------------------------------------------------------------------------
\* The prefixes of what is folded have their last index as their maximum.
LEMMA MaxOfPrefix ==
  ASSUME NEW n \in Nat, NEW s \in SUBSET (1 .. n + 1), n + 1 \in s
  PROVE  Max(s) = n + 1 /\ s \ {n + 1} \in SUBSET (1 .. n)
<1>1. n + 1 \in s /\ \A y \in s : n + 1 >= y
  OBVIOUS
<1>2. Max(s) \in s /\ \A y \in s : Max(s) >= y
  <2>1. \E x \in s : \A y \in s : x >= y
    BY <1>1
  <2> QED
    BY <2>1 DEF Max
<1>3. Max(s) \in 1 .. n + 1 /\ Max(s) >= n + 1
  BY <1>1, <1>2
<1> QED
  BY <1>3

\* A fold over a sequence has a value for every prefix: base for none, and each is made of
\* that of the prefix before.  op is given as a function on the indices and a set of values.
IsFold(f, N, base, V, op) ==
  /\ f \in [0 .. N -> V]
  /\ f[0] = base
  /\ \A n \in 0 .. N - 1 : f[n + 1] = op[n + 1][f[n]]

\* Indices have a maximum.
LEMMA MaxIsMember ==
  ASSUME NEW N \in Nat, NEW s \in SUBSET (1 .. N), s # {}
  PROVE  Max(s) \in s
<1> DEFINE T == {n \in Nat : \A r \in SUBSET (1 .. n) : r # {} => Max(r) \in r}
<1>1. 0 \in T /\ T \in SUBSET Nat
  <2>1. 1 .. 0 = {}
    OBVIOUS
  <2> QED
    BY <2>1
<1>2. ASSUME NEW n \in T PROVE n + 1 \in T
  <2>1. ASSUME NEW r \in SUBSET (1 .. n + 1), r # {} PROVE Max(r) \in r
    <3>1. CASE n + 1 \in r
      <4>1. Max(r) = n + 1
        BY <3>1, MaxOfPrefix
      <4> QED
        BY <3>1, <4>1
    <3>2. CASE n + 1 \notin r
      <4>1. r \in SUBSET (1 .. n)
        BY <3>2
      <4> QED
        BY <2>1, <4>1
    <3> QED
      BY <3>1, <3>2
  <2> QED
    BY <2>1
<1>3. T = Nat
  <2> HIDE DEF T
  <2> QED
    BY <1>1, <1>2, SetInduction
<1> QED
  BY <1>3

\* The recursion that a fold is made of has a solution.
HasFold(N, V, base, op) ==
  \E g \in [SUBSET (1 .. N) -> V] :
    \A s \in SUBSET (1 .. N) :
      g[s] = IF s = {} THEN base ELSE op[Max(s)][g[s \ {Max(s)}]]

LEMMA FoldExists ==
  ASSUME NEW N \in Nat, NEW V, NEW base \in V, NEW op \in [1 .. N -> [V -> V]]
  PROVE  HasFold(N, V, base, op)
<1> DEFINE Solves(g, n) ==
             /\ g \in [SUBSET (1 .. n) -> V]
             /\ \A s \in SUBSET (1 .. n) :
                  g[s] = IF s = {} THEN base ELSE op[Max(s)][g[s \ {Max(s)}]]
           S == {n \in Nat : n <= N => \E g : Solves(g, n)}
<1>1. 0 \in S
  <2> DEFINE g == [s \in SUBSET (1 .. 0) |-> base]
  <2>1. \A s \in SUBSET (1 .. 0) : s = {}
    OBVIOUS
  <2>2. Solves(g, 0)
    BY <2>1
  <2> HIDE DEF Solves
  <2> QED
    BY <2>2
<1>2. ASSUME NEW n \in S PROVE n + 1 \in S
  <2> SUFFICES ASSUME n + 1 <= N PROVE \E g : Solves(g, n + 1)
    <3> HIDE DEF Solves
    <3> QED
      OBVIOUS
  <2>small. n \in Nat /\ n <= N
    OBVIOUS
  <2>1. PICK g : Solves(g, n)
    BY <2>small
  <2> DEFINE h == [s \in SUBSET (1 .. n + 1) |->
                     IF n + 1 \in s THEN op[n + 1][g[s \ {n + 1}]] ELSE g[s]]
  <2>2. ASSUME NEW s \in SUBSET (1 .. n + 1), n + 1 \notin s
        PROVE  s \in SUBSET (1 .. n)
    BY <2>small, <2>2
  <2>3. ASSUME NEW s \in SUBSET (1 .. n + 1)
        PROVE  h[s] \in V /\ h[s] = IF s = {} THEN base ELSE op[Max(s)][h[s \ {Max(s)}]]
    <3>1. CASE n + 1 \in s
      <4>1. Max(s) = n + 1 /\ s \ {n + 1} \in SUBSET (1 .. n) /\ s # {}
        BY <2>small, <3>1, MaxOfPrefix
      <4>2. h[s] = op[n + 1][g[s \ {n + 1}]]
        BY <3>1
      <4>3. h[s \ {n + 1}] = g[s \ {n + 1}]
        BY <4>1
      <4>4. n + 1 \in 1 .. N
        BY <2>small
      <4> HIDE DEF h
      <4>5. g[s \ {n + 1}] \in V
        BY <2>1, <4>1
      <4>6. op[n + 1][g[s \ {n + 1}]] \in V
        BY <4>4, <4>5
      <4> HIDE DEF Solves
      <4> QED
        BY <4>1, <4>2, <4>3, <4>6
    <3>2. CASE n + 1 \notin s
      <4>1. s \in SUBSET (1 .. n)
        BY <2>2, <3>2
      <4>2. h[s] = g[s]
        BY <3>2
      <4>3. /\ s \ {Max(s)} \in SUBSET (1 .. n + 1) /\ s \ {Max(s)} \in SUBSET (1 .. n)
            /\ n + 1 \notin s \ {Max(s)}
        BY <3>2, <4>1
      <4>4. h[s \ {Max(s)}] = g[s \ {Max(s)}]
        BY <4>3
      <4> HIDE DEF h
      <4> QED
        BY <2>1, <4>1, <4>2, <4>4
    <3> QED
      BY <3>1, <3>2
  <2>4. h \in [SUBSET (1 .. n + 1) -> V]
    <3>1. h = [s \in SUBSET (1 .. n + 1) |-> h[s]]
      OBVIOUS
    <3> HIDE DEF h
    <3> QED
      BY <2>3, <3>1
  <2> HIDE DEF h
  <2>5. Solves(h, n + 1)
    BY <2>3, <2>4
  <2> HIDE DEF Solves
  <2> QED
    BY <2>5
<1>3. S = Nat
  <2>1. S \in SUBSET Nat
    OBVIOUS
  <2> HIDE DEF S
  <2> QED
    BY <1>1, <1>2, <2>1, SetInduction
<1>4. PICK g : Solves(g, N)
  <2>1. N \in S
    BY <1>3
  <2> HIDE DEF Solves
  <2> QED
    BY <2>1
<1> QED
  BY <1>4 DEF HasFold

\* Any solution builds the values of the prefixes.
Builds(g, N, base, V, op) ==
  /\ g[{}] = base
  /\ \A n \in 0 .. N - 1 :
       g[1 .. n] \in V => g[1 .. n + 1] = op[n + 1][g[1 .. n]]

HasPrefixes(g, N, base, V, op) == \E f : IsFold(f, N, base, V, op) /\ g[1 .. N] = f[N]

LEMMA FoldPrefixes ==
  ASSUME NEW N \in Nat, NEW V, NEW base \in V, NEW op \in [1 .. N -> [V -> V]],
         NEW g, Builds(g, N, base, V, op)
  PROVE  HasPrefixes(g, N, base, V, op)
<1> USE DEF Builds
<1> DEFINE f == [n \in 0 .. N |-> g[1 .. n]]
<1>1. f[0] = base
  <2>1. 1 .. 0 = {} /\ 0 \in 0 .. N
    OBVIOUS
  <2>2. f[0] = g[1 .. 0]
    BY <2>1
  <2> HIDE DEF f
  <2> QED
    BY <2>1, <2>2
<1>2. ASSUME NEW n \in 0 .. N - 1, f[n] \in V
      PROVE  f[n + 1] = op[n + 1][f[n]] /\ f[n + 1] \in V
  <2>1. n + 1 \in 1 .. N /\ n + 1 \in 0 .. N /\ n \in 0 .. N
    OBVIOUS
  <2>2. f[n + 1] = g[1 .. n + 1] /\ f[n] = g[1 .. n]
    BY <2>1
  <2> HIDE DEF f
  <2>3. f[n + 1] = op[n + 1][f[n]]
    BY <1>2, <2>2
  <2> QED
    BY <1>2, <2>1, <2>3
<1> HIDE DEF f
<1> DEFINE T == {k \in Nat : k <= N => f[k] \in V}
<1>3. T = Nat
  <2>1. 0 \in T /\ T \in SUBSET Nat
    BY <1>1
  <2>2. ASSUME NEW k \in T PROVE k + 1 \in T
    <3>1. ASSUME k + 1 <= N PROVE f[k + 1] \in V
      <4>1. k \in 0 .. N - 1 /\ f[k] \in V
        BY <3>1
      <4> QED
        BY <1>2, <4>1
    <3> QED
      BY <3>1
  <2> HIDE DEF T
  <2> QED
    BY <2>1, <2>2, SetInduction
<1>4. \A n \in 0 .. N : f[n] \in V
  BY <1>3
<1>5. f = [n \in 0 .. N |-> f[n]] /\ g[1 .. N] = f[N]
  <2>1. N \in 0 .. N
    OBVIOUS
  <2> QED
    BY <2>1 DEF f
<1>6. f \in [0 .. N -> V]
  BY <1>4, <1>5
<1>7. \A n \in 0 .. N - 1 : f[n + 1] = op[n + 1][f[n]]
  <2>1. \A n \in 0 .. N - 1 : n \in 0 .. N
    OBVIOUS
  <2> HIDE DEF T
  <2> QED
    BY <1>2, <1>4, <2>1
<1> HIDE DEF T
<1> QED
  BY <1>1, <1>5, <1>6, <1>7 DEF IsFold, HasPrefixes

LEMMA MaxOfInterval ==
  ASSUME NEW n \in Nat
  PROVE  Max(1 .. n + 1) = n + 1 /\ (1 .. n + 1) \ {n + 1} = 1 .. n
<1> DEFINE s == 1 .. n + 1
<1>1. s \in SUBSET (1 .. n + 1) /\ n + 1 \in s /\ s \ {n + 1} = 1 .. n
  OBVIOUS
<1> HIDE DEF s
<1>2. Max(s) = n + 1
  BY <1>1, MaxOfPrefix
<1> QED
  BY <1>1, <1>2 DEF s

LEMMA IntervalsGrow ==
  ASSUME NEW N \in Nat, NEW n \in 0 .. N - 1
  PROVE  1 .. n + 1 \in SUBSET (1 .. N) /\ 1 .. n + 1 # {} /\ n + 1 \in 1 .. N
<1>1. n + 1 \in 1 .. n + 1 /\ n + 1 \in 1 .. N
  OBVIOUS
<1>2. 1 .. n + 1 \subseteq 1 .. N
  BY <1>1
<1> QED
  BY <1>1, <1>2

-----------------------------------------------------------------------------
\* Concatenations, also of sequences of different things.
LEMMA Concatenation ==
  ASSUME NEW A, NEW B, NEW s \in Seq(A), NEW t \in Seq(B)
  PROVE  /\ Len(s) \in Nat /\ Len(t) \in Nat /\ Len(s \o t) = Len(s) + Len(t)
         /\ \A i \in 1 .. Len(s) : (s \o t)[i] = s[i] /\ s[i] \in A
         /\ \A j \in 1 .. Len(t) : (s \o t)[Len(s) + j] = t[j]
         /\ s \o t = [i \in 1 .. Len(s \o t) |-> (s \o t)[i]]
<1>1. s \in Seq(A \cup B) /\ t \in Seq(A \cup B)
  <2>1. Seq(A) \subseteq Seq(A \cup B) /\ Seq(B) \subseteq Seq(A \cup B)
    BY SeqMonotonic
  <2> QED
    BY <2>1
<1>2. /\ Len(s) \in Nat /\ Len(t) \in Nat /\ s \o t \in Seq(A \cup B)
      /\ Len(s \o t) = Len(s) + Len(t)
      /\ \A i \in 1 .. Len(s) + Len(t) : (s \o t)[i] = IF i <= Len(s) THEN s[i] ELSE t[i - Len(s)]
  BY <1>1, ConcatProperties
<1>3. \A i \in 1 .. Len(s) : s[i] \in A
  OBVIOUS
<1>4. Len(s \o t) = Len(s) + Len(t)
  BY <1>1
<1>5. ASSUME NEW i \in 1 .. Len(s) PROVE (s \o t)[i] = s[i]
  BY <1>2
<1>6. ASSUME NEW j \in 1 .. Len(t) PROVE (s \o t)[Len(s) + j] = t[j]
  BY <1>2
<1>7. s \o t = [i \in 1 .. Len(s \o t) |-> (s \o t)[i]]
  <2> DEFINE u == s \o t
  <2>1. u \in Seq(A \cup B)
    BY <1>2
  <2> HIDE DEF u
  <2>2. u = [i \in 1 .. Len(u) |-> u[i]]
    BY <2>1
  <2> QED
    BY <2>2 DEF u
<1> QED
  BY <1>2, <1>3, <1>4, <1>5, <1>6, <1>7

\* Short sequences that are spelled out.
LEMMA Tuples ==
  ASSUME NEW S, NEW a \in S, NEW b \in S
  PROVE  /\ <<a, b>> \in Seq(S)
         /\ \A c \in S : <<a, b, c>> \in Seq(S)
         /\ \A c, d, e, f \in S : <<a, b, c, d, e, f>> \in Seq(S)
OBVIOUS

-----------------------------------------------------------------------------
\* What FlattenSeq builds on its way: the concatenations of the first sequences.
IsFlat(g, A, ss) ==
  /\ g \in [0 .. Len(ss) -> Seq(A)]
  /\ g[0] = <<>>
  /\ \A n \in 0 .. Len(ss) - 1 : g[n + 1] = g[n] \o ss[n + 1]

\* There is such a function, by recursion over the sequences.
LEMMA FlatExists ==
  ASSUME NEW A, NEW ss \in Seq(Seq(A))
  PROVE  \E g : IsFlat(g, A, ss)
<1> DEFINE V == Seq(A)
           step == [n \in Nat |-> [x \in V |-> IF n < Len(ss) THEN x \o ss[n + 1] ELSE x]]
<1>1. Len(ss) \in Nat /\ <<>> \in V /\ \A n \in 1 .. Len(ss) : ss[n] \in V
  OBVIOUS
<1>2. step \in [Nat -> [V -> V]]
  <2>1. ASSUME NEW n \in Nat, NEW x \in V
        PROVE  (IF n < Len(ss) THEN x \o ss[n + 1] ELSE x) \in V
    <3>1. CASE n < Len(ss)
      <4>1. ss[n + 1] \in V
        BY <1>1, <3>1
      <4>2. x \o ss[n + 1] \in V
        BY <4>1
      <4> QED
        BY <3>1, <4>2
    <3>2. CASE ~(n < Len(ss))
      BY <3>2
    <3> QED
      BY <3>1, <3>2
  <2> HIDE DEF V
  <2> QED
    BY <2>1
<1>3. PICK h \in [Nat -> V] : h[0] = <<>> /\ \A n \in Nat : h[n + 1] = step[n][h[n]]
  <2> HIDE DEF step, V
  <2>1. HasRecursion(V)
    BY Recursion
  <2> QED
    BY <1>1, <1>2, <2>1 DEF HasRecursion
<1> DEFINE g == [n \in 0 .. Len(ss) |-> h[n]]
<1>4. g \in [0 .. Len(ss) -> V] /\ g[0] = <<>>
  <2> HIDE DEF V
  <2> QED
    BY <1>1, <1>3
<1>5. ASSUME NEW n \in 0 .. Len(ss) - 1 PROVE g[n + 1] = g[n] \o ss[n + 1]
  <2>0. Len(ss) \in Nat
    BY <1>1
  <2>1. n \in Nat /\ n < Len(ss) /\ n \in 0 .. Len(ss) /\ n + 1 \in 0 .. Len(ss)
    <3> DEFINE N == Len(ss)
    <3>1. n \in 0 .. N - 1 /\ N \in Nat
      BY <2>0
    <3> HIDE DEF N
    <3>2. n \in Nat /\ n < N /\ n \in 0 .. N /\ n + 1 \in 0 .. N
      BY <3>1
    <3> QED
      BY <3>2 DEF N
  <2>2. g[n + 1] = h[n + 1] /\ g[n] = h[n]
    BY <2>1
  <2>3. h[n] \in V /\ h[n + 1] = step[n][h[n]]
    <3> HIDE DEF step, V
    <3> QED
      BY <1>3, <2>1
  <2>4. step[n][h[n]] = h[n] \o ss[n + 1]
    <3> HIDE DEF V
    <3> QED
      BY <2>1, <2>3
  <2> QED
    BY <2>2, <2>3, <2>4
<1> HIDE DEF g
<1> QED
  BY <1>4, <1>5 DEF IsFlat

\* Any such function has what FlattenSeq computes as its last value.
LEMMA FlattenIsFlat ==
  ASSUME NEW A, NEW ss \in Seq(Seq(A)), NEW g, IsFlat(g, A, ss)
  PROVE  FlattenSeq(ss) = g[Len(ss)]
<1>1. Len(ss) \in Nat
  OBVIOUS
<1>2. CASE Len(ss) = 0
  <2>1. ss = <<>>
    BY <1>2
  <2> QED
    BY <1>2, <2>1 DEF FlattenSeq, IsFlat
<1>3. CASE Len(ss) # 0
  <2> DEFINE N == Len(ss)
             Eq(f) == f = [i \in 1 .. N |-> IF i = 1 THEN ss[i] ELSE f[i - 1] \o ss[i]]
             fl == CHOOSE f : Eq(f)
             h == [i \in 1 .. N |-> g[i]]
  <2>1. Eq(h)
    <3>1. ASSUME NEW i \in 1 .. N
          PROVE  h[i] = IF i = 1 THEN ss[i] ELSE h[i - 1] \o ss[i]
      <4>1. i - 1 \in 0 .. N - 1 /\ (i - 1) + 1 = i
        BY <1>1
      <4>2. g[i] = g[i - 1] \o ss[i]
        BY <4>1 DEF IsFlat
      <4>3. CASE i = 1
        <5>1. g[0] = <<>> /\ ss[i] \in Seq(A)
          BY <1>1 DEF IsFlat
        <5>2. <<>> \o ss[i] = ss[i]
          BY <5>1
        <5>3. g[i - 1] = <<>>
          BY <4>3, <5>1
        <5>4. g[i] = ss[i] /\ h[i] = g[i]
          BY <4>2, <5>2, <5>3
        <5> HIDE DEF h
        <5> QED
          BY <4>3, <5>4
      <4>4. CASE i # 1
        <5>1. i - 1 \in 1 .. N
          BY <1>1, <4>4
        <5> QED
          BY <4>2, <4>4, <5>1
      <4> QED
        BY <4>3, <4>4
    <3> QED
      BY <3>1
  <2>2. Eq(fl)
    <3> HIDE DEF Eq, h
    <3> QED
      BY <2>1
  <2>3. FlattenSeq(ss) = fl[N]
    BY <1>3 DEF FlattenSeq
  <2> DEFINE T == {n \in Nat : n + 1 <= N => fl[n + 1] = h[n + 1]}
  <2> HIDE DEF fl
  <2>4. \A i \in 1 .. N : fl[i] = IF i = 1 THEN ss[i] ELSE fl[i - 1] \o ss[i]
    BY <2>2
  <2>5. \A i \in 1 .. N : h[i] = IF i = 1 THEN ss[i] ELSE h[i - 1] \o ss[i]
    <3> HIDE DEF h
    <3> QED
      BY <2>1
  <2> HIDE DEF h, Eq
  <2>6. 0 \in T /\ T \in SUBSET Nat
    BY <1>1, <1>3, <2>4, <2>5
  <2>7. ASSUME NEW n \in T PROVE n + 1 \in T
    <3>1. ASSUME (n + 1) + 1 <= N PROVE fl[(n + 1) + 1] = h[(n + 1) + 1]
      <4>1. n \in Nat /\ fl[n + 1] = h[n + 1]
        BY <1>1, <3>1
      <4>2. (n + 1) + 1 \in 1 .. N /\ (n + 1) + 1 # 1 /\ ((n + 1) + 1) - 1 = n + 1
        BY <1>1, <3>1, <4>1
      <4> DEFINE i == (n + 1) + 1
      <4>3. fl[i] = fl[i - 1] \o ss[i] /\ h[i] = h[i - 1] \o ss[i]
        <5> HIDE DEF T
        <5> QED
          BY <2>4, <2>5, <4>2
      <4> QED
        BY <4>1, <4>2, <4>3
    <3> QED
      BY <3>1
  <2>8. T = Nat
    <3> HIDE DEF T
    <3> QED
      BY <2>6, <2>7, SetInduction
  <2>9. fl[N] = h[N]
    <3>1. N - 1 \in Nat /\ (N - 1) + 1 = N
      BY <1>1, <1>3
    <3>2. N - 1 \in T
      BY <2>8, <3>1
    <3> QED
      BY <3>1, <3>2
  <2>10. h[N] = g[N]
    BY <1>1, <1>3 DEF h
  <2> QED
    BY <2>3, <2>9, <2>10
<1> QED
  BY <1>2, <1>3

\* What two sequences have together.
LEMMA JoinedMembers ==
  ASSUME NEW A, NEW s \in Seq(A), NEW t \in Seq(A)
  PROVE  ToSet(s \o t) = ToSet(s) \cup ToSet(t)
<1>1. /\ Len(s) \in Nat /\ Len(t) \in Nat /\ s \o t \in Seq(A)
      /\ Len(s \o t) = Len(s) + Len(t)
      /\ \A i \in 1 .. Len(s) + Len(t) : (s \o t)[i] = IF i <= Len(s) THEN s[i] ELSE t[i - Len(s)]
  BY ConcatProperties
<1> DEFINE u == s \o t
<1>2. u \in Seq(A) /\ Len(u) = Len(s) + Len(t)
  BY <1>1
<1>3. ASSUME NEW x \in ToSet(u) PROVE x \in ToSet(s) \cup ToSet(t)
  <2>1. PICK i \in 1 .. Len(u) : x = u[i]
    BY <1>1 DEF ToSet
  <2>2. CASE i <= Len(s)
    BY <1>1, <2>1, <2>2 DEF ToSet
  <2>3. CASE ~(i <= Len(s))
    <3>1. i - Len(s) \in 1 .. Len(t) /\ x = t[i - Len(s)]
      BY <1>1, <2>1, <2>3
    <3> QED
      BY <3>1 DEF ToSet
  <2> QED
    BY <2>2, <2>3
<1>4. ASSUME NEW x \in ToSet(s) PROVE x \in ToSet(u)
  <2>1. PICK i \in 1 .. Len(s) : x = s[i]
    BY DEF ToSet
  <2>2. i \in 1 .. Len(u) /\ u[i] = x
    BY <1>1, <2>1
  <2> HIDE DEF u
  <2> QED
    BY <1>2, <2>2 DEF ToSet
<1>5. ASSUME NEW x \in ToSet(t) PROVE x \in ToSet(u)
  <2>1. PICK i \in 1 .. Len(t) : x = t[i]
    BY DEF ToSet
  <2>2. Len(s) + i \in 1 .. Len(u) /\ u[Len(s) + i] = x
    BY <1>1, <2>1
  <2> HIDE DEF u
  <2> QED
    BY <1>2, <2>2 DEF ToSet
<1> HIDE DEF u
<1>6. ToSet(u) = ToSet(s) \cup ToSet(t)
  BY <1>3, <1>4, <1>5
<1> QED
  BY <1>6 DEF u

\* What is flattened is what the sequences have.
LEMMA FlattenMembers ==
  ASSUME NEW A, NEW ss \in Seq(Seq(A))
  PROVE  /\ FlattenSeq(ss) \in Seq(A)
         /\ \A i \in 1 .. Len(ss) : \A x \in ToSet(ss[i]) : x \in ToSet(FlattenSeq(ss))
         /\ \A x \in ToSet(FlattenSeq(ss)) : \E i \in 1 .. Len(ss) : x \in ToSet(ss[i])
<1> DEFINE N == Len(ss)
<1>1. N \in Nat /\ \A i \in 1 .. N : ss[i] \in Seq(A)
  OBVIOUS
<1>2. PICK g : IsFlat(g, A, ss)
  BY FlatExists
<1>3. FlattenSeq(ss) = g[N]
  BY <1>2, FlattenIsFlat
<1>4. \A n \in 0 .. N : g[n] \in Seq(A)
  BY <1>2 DEF IsFlat
<1> DEFINE All(n) == /\ \A i \in 1 .. n : \A x \in ToSet(ss[i]) : x \in ToSet(g[n])
                     /\ \A x \in ToSet(g[n]) : \E i \in 1 .. n : x \in ToSet(ss[i])
           T == {n \in Nat : n <= N => All(n)}
<1>5. 0 \in T
  <2>1. g[0] = <<>> /\ ToSet(<<>>) = {}
    BY <1>2 DEF IsFlat, ToSet
  <2> QED
    BY <2>1
<1>6. ASSUME NEW n \in T PROVE n + 1 \in T
  <2> SUFFICES ASSUME n + 1 <= N PROVE All(n + 1)
    <3> HIDE DEF All
    <3> QED
      OBVIOUS
  <2>1. n \in Nat /\ n \in 0 .. N - 1 /\ n \in 0 .. N /\ n + 1 \in 1 .. N
    BY <1>1
  <2>2. All(n)
    <3> HIDE DEF All
    <3> QED
      BY <2>1
  <2>3. g[n + 1] = g[n] \o ss[n + 1] /\ g[n] \in Seq(A) /\ ss[n + 1] \in Seq(A)
    BY <1>1, <1>2, <1>4, <2>1 DEF IsFlat
  <2>4. ToSet(g[n + 1]) = ToSet(g[n]) \cup ToSet(ss[n + 1])
    BY <2>3, JoinedMembers
  <2>5. ASSUME NEW i \in 1 .. n + 1, NEW x \in ToSet(ss[i]) PROVE x \in ToSet(g[n + 1])
    <3>1. i \in 1 .. n \/ i = n + 1
      BY <2>1
    <3> QED
      BY <2>2, <2>4, <2>5, <3>1
  <2>6. ASSUME NEW x \in ToSet(g[n + 1]) PROVE \E i \in 1 .. n + 1 : x \in ToSet(ss[i])
    <3>1. 1 .. n \subseteq 1 .. n + 1 /\ n + 1 \in 1 .. n + 1
      BY <2>1
    <3> QED
      BY <2>2, <2>4, <2>6, <3>1
  <2> QED
    BY <2>5, <2>6
<1>7. T = Nat
  <2>1. T \in SUBSET Nat
    OBVIOUS
  <2> HIDE DEF T
  <2> QED
    BY <1>5, <1>6, <2>1, SetInduction
<1>8. All(N)
  <2> HIDE DEF All
  <2> QED
    BY <1>1, <1>7
<1>9. FlattenSeq(ss) \in Seq(A)
  BY <1>1, <1>3, <1>4
<1> QED
  BY <1>3, <1>8, <1>9
===============================================================================
