------------------------ MODULE ManifestPipelineProofs ------------------------
(***************************************************************************)
(* Theorems about ManifestPipeline, for any deployers, uploaders, stemcell *)
(* lines, versions, releases and embedded documents that the assumptions   *)
(* of the modules allow.                                                   *)
(*                                                                         *)
(* First what the ops files make of the manifests: operations are folded   *)
(* over sets of manifests, and what holds of all of those is shown by      *)
(* induction on the operations.  Then the invariant: what each process     *)
(* knows of the stemcell it resolves, that a deployer has met every        *)
(* requirement but those it still has to look at and the one it is about   *)
(* to upload (Ensuring), and what the manifest of a deployer has become.   *)
(* Then what consolidation does with jobs and aliases: merging is a fold   *)
(* over the jobs, and a second invariant, which needs the first one, says  *)
(* that the groups of a manifest are the embedded ones, consolidated.      *)
(***************************************************************************)
EXTENDS ManifestPipeline, FoldLemmas, FiniteSetTheorems

-----------------------------------------------------------------------------
\* What Without keeps of the prefixes of a sequence of members of R.
Kept(f, R, seq, S) ==
  /\ f \in [0 .. Len(seq) -> Seq(R \ S)] /\ f[0] = <<>>
  /\ \A n \in 0 .. Len(seq) - 1 :
       f[n + 1] = IF seq[n + 1] \in S THEN f[n] ELSE Append(f[n], seq[n + 1])

\* The fold that Without is.
LEMMA WithoutFold ==
  ASSUME NEW R, NEW seq \in Seq(R), NEW S
  PROVE  \E f : Kept(f, R, seq, S) /\ Without(seq, S) = f[Len(seq)]
<1> DEFINE N == Len(seq)
           V == Seq(R \ S)
           op == [i \in 1 .. N |->
                    [kept \in V |-> IF seq[i] \in S THEN kept ELSE Append(kept, seq[i])]]
           Eq(g) == g = [s \in SUBSET DOMAIN seq |->
                           IF s = {} THEN <<>>
                           ELSE IF seq[Max(s)] \in S THEN g[s \ {Max(s)}]
                                ELSE Append(g[s \ {Max(s)}], seq[Max(s)])]
<1>1. N \in Nat /\ DOMAIN seq = 1 .. N /\ <<>> \in V
  OBVIOUS
<1>2. op \in [1 .. N -> [V -> V]]
  <2>1. ASSUME NEW i \in 1 .. N, NEW kept \in V
        PROVE  (IF seq[i] \in S THEN kept ELSE Append(kept, seq[i])) \in V
    <3>1. seq[i] \in R
      OBVIOUS
    <3> QED
      BY <3>1
  <2> QED
    BY <2>1
<1>3. \E g : Eq(g)
  <2>1. HasFold(N, V, <<>>, op)
    <3> HIDE DEF N, V, op
    <3> QED
      BY <1>1, <1>2, FoldExists
  <2>2. PICK g \in [SUBSET (1 .. N) -> V] :
          \A s \in SUBSET (1 .. N) :
            g[s] = IF s = {} THEN <<>> ELSE op[Max(s)][g[s \ {Max(s)}]]
    <3> HIDE DEF N, V, op
    <3> QED
      BY <2>1, Zenon DEF HasFold
  <2>3. ASSUME NEW s \in SUBSET (1 .. N), s # {}
        PROVE  g[s] = IF seq[Max(s)] \in S THEN g[s \ {Max(s)}]
                      ELSE Append(g[s \ {Max(s)}], seq[Max(s)])
    <3>1. Max(s) \in 1 .. N
      <4>1. Max(s) \in s
        BY <1>1, <2>3, MaxIsMember
      <4> QED
        BY <4>1
    <3>2. g[s \ {Max(s)}] \in V
      <4> HIDE DEF V, N
      <4> QED
        BY <2>2
    <3>3. g[s] = op[Max(s)][g[s \ {Max(s)}]]
      <4> HIDE DEF V, N, op
      <4> QED
        BY <2>2, <2>3
    <3> QED
      BY <3>1, <3>2, <3>3
  <2>4. g[{}] = <<>> /\ g = [s \in SUBSET (1 .. N) |-> g[s]]
    <3> HIDE DEF V, N, op
    <3> QED
      BY <2>2
  <2>5. Eq(g)
    <3> HIDE DEF V, N, op
    <3> QED
      BY <1>1, <2>3, <2>4
  <2> HIDE DEF Eq
  <2> QED
    BY <2>5
<1>4. PICK g : Eq(g) /\ Without(seq, S) = g[DOMAIN seq]
  <2> DEFINE w == CHOOSE g : Eq(g)
  <2>1. Without(seq, S) = w[DOMAIN seq]
    BY DEF Without, FoldLeft, MapThenFoldSet
  <2>2. Eq(w)
    <3> HIDE DEF Eq
    <3> QED
      BY <1>3
  <2> HIDE DEF w, Eq
  <2> QED
    BY <2>1, <2>2
<1>5. g[{}] = <<>>
  BY <1>4
<1>6. ASSUME NEW n \in 0 .. N - 1, g[1 .. n] \in V
      PROVE  g[1 .. n + 1] = op[n + 1][g[1 .. n]]
  <2>1. Max(1 .. n + 1) = n + 1 /\ (1 .. n + 1) \ {n + 1} = 1 .. n
    <3>1. n \in Nat
      BY <1>1
    <3> QED
      BY <3>1, MaxOfInterval
  <2>2. 1 .. n + 1 \in SUBSET (1 .. N) /\ 1 .. n + 1 # {} /\ n + 1 \in 1 .. N
    BY <1>1, IntervalsGrow
  <2>3. g[1 .. n + 1] = IF seq[n + 1] \in S THEN g[1 .. n] ELSE Append(g[1 .. n], seq[n + 1])
    <3> DEFINE s == 1 .. n + 1
    <3>1. s \in SUBSET DOMAIN seq /\ s # {}
      BY <1>1, <2>2
    <3> HIDE DEF s
    <3>2. g[s] = IF seq[Max(s)] \in S THEN g[s \ {Max(s)}]
                 ELSE Append(g[s \ {Max(s)}], seq[Max(s)])
      BY <1>4, <3>1
    <3> QED
      BY <2>1, <3>2 DEF s
  <2> QED
    BY <1>6, <2>2, <2>3
<1>7. PICK f : IsFold(f, N, <<>>, V, op) /\ g[1 .. N] = f[N]
  <2> HIDE DEF N, V, op, Eq
  <2>1. Builds(g, N, <<>>, V, op)
    BY <1>5, <1>6 DEF Builds
  <2>2. HasPrefixes(g, N, <<>>, V, op)
    BY <1>1, <1>2, <2>1, FoldPrefixes
  <2> QED
    BY <2>2, Zenon DEF HasPrefixes
<1>8. ASSUME NEW n \in 0 .. N - 1
      PROVE  f[n + 1] = IF seq[n + 1] \in S THEN f[n] ELSE Append(f[n], seq[n + 1])
  <2>1. n \in 0 .. N /\ n + 1 \in 1 .. N
    BY <1>1
  <2>2. f[n] \in V /\ f[n + 1] = op[n + 1][f[n]]
    <3> HIDE DEF V, op
    <3> QED
      BY <1>7, <2>1 DEF IsFold
  <2> QED
    BY <2>1, <2>2
<1>9. Kept(f, R, seq, S)
  <2> HIDE DEF op
  <2> QED
    BY <1>7, <1>8 DEF IsFold, Kept
<1> QED
  BY <1>1, <1>4, <1>7, <1>9

\* What Without keeps is of the sequence and not of the set, and it is all of that.
LEMMA WithoutType ==
  ASSUME NEW R, NEW seq \in Seq(R), NEW S
  PROVE  Without(seq, S) \in Seq(R \ S)
<1>1. PICK f : Kept(f, R, seq, S) /\ Without(seq, S) = f[Len(seq)]
  BY WithoutFold
<1>2. Len(seq) \in 0 .. Len(seq)
  OBVIOUS
<1> QED
  BY <1>1, <1>2 DEF Kept

\* What is in the sequence and not in the set is kept.
LEMMA WithoutKeeps ==
  ASSUME NEW R, NEW seq \in Seq(R), NEW S, NEW x \in ToSet(seq) \ S
  PROVE  x \in ToSet(Without(seq, S))
<1> DEFINE N == Len(seq)
<1>1. PICK f : Kept(f, R, seq, S) /\ Without(seq, S) = f[N]
  BY WithoutFold
<1>2. PICK i \in 1 .. N : seq[i] = x
  BY DEF ToSet
<1> DEFINE T == {n \in Nat : n <= N /\ i <= n => x \in ToSet(f[n])}
<1>3. 0 \in T /\ T \in SUBSET Nat
  OBVIOUS
<1>4. ASSUME NEW n \in T PROVE n + 1 \in T
  <2> SUFFICES ASSUME n + 1 <= N, i <= n + 1 PROVE x \in ToSet(f[n + 1])
    OBVIOUS
  <2>1. n \in 0 .. N - 1 /\ n \in 0 .. N
    OBVIOUS
  <2>2. f[n] \in Seq(R \ S)
    BY <1>1, <2>1 DEF Kept
  <2>3. f[n + 1] = IF seq[n + 1] \in S THEN f[n] ELSE Append(f[n], seq[n + 1])
    BY <1>1, <2>1 DEF Kept
  <2>4. CASE i <= n
    <3>1. x \in ToSet(f[n])
      BY <2>1, <2>4
    <3>2. ToSet(f[n]) \subseteq ToSet(f[n + 1])
      BY <2>2, <2>3 DEF ToSet
    <3> QED
      BY <3>1, <3>2
  <2>5. CASE i = n + 1
    <3>1. f[n + 1] = Append(f[n], x)
      BY <1>2, <2>3, <2>5
    <3>2. Append(f[n], x)[Len(f[n]) + 1] = x /\ Len(f[n]) + 1 \in DOMAIN Append(f[n], x)
      BY <2>2
    <3> QED
      BY <3>1, <3>2 DEF ToSet
  <2> QED
    BY <2>4, <2>5
<1>5. T = Nat
  <2> HIDE DEF T
  <2> QED
    BY <1>3, <1>4, SetInduction
<1>6. N \in T
  BY <1>5
<1> QED
  BY <1>1, <1>6

\* What is in a sequence more than once is in it no more often without other members.
LEMMA WithoutDistinct ==
  ASSUME NEW R, NEW seq \in Seq(R), NEW S,
         \A i, j \in 1 .. Len(seq) : i # j => seq[i] # seq[j]
  PROVE  LET kept == Without(seq, S)
         IN  \A i, j \in 1 .. Len(kept) : i # j => kept[i] # kept[j]
<1> DEFINE N == Len(seq)
           Once(s) == \A i, j \in 1 .. Len(s) : i # j => s[i] # s[j]
<1>1. PICK f : Kept(f, R, seq, S) /\ Without(seq, S) = f[N]
  BY WithoutFold
<1> DEFINE Fine(n) == Once(f[n]) /\ \A x \in ToSet(f[n]) : \E i \in 1 .. n : x = seq[i]
           T == {n \in Nat : n <= N => Fine(n)}
<1>2. 0 \in T
  <2>1. f[0] = <<>>
    BY <1>1 DEF Kept
  <2> QED
    BY <2>1 DEF ToSet
<1>3. ASSUME NEW n \in T PROVE n + 1 \in T
  <2> SUFFICES ASSUME n + 1 <= N PROVE Fine(n + 1)
    <3> HIDE DEF Fine
    <3> QED
      OBVIOUS
  <2>1. n \in Nat /\ n \in 0 .. N - 1 /\ n \in 0 .. N /\ n + 1 \in 1 .. N
    OBVIOUS
  <2>2. Fine(n)
    <3> HIDE DEF Fine
    <3> QED
      BY <2>1
  <2>3. f[n] \in Seq(R \ S) /\ f[n + 1] = IF seq[n + 1] \in S THEN f[n] ELSE Append(f[n], seq[n + 1])
    BY <1>1, <2>1 DEF Kept
  <2>4. CASE f[n + 1] = f[n]
    <3>1. 1 .. n \subseteq 1 .. n + 1
      BY <2>1
    <3> QED
      BY <2>2, <2>4, <3>1
  <2>5. CASE f[n + 1] = Append(f[n], seq[n + 1])
    <3> DEFINE s == f[n]
               t == f[n + 1]
    <3>1. /\ Len(s) \in Nat /\ Len(t) = Len(s) + 1 /\ t[Len(s) + 1] = seq[n + 1]
          /\ \A i \in 1 .. Len(s) : t[i] = s[i]
      BY <2>3, <2>5
    <3>2. DOMAIN t = 1 .. Len(s) + 1 /\ DOMAIN s = 1 .. Len(s)
      BY <2>3, <2>5
    <3> HIDE DEF s, t
    <3>3. \A i \in 1 .. Len(s) : \E k \in 1 .. n : s[i] = seq[k]
      BY <2>2, <3>2 DEF s, ToSet
    <3>4. \A k \in 1 .. n : seq[k] # seq[n + 1]
      <4>1. \A k \in 1 .. n : k \in 1 .. N /\ k # n + 1
        BY <2>1
      <4> QED
        BY <2>1, <4>1
    <3>5. ASSUME NEW i \in 1 .. Len(t), NEW j \in 1 .. Len(t), i # j PROVE t[i] # t[j]
      <4>1. CASE i \in 1 .. Len(s) /\ j \in 1 .. Len(s)
        BY <2>2, <3>1, <3>5, <4>1 DEF s
      <4>2. CASE i = Len(s) + 1
        <5>1. j \in 1 .. Len(s)
          BY <3>1, <3>5, <4>2
        <5> QED
          BY <3>1, <3>3, <3>4, <4>2, <5>1
      <4>3. CASE j = Len(s) + 1
        <5>1. i \in 1 .. Len(s)
          BY <3>1, <3>5, <4>3
        <5> QED
          BY <3>1, <3>3, <3>4, <4>3, <5>1
      <4> QED
        BY <3>1, <4>1, <4>2, <4>3
    <3>6. ASSUME NEW x \in ToSet(t) PROVE \E i \in 1 .. n + 1 : x = seq[i]
      <4>1. PICK i \in 1 .. Len(s) + 1 : x = t[i]
        BY <3>2 DEF ToSet
      <4>2. 1 .. n \subseteq 1 .. n + 1 /\ n + 1 \in 1 .. n + 1
        BY <2>1
      <4> QED
        BY <3>1, <3>3, <4>1, <4>2
    <3> QED
      BY <3>5, <3>6 DEF t
  <2> QED
    BY <2>3, <2>4, <2>5
<1>4. T = Nat
  <2>1. T \in SUBSET Nat
    OBVIOUS
  <2> HIDE DEF T
  <2> QED
    BY <1>2, <1>3, <2>1, SetInduction
<1>5. Fine(N)
  <2>0. N \in Nat
    OBVIOUS
  <2>1. N \in T /\ N <= N
    <3> HIDE DEF N, T
    <3> QED
      BY <1>4, <2>0
  <2> HIDE DEF Fine
  <2> QED
    BY <2>1
<1> QED
  BY <1>1, <1>5

\* What a sequence has with only some of its members.
LEMMA WithoutMembers ==
  ASSUME NEW R, NEW seq \in Seq(R), NEW S
  PROVE  Without(seq, S) \in Seq(R) /\ ToSet(Without(seq, S)) = ToSet(seq) \ S
<1> DEFINE kept == Without(seq, S)
<1>1. seq \in Seq(R \cap ToSet(seq))
  <2>1. /\ Len(seq) \in Nat /\ seq \in [1 .. Len(seq) -> R]
        /\ \A i \in 1 .. Len(seq) : seq[i] \in R \cap ToSet(seq)
    BY DEF ToSet
  <2>2. seq \in [1 .. Len(seq) -> R \cap ToSet(seq)]
    BY <2>1
  <2> QED
    BY <2>1, <2>2, SeqDef
<1>2. kept \in Seq((R \cap ToSet(seq)) \ S)
  BY <1>1, WithoutType
<1> HIDE DEF kept
<1>3. kept \in Seq(R) /\ ToSet(kept) \subseteq ToSet(seq) \ S
  BY <1>2 DEF ToSet
<1>4. ToSet(seq) \ S \subseteq ToSet(kept)
  BY WithoutKeeps DEF kept
<1> QED
  BY <1>3, <1>4 DEF kept

\* And with only those of a set.
LEMMA OnlyMembers ==
  ASSUME NEW R, NEW seq \in Seq(R), NEW S
  PROVE  Only(seq, S) \in Seq(R) /\ ToSet(Only(seq, S)) = ToSet(seq) \cap S
<1>1. /\ Without(seq, ToSet(seq) \ S) \in Seq(R)
      /\ ToSet(Without(seq, ToSet(seq) \ S)) = ToSet(seq) \ (ToSet(seq) \ S)
  BY WithoutMembers
<1> QED
  BY <1>1 DEF Only

\* The members of a sequence of members of a set.
LEMMA MemberOf ==
  ASSUME NEW S, NEW s \in Seq(S), NEW x \in ToSet(s)
  PROVE  x \in S
BY DEF ToSet

\* The domain of a sequence tells its length.
LEMMA LenDomain ==
  ASSUME NEW S, NEW s \in Seq(S), NEW n \in Nat, DOMAIN s = 1 .. n
  PROVE  Len(s) = n
<1>1. Len(s) \in Nat /\ 1 .. Len(s) = 1 .. n
  OBVIOUS
<1> DEFINE l == Len(s)
<1>2. l \in Nat /\ 1 .. l = 1 .. n
  BY <1>1
<1> HIDE DEF l
<1>3. ASSUME l < n PROVE FALSE
  <2>1. n \in 1 .. n /\ n \notin 1 .. l
    BY <1>2, <1>3
  <2> QED
    BY <1>2, <2>1
<1>4. ASSUME n < l PROVE FALSE
  <2>1. l \in 1 .. l /\ l \notin 1 .. n
    BY <1>2, <1>4
  <2> QED
    BY <1>2, <2>1
<1> QED
  BY <1>2, <1>3, <1>4 DEF l

-----------------------------------------------------------------------------
\* What the operations make of a manifest, one after the other, in a set of manifests that
\* it is of and that the operations do not leave.
Applied(f, X, m, ops) ==
  /\ f \in [0 .. Len(ops) -> SUBSET X] /\ f[0] = {m}
  /\ \A n \in 0 .. Len(ops) - 1 : f[n + 1] = UNION {ApplyOp(x, ops[n + 1]) : x \in f[n]}

\* The fold that interpolation is.
LEMMA InterpolatedFold ==
  ASSUME NEW X, NEW m \in X, NEW O, NEW ops \in Seq(O),
         \A n \in X : \A o \in O : ApplyOp(n, o) \subseteq X
  PROVE  \E f : Applied(f, X, m, ops) /\ Interpolated(m, ops) = f[Len(ops)]
<1> DEFINE N == Len(ops)
           V == SUBSET X
           All(ms, o) == UNION {ApplyOp(n, o) : n \in ms}
           op == [i \in 1 .. N |-> [ms \in V |-> All(ms, ops[i])]]
           Eq(g) == g = [s \in SUBSET DOMAIN ops |->
                           IF s = {} THEN {m} ELSE All(g[s \ {Max(s)}], ops[Max(s)])]
<1>1. N \in Nat /\ DOMAIN ops = 1 .. N /\ {m} \in V
  OBVIOUS
<1>2. op \in [1 .. N -> [V -> V]]
  <2>1. ASSUME NEW i \in 1 .. N, NEW ms \in V PROVE All(ms, ops[i]) \in V
    <3>1. ops[i] \in O
      OBVIOUS
    <3> QED
      BY <3>1
  <2> HIDE DEF All, V
  <2> QED
    BY <2>1
<1>3. \E g : Eq(g)
  <2>1. HasFold(N, V, {m}, op)
    <3> HIDE DEF N, V, op
    <3> QED
      BY <1>1, <1>2, FoldExists
  <2>2. PICK g \in [SUBSET (1 .. N) -> V] :
          \A s \in SUBSET (1 .. N) :
            g[s] = IF s = {} THEN {m} ELSE op[Max(s)][g[s \ {Max(s)}]]
    <3> HIDE DEF N, V, op
    <3> QED
      BY <2>1, Zenon DEF HasFold
  <2>3. ASSUME NEW s \in SUBSET (1 .. N), s # {}
        PROVE  g[s] = All(g[s \ {Max(s)}], ops[Max(s)])
    <3>1. Max(s) \in 1 .. N
      <4>1. Max(s) \in s
        BY <1>1, <2>3, MaxIsMember
      <4> QED
        BY <4>1
    <3>2. g[s \ {Max(s)}] \in V
      <4> HIDE DEF V, N
      <4> QED
        BY <2>2
    <3>3. g[s] = op[Max(s)][g[s \ {Max(s)}]]
      <4> HIDE DEF V, N, op
      <4> QED
        BY <2>2, <2>3
    <3> QED
      BY <3>1, <3>2, <3>3
  <2>4. g[{}] = {m} /\ g = [s \in SUBSET (1 .. N) |-> g[s]]
    <3> HIDE DEF V, N, op
    <3> QED
      BY <2>2
  <2>5. Eq(g)
    <3> HIDE DEF V, N, op
    <3> QED
      BY <1>1, <2>3, <2>4
  <2> HIDE DEF Eq
  <2> QED
    BY <2>5
<1>4. PICK g : Eq(g) /\ Interpolated(m, ops) = g[DOMAIN ops]
  <2> DEFINE w == CHOOSE g : Eq(g)
  <2>1. Interpolated(m, ops) = w[DOMAIN ops]
    BY DEF Interpolated, FoldLeft, MapThenFoldSet
  <2>2. Eq(w)
    <3> HIDE DEF Eq
    <3> QED
      BY <1>3
  <2> HIDE DEF w, Eq
  <2> QED
    BY <2>1, <2>2
<1>5. g[{}] = {m}
  BY <1>4
<1>6. ASSUME NEW n \in 0 .. N - 1, g[1 .. n] \in V
      PROVE  g[1 .. n + 1] = op[n + 1][g[1 .. n]]
  <2>1. Max(1 .. n + 1) = n + 1 /\ (1 .. n + 1) \ {n + 1} = 1 .. n
    <3>1. n \in Nat
      BY <1>1
    <3> QED
      BY <3>1, MaxOfInterval
  <2>2. 1 .. n + 1 \in SUBSET (1 .. N) /\ 1 .. n + 1 # {} /\ n + 1 \in 1 .. N
    BY <1>1, IntervalsGrow
  <2>3. g[1 .. n + 1] = All(g[1 .. n], ops[n + 1])
    <3> DEFINE s == 1 .. n + 1
    <3>1. s \in SUBSET DOMAIN ops /\ s # {}
      BY <1>1, <2>2
    <3> HIDE DEF s
    <3>2. g[s] = All(g[s \ {Max(s)}], ops[Max(s)])
      BY <1>4, <3>1
    <3> QED
      BY <2>1, <3>2 DEF s
  <2> QED
    BY <1>6, <2>2, <2>3
<1>7. PICK f : IsFold(f, N, {m}, V, op) /\ g[1 .. N] = f[N]
  <2> HIDE DEF N, V, op, Eq
  <2>1. Builds(g, N, {m}, V, op)
    BY <1>5, <1>6 DEF Builds
  <2>2. HasPrefixes(g, N, {m}, V, op)
    BY <1>1, <1>2, <2>1, FoldPrefixes
  <2> QED
    BY <2>2, Zenon DEF HasPrefixes
<1>8. ASSUME NEW n \in 0 .. N - 1 PROVE f[n + 1] = All(f[n], ops[n + 1])
  <2>1. n \in 0 .. N /\ n + 1 \in 1 .. N
    BY <1>1
  <2>2. f[n] \in V /\ f[n + 1] = op[n + 1][f[n]]
    <3> HIDE DEF V, op
    <3> QED
      BY <1>7, <2>1 DEF IsFold
  <2> HIDE DEF All
  <2> QED
    BY <2>1, <2>2
<1>9. Applied(f, X, m, ops)
  <2> HIDE DEF op
  <2> QED
    BY <1>7, <1>8 DEF IsFold, Applied
<1> QED
  BY <1>1, <1>4, <1>7, <1>9

\* Operations that stay in a set of manifests make only members of it.
LEMMA InterpolatedStays ==
  ASSUME NEW X, NEW m \in X, NEW O, NEW ops \in Seq(O),
         \A n \in X : \A o \in O : ApplyOp(n, o) \subseteq X
  PROVE  Interpolated(m, ops) \subseteq X
<1>1. PICK f : Applied(f, X, m, ops) /\ Interpolated(m, ops) = f[Len(ops)]
  BY InterpolatedFold
<1>2. Len(ops) \in 0 .. Len(ops)
  OBVIOUS
<1> QED
  BY <1>1, <1>2 DEF Applied

-----------------------------------------------------------------------------
\* Strings, with those that are spelled out: no prover knows that they are strings.
Text ==
  STRING \cup
  {"bosh", "bpm", "garden-runc", "bosh-warden-cpi", "os-conf", "uaa", "credhub",
   "director", "health_monitor", "garden", "warden_cpi", "disable_agent", "user_add",
   "admin_password", "mbus_bootstrap_password", "jumpbox_ssh",
   "networks", "disk_pools", "resource_pools", "cloud_provider", "persistent_disk_pool",
   "resource_pool"}

\* A release that a director can fetch.
Given == [name : Text, version : Nat, url : {TRUE}, stemcell : Nat \cup {NoSection}]
GivenPlain == {r \in Given : r.stemcell = NoSection}

\* What the operations that ibosh embeds or generates are.
Operation ==
  [do : {"append"}, part : {"releases"}, value : Given]
  \cup [do : {"append"}, part : {"variables"}, value : Text]
  \cup [do : {"replace"}, value : Given, optional : BOOLEAN]
  \cup [do : {"pin"}, name : Text, version : Nat]

BOSHJob == [name : Text, routes : {<<>>}]

BOSHOperation ==
  [do : {"append"}, part : {"releases"}, value : GivenPlain]
  \cup [do : {"append"}, part : {"variables"}, value : Text]
  \cup [do : {"replace"}, value : GivenPlain, optional : {TRUE}]
  \cup [do : {"append"}, part : {"stemcells"}, value : Requirement]
  \cup [do : {"job"}, value : BOSHJob]
  \cup [do : {"editJob"}, name : Text]
  \cup [do : {"edit"}, section : Text]
  \cup [do : {"remove"}, section : Text]
  \cup [do : {"removeVariable"}, name : Text]

\* What cf deploy makes of a manifest before its groups are consolidated.
RenderedOf(cf) ==
  [groups : {cf.groups}, aliases : {cf.aliases}, releases : Seq(Given),
   variables : Seq(Text), stemcells : {cf.stemcells}, sections : {{}}]

\* What bosh deploy makes of its manifest.
BOSHGroup ==
  [name : {"bosh"}, jobs : Seq(BOSHJob), disk : {NoDisk}, ips : {{"internal"}}, extensions : {{}}]
RenderedBOSHOf ==
  [groups : [{1} -> BOSHGroup], aliases : {<<>>}, releases : Seq(GivenPlain),
   variables : Seq(Text), stemcells : Seq(Requirement), sections : SUBSET CreateEnvSections]

\* An operation on a release keeps the releases of a manifest those that can be fetched.
LEMMA ReplaceKeeps ==
  ASSUME NEW R, NEW m, "releases" \in DOMAIN m, m.releases \in Seq(R),
         NEW release \in R, NEW optional \in BOOLEAN,
         NEW n \in ReplaceRelease(m, release, optional)
  PROVE  \E rs \in Seq(R) : n = [m EXCEPT !.releases = rs]
<1>1. CASE n = [m EXCEPT !.releases = Append(@, release)]
  <2>1. n = [m EXCEPT !.releases = Append(m.releases, release)]
    BY <1>1
  <2>2. Append(m.releases, release) \in Seq(R)
    OBVIOUS
  <2> QED
    BY <2>1, <2>2
<1>2. CASE \E i \in DOMAIN m.releases : n = [m EXCEPT !.releases[i] = release]
  <2>1. PICK i \in DOMAIN m.releases : n = [m EXCEPT !.releases[i] = release]
    BY <1>2
  <2>2. [m.releases EXCEPT ![i] = release] \in Seq(R)
    OBVIOUS
  <2>3. n = [m EXCEPT !.releases = [m.releases EXCEPT ![i] = release]]
    BY <2>1
  <2> QED
    BY <2>2, <2>3
<1> QED
  BY <1>1, <1>2 DEF ReplaceRelease, Indices

\* So does a pin.
LEMMA PinKeeps ==
  ASSUME NEW m, "releases" \in DOMAIN m, m.releases \in Seq(Given),
         NEW name, NEW version \in Nat,
         NEW n \in PinRelease(m, name, version)
  PROVE  \E rs \in Seq(Given) : n = [m EXCEPT !.releases = rs]
<1>1. PICK i \in DOMAIN m.releases : n = [m EXCEPT !.releases[i].stemcell = version]
  BY DEF PinRelease, Indices
<1> DEFINE r == [m.releases[i] EXCEPT !.stemcell = version]
<1>2. m.releases[i] \in Given
  OBVIOUS
<1>3. r \in Given
  BY <1>2 DEF Given
<1>4. n = [m EXCEPT !.releases = [m.releases EXCEPT ![i] = r]]
  BY <1>1
<1> HIDE DEF r
<1>5. [m.releases EXCEPT ![i] = r] \in Seq(Given)
  BY <1>3
<1> QED
  BY <1>4, <1>5

\* cf deploy: an operation changes nothing but releases and variables.
LEMMA ApplyOpKeeps ==
  ASSUME NEW cf, NEW m \in RenderedOf(cf), NEW o \in Operation
  PROVE  ApplyOp(m, o) \subseteq RenderedOf(cf)
<1>new. ASSUME NEW rs \in Seq(Given)
      PROVE  [m EXCEPT !.releases = rs] \in RenderedOf(cf)
  BY DEF RenderedOf
<1>1. CASE o \in [do : {"append"}, part : {"releases"}, value : Given]
  <2>1. ApplyOp(m, o) = {[m EXCEPT !.releases = Append(m.releases, o.value)]}
    BY <1>1 DEF ApplyOp
  <2>2. Append(m.releases, o.value) \in Seq(Given)
    BY <1>1 DEF RenderedOf
  <2> QED
    BY <1>new, <2>1, <2>2
<1>2. CASE o \in [do : {"append"}, part : {"variables"}, value : Text]
  <2>1. ApplyOp(m, o) = {[m EXCEPT !.variables = Append(m.variables, o.value)]}
    BY <1>2 DEF ApplyOp
  <2>2. Append(m.variables, o.value) \in Seq(Text)
    BY <1>2 DEF RenderedOf
  <2> QED
    BY <2>1, <2>2 DEF RenderedOf
<1>3. CASE o \in [do : {"replace"}, value : Given, optional : BOOLEAN]
  <2>1. ApplyOp(m, o) = ReplaceRelease(m, o.value, o.optional)
    BY <1>3 DEF ApplyOp
  <2>2. "releases" \in DOMAIN m /\ m.releases \in Seq(Given)
    BY DEF RenderedOf
  <2>3. o.value \in Given /\ o.optional \in BOOLEAN
    BY <1>3
  <2> QED
    BY <1>new, <2>1, <2>2, <2>3, ReplaceKeeps
<1>4. CASE o \in [do : {"pin"}, name : Text, version : Nat]
  <2>1. ApplyOp(m, o) = PinRelease(m, o.name, o.version)
    BY <1>4 DEF ApplyOp
  <2>2. "releases" \in DOMAIN m /\ m.releases \in Seq(Given)
    BY DEF RenderedOf
  <2> QED
    BY <1>new, <1>4, <2>1, <2>2, PinKeeps
<1> QED
  BY <1>1, <1>2, <1>3, <1>4 DEF Operation

\* bosh deploy: no release has a stemcell section, and the sections only become fewer.
LEMMA BOSHApplyOpKeeps ==
  ASSUME NEW m \in RenderedBOSHOf, NEW o \in BOSHOperation
  PROVE  ApplyOp(m, o) \subseteq RenderedBOSHOf
<1>new. ASSUME NEW rs \in Seq(GivenPlain)
      PROVE  [m EXCEPT !.releases = rs] \in RenderedBOSHOf
  BY DEF RenderedBOSHOf
<1>old. "releases" \in DOMAIN m /\ m.releases \in Seq(GivenPlain)
  BY DEF RenderedBOSHOf
<1>1. CASE o \in [do : {"append"}, part : {"releases"}, value : GivenPlain]
  <2>1. ApplyOp(m, o) = {[m EXCEPT !.releases = Append(m.releases, o.value)]}
    BY <1>1 DEF ApplyOp
  <2>2. Append(m.releases, o.value) \in Seq(GivenPlain)
    BY <1>1 DEF RenderedBOSHOf
  <2> QED
    BY <1>new, <2>1, <2>2
<1>2. CASE o \in [do : {"append"}, part : {"variables"}, value : Text]
  <2>1. ApplyOp(m, o) = {[m EXCEPT !.variables = Append(m.variables, o.value)]}
    BY <1>2 DEF ApplyOp
  <2>2. Append(m.variables, o.value) \in Seq(Text)
    BY <1>2 DEF RenderedBOSHOf
  <2> QED
    BY <2>1, <2>2 DEF RenderedBOSHOf
<1>3. CASE o \in [do : {"replace"}, value : GivenPlain, optional : {TRUE}]
  <2>1. ApplyOp(m, o) = ReplaceRelease(m, o.value, o.optional)
    BY <1>3 DEF ApplyOp
  <2>2. o.value \in GivenPlain /\ o.optional \in BOOLEAN
    BY <1>3
  <2> QED
    BY <1>new, <1>old, <2>1, <2>2, ReplaceKeeps
<1>5. CASE o \in [do : {"append"}, part : {"stemcells"}, value : Requirement]
  <2>1. ApplyOp(m, o) = {[m EXCEPT !.stemcells = Append(m.stemcells, o.value)]}
    BY <1>5 DEF ApplyOp
  <2>2. Append(m.stemcells, o.value) \in Seq(Requirement)
    BY <1>5 DEF RenderedBOSHOf
  <2> QED
    BY <2>1, <2>2 DEF RenderedBOSHOf
<1>6. CASE o \in [do : {"job"}, value : BOSHJob]
  <2>1. ApplyOp(m, o) = {[m EXCEPT !.groups[1].jobs = Append(@, o.value)]}
    BY <1>6 DEF ApplyOp
  <2> DEFINE g == [m.groups[1] EXCEPT !.jobs = Append(m.groups[1].jobs, o.value)]
             gs == [m.groups EXCEPT ![1] = g]
  <2>2. [m EXCEPT !.groups[1].jobs = Append(@, o.value)] = [m EXCEPT !.groups = gs]
    OBVIOUS
  <2>3. m.groups \in [{1} -> BOSHGroup] /\ m.groups[1] \in BOSHGroup
    BY DEF RenderedBOSHOf
  <2>4. Append(m.groups[1].jobs, o.value) \in Seq(BOSHJob)
    BY <1>6, <2>3 DEF BOSHGroup
  <2>5. g \in BOSHGroup
    BY <2>3, <2>4 DEF BOSHGroup
  <2> HIDE DEF g
  <2>6. gs \in [{1} -> BOSHGroup]
    BY <2>3, <2>5
  <2> HIDE DEF gs
  <2> QED
    BY <2>1, <2>2, <2>6 DEF RenderedBOSHOf
<1>7. CASE o \in [do : {"editJob"}, name : Text]
  BY <1>7 DEF ApplyOp
<1>8. CASE o \in [do : {"edit"}, section : Text]
  BY <1>8 DEF ApplyOp
<1>9. CASE o \in [do : {"remove"}, section : Text]
  <2>1. ApplyOp(m, o) \subseteq {[m EXCEPT !.sections = m.sections \ {o.section}]}
    BY <1>9 DEF ApplyOp
  <2>2. m.sections \ {o.section} \in SUBSET CreateEnvSections
    BY DEF RenderedBOSHOf
  <2> QED
    BY <2>1, <2>2 DEF RenderedBOSHOf
<1>10. CASE o \in [do : {"removeVariable"}, name : Text]
  <2>1. ApplyOp(m, o) \subseteq {[m EXCEPT !.variables = Without(m.variables, {o.name})]}
    BY <1>10 DEF ApplyOp
  <2>2. Without(m.variables, {o.name}) \in Seq(Text)
    <3>1. m.variables \in Seq(Text)
      BY DEF RenderedBOSHOf
    <3>2. Without(m.variables, {o.name}) \in Seq(Text \ {o.name})
      BY <3>1, WithoutType
    <3> QED
      BY <3>2
  <2> QED
    BY <2>1, <2>2 DEF RenderedBOSHOf
<1> QED
  BY <1>1, <1>2, <1>3, <1>5, <1>6, <1>7, <1>8, <1>9, <1>10 DEF BOSHOperation

\* What is embedded, in terms of these sets.
LEMMA DocsGiven ==
  ASSUME NEW doc \in Docs
  PROVE  /\ doc.cf.releases \in Seq(GivenPlain) /\ doc.cf.releases \in Seq(Given)
         /\ doc.dns.releases \in Seq(GivenPlain) /\ doc.dns.releases \in Seq(Given)
         /\ doc.compiled \in Seq(Given)
         /\ doc.dns.variables \in Seq(Text) /\ doc.cf.variables \in Seq(Text)
         /\ doc.cf.stemcells \in Seq(Requirement)
         /\ doc.cf = [groups |-> doc.cf.groups, aliases |-> doc.cf.aliases,
                      releases |-> doc.cf.releases, variables |-> doc.cf.variables,
                      stemcells |-> doc.cf.stemcells, sections |-> {}]
<1>1. Fetchable \subseteq Given /\ STRING \subseteq Text /\ Unlabelled \subseteq GivenPlain
      /\ GivenPlain \subseteq Given
  BY DEF Unlabelled, Fetchable, Release, Given, GivenPlain, Text
<1>2. /\ Seq(Fetchable) \subseteq Seq(Given) /\ Seq(STRING) \subseteq Seq(Text)
      /\ Seq(Unlabelled) \subseteq Seq(GivenPlain) /\ Seq(GivenPlain) \subseteq Seq(Given)
  BY <1>1, SeqMonotonic
<1> QED
  BY <1>2, DocsAssumption

\* An operation of the runtime config or of a compiled release: it pins nothing, and what
\* it sets has no stemcell section or is pinned later.
Setting(names) ==
  [do : {"append"}, part : {"releases"}, value : GivenPlain]
  \cup [do : {"append"}, part : {"variables"}, value : Text]
  \cup [do : {"replace"}, value : {r \in Given : r.stemcell = NoSection \/ r.name \in names},
        optional : BOOLEAN]

NamesOf(rs) == {rs[i].name : i \in DOMAIN rs}

\* The pins follow what is pinned.
PinsFollow(ops, K, pinned, version) ==
  /\ K \in Nat /\ pinned \in Seq(Given) /\ version \in Nat /\ Len(ops) = K + Len(pinned)
  /\ \A i \in 1 .. K : ops[i] \in Setting(NamesOf(pinned))
  /\ \A j \in 1 .. Len(pinned) : ops[K + j] = Pinning(pinned[j].name, version)

\* The order in which cf deploy applies its operations (prepareCFManifestFiles).
LEMMA CFPins ==
  ASSUME NEW doc \in Docs, NEW ops \in PrepareCFManifestFiles(doc)
  PROVE  /\ doc.cf.stemcells # <<>> /\ ops = [i \in 1 .. Len(ops) |-> ops[i]]
         /\ \E K, pinned : PinsFollow(ops, K, pinned, doc.cf.stemcells[1].version)
<1> USE DocsGiven
<1> DEFINE S == {r \in ToSet(doc.compiled) : r.stemcell = NoSection}
           pinned == Without(doc.compiled, S)
           names == NamesOf(pinned)
           version == doc.cf.stemcells[1].version
           pins == [i \in DOMAIN pinned |-> Pinning(pinned[i].name, version)]
           added == [i \in DOMAIN doc.dns.releases |-> Appending("releases", doc.dns.releases[i])]
           variables == [i \in DOMAIN doc.dns.variables |->
                           Appending("variables", doc.dns.variables[i])]
           replaced == [i \in DOMAIN doc.compiled |-> Replacing(doc.compiled[i])]
           set == added \o variables \o replaced
           K == Len(set)
<1>1. doc.cf.stemcells # <<>> /\ ops = set \o pins
  BY DEF PrepareCFManifestFiles, CompiledReleasesStemcellOpsFile, DNSOpsFile, StandardCFOpsFiles
<1>2. pinned \in Seq(Given)
  <2>1. pinned \in Seq(Given \ S)
    BY WithoutType
  <2> HIDE DEF pinned
  <2> QED
    BY <2>1
<1>3. version \in Nat
  <2>1. doc.cf.stemcells[1] \in Requirement
    <3>1. doc.cf.stemcells \in Seq(Requirement) /\ doc.cf.stemcells # <<>>
      BY <1>1
    <3> QED
      BY <3>1
  <2> QED
    BY <2>1, StemcellsAssumption DEF Requirement, Tags, Versions, Latest
<1>4. ASSUME NEW i \in DOMAIN doc.compiled, doc.compiled[i].stemcell # NoSection
      PROVE  doc.compiled[i].name \in names
  <2>1. doc.compiled[i] \in ToSet(doc.compiled) \ S
    BY <1>4 DEF ToSet
  <2>2. doc.compiled[i] \in ToSet(pinned)
    BY <2>1, WithoutKeeps
  <2> HIDE DEF pinned
  <2> QED
    BY <2>2 DEF ToSet, NamesOf
<1> HIDE DEF pinned, version, names
<1>5. added \in Seq(Setting(names))
  <2>1. doc.dns.releases \in Seq(GivenPlain)
    OBVIOUS
  <2>2. \A i \in DOMAIN doc.dns.releases :
          Appending("releases", doc.dns.releases[i]) \in Setting(names)
    BY <2>1 DEF Appending, Setting
  <2>3. DOMAIN doc.dns.releases = 1 .. Len(doc.dns.releases) /\ Len(doc.dns.releases) \in Nat
    BY <2>1
  <2> QED
    BY <2>2, <2>3
<1>6. variables \in Seq(Setting(names))
  <2>1. doc.dns.variables \in Seq(Text)
    OBVIOUS
  <2>2. \A i \in DOMAIN doc.dns.variables :
          Appending("variables", doc.dns.variables[i]) \in Setting(names)
    BY <2>1 DEF Appending, Setting
  <2> QED
    BY <2>1, <2>2
<1>7. replaced \in Seq(Setting(names))
  <2>1. doc.compiled \in Seq(Given)
    OBVIOUS
  <2>2. \A i \in DOMAIN doc.compiled : Replacing(doc.compiled[i]) \in Setting(names)
    BY <1>4, <2>1 DEF Replacing, Setting
  <2> QED
    BY <2>1, <2>2
<1> HIDE DEF added, variables, replaced
<1>8. set \in Seq(Setting(names))
  BY <1>5, <1>6, <1>7
<1> HIDE DEF set
<1>9. /\ DOMAIN pins = 1 .. Len(pinned) /\ Len(pins) = Len(pinned) /\ Len(pinned) \in Nat
      /\ \A j \in 1 .. Len(pinned) : pins[j] = Pinning(pinned[j].name, version)
  BY <1>2
<1>10. pins \in Seq({pins[j] : j \in 1 .. Len(pinned)})
  <2>1. pins \in [1 .. Len(pinned) -> {pins[j] : j \in 1 .. Len(pinned)}]
    BY <1>9
  <2> HIDE DEF pins
  <2> QED
    BY <1>9, <2>1, SeqDef
<1> HIDE DEF pins
<1>11. PinsFollow(ops, K, pinned, version)
  <2>1. /\ K \in Nat /\ Len(ops) = K + Len(pinned)
        /\ \A i \in 1 .. K : ops[i] = set[i] /\ set[i] \in Setting(names)
        /\ \A j \in 1 .. Len(pinned) : ops[K + j] = pins[j]
    <3> DEFINE P == {pins[j] : j \in 1 .. Len(pinned)}
    <3>1. pins \in Seq(P)
      BY <1>10
    <3> HIDE DEF P
    <3>2. /\ Len(set \o pins) = Len(set) + Len(pins) /\ Len(set) \in Nat
          /\ \A i \in 1 .. Len(set) : (set \o pins)[i] = set[i] /\ set[i] \in Setting(names)
          /\ \A j \in 1 .. Len(pins) : (set \o pins)[Len(set) + j] = pins[j]
      BY <1>8, <3>1, Concatenation
    <3> QED
      BY <1>1, <1>9, <3>2
  <2> HIDE DEF K
  <2> QED
    BY <1>2, <1>3, <1>9, <2>1 DEF PinsFollow, names
<1>12. ops = [i \in 1 .. Len(ops) |-> ops[i]]
  BY <1>1, <1>8, <1>10, Concatenation
<1> HIDE DEF K
<1> QED
  BY <1>1, <1>11, <1>12 DEF version

\* What cf deploy applies are operations.
LEMMA CFOperations ==
  ASSUME NEW doc \in Docs, NEW ops \in PrepareCFManifestFiles(doc)
  PROVE  ops \in Seq(Operation) /\ doc.cf \in RenderedOf(doc.cf)
<1>1. PICK K, pinned : PinsFollow(ops, K, pinned, doc.cf.stemcells[1].version)
  BY CFPins
<1> DEFINE version == doc.cf.stemcells[1].version
<1>2. ASSUME NEW i \in 1 .. K PROVE ops[i] \in Operation
  <2>1. GivenPlain \subseteq Given
    BY DEF GivenPlain
  <2>2. Setting(NamesOf(pinned)) \subseteq Operation
    BY <2>1 DEF Setting, Operation
  <2> QED
    BY <1>1, <2>2 DEF PinsFollow
<1>3. ASSUME NEW j \in 1 .. Len(pinned) PROVE ops[K + j] \in Operation
  <2>1. pinned[j] \in Given /\ version \in Nat /\ ops[K + j] = Pinning(pinned[j].name, version)
    BY <1>1 DEF PinsFollow
  <2> HIDE DEF version
  <2>2. pinned[j].name \in Text
    BY <2>1 DEF Given
  <2> QED
    BY <2>1, <2>2 DEF Pinning, Operation
<1>4. ops \in Seq(Operation)
  <2>1. K \in Nat /\ Len(pinned) \in Nat /\ Len(ops) = K + Len(pinned)
    BY <1>1 DEF PinsFollow
  <2>2. ASSUME NEW i \in 1 .. Len(ops) PROVE ops[i] \in Operation
    <3>1. CASE i \in 1 .. K
      BY <1>2, <3>1
    <3>2. CASE i \notin 1 .. K
      <4>1. i - K \in 1 .. Len(pinned) /\ K + (i - K) = i
        BY <2>1, <3>2
      <4> QED
        BY <1>3, <4>1
    <3> QED
      BY <3>1, <3>2
  <2>3. ops = [i \in 1 .. Len(ops) |-> ops[i]]
    BY CFPins
  <2>4. ops \in [1 .. Len(ops) -> Operation]
    BY <2>2, <2>3
  <2> QED
    BY <2>1, <2>4, SeqDef
<1>5. doc.cf \in RenderedOf(doc.cf)
  <2> DEFINE g == doc.cf.groups
             a == doc.cf.aliases
             r == doc.cf.releases
             v == doc.cf.variables
             s == doc.cf.stemcells
             cf == [groups |-> g, aliases |-> a, releases |-> r, variables |-> v,
                    stemcells |-> s, sections |-> {}]
  <2>1. doc.cf = cf /\ r \in Seq(Given) /\ v \in Seq(Text)
    BY DocsGiven
  <2> HIDE DEF g, a, r, v, s
  <2>2. cf \in RenderedOf(cf)
    BY <2>1 DEF RenderedOf
  <2> HIDE DEF cf
  <2> QED
    BY <2>1, <2>2
<1> QED
  BY <1>4, <1>5

\* What cf deploy makes of its manifest.
LEMMA CFRendered ==
  ASSUME NEW doc \in Docs, NEW m \in RenderedCF(doc)
  PROVE  m \in RenderedOf(doc.cf)
<1>1. PICK ops \in PrepareCFManifestFiles(doc) : m \in Interpolated(doc.cf, ops)
  BY DEF RenderedCF
<1>2. ops \in Seq(Operation) /\ doc.cf \in RenderedOf(doc.cf)
  BY CFOperations
<1>3. \A n \in RenderedOf(doc.cf) : \A o \in Operation :
        ApplyOp(n, o) \subseteq RenderedOf(doc.cf)
  BY ApplyOpKeeps
<1>4. Interpolated(doc.cf, ops) \subseteq RenderedOf(doc.cf)
  BY <1>2, <1>3, InterpolatedStays
<1> QED
  BY <1>1, <1>4

\* The operations that the ops files of bosh deploy are made of.
LEMMA BOSHOperations ==
  /\ \A name \in Text : \A n \in Nat :
       /\ Appending("releases", PlainRelease(name, n)) \in BOSHOperation
       /\ Putting(PlainRelease(name, n)) \in BOSHOperation
  /\ \A name \in Text :
        /\ Adding(NoRoutes(name)) \in BOSHOperation /\ EditingJob(name) \in BOSHOperation
        /\ Editing(name) \in BOSHOperation /\ Removing(name) \in BOSHOperation
        /\ RemovingVariable(name) \in BOSHOperation
        /\ Appending("variables", name) \in BOSHOperation
<1>1. ASSUME NEW name \in Text, NEW n \in Nat
      PROVE  PlainRelease(name, n) \in GivenPlain
  BY DEF PlainRelease, Given, GivenPlain
<1>2. ASSUME NEW r \in GivenPlain
      PROVE  Appending("releases", r) \in BOSHOperation /\ Putting(r) \in BOSHOperation
  BY DEF BOSHOperation, Appending, Putting
<1>3. ASSUME NEW name \in Text
      PROVE  /\ Adding(NoRoutes(name)) \in BOSHOperation /\ EditingJob(name) \in BOSHOperation
             /\ Editing(name) \in BOSHOperation /\ Removing(name) \in BOSHOperation
             /\ RemovingVariable(name) \in BOSHOperation
             /\ Appending("variables", name) \in BOSHOperation
  BY DEF BOSHOperation, BOSHJob, Appending, Adding, NoRoutes, EditingJob, Editing,
         Removing, RemovingVariable
<1> QED
  BY <1>1, <1>2, <1>3

\* What bosh deploy applies are operations.
LEMMA BOSHOpsFiles ==
  ASSUME NEW stemcell \in Requirement
  PROVE  /\ PrepareBOSHManifestFiles(stemcell) \in Seq(BOSHOperation)
         /\ BOSHLiteManifest \in Seq(BOSHOperation) /\ WardenCPIOpsFile \in Seq(BOSHOperation)
         /\ JumpboxUserOpsFile \in Seq(BOSHOperation) /\ UAAOpsFile \in Seq(BOSHOperation)
         /\ CredhubOpsFile \in Seq(BOSHOperation)
         /\ BOSHDevOpsFile(stemcell) \in Seq(BOSHOperation)
<1>4. Appending("stemcells", stemcell) \in BOSHOperation
  BY DEF BOSHOperation, Appending
<1>6. BOSHLiteManifest \in Seq(BOSHOperation)
  <2>1. /\ Appending("releases", PlainRelease("garden-runc", 1)) \in BOSHOperation
        /\ Appending("releases", PlainRelease("bosh-warden-cpi", 1)) \in BOSHOperation
        /\ Adding(NoRoutes("garden")) \in BOSHOperation /\ EditingJob("garden") \in BOSHOperation
        /\ Adding(NoRoutes("warden_cpi")) \in BOSHOperation
        /\ Putting(PlainRelease("os-conf", 1)) \in BOSHOperation
        /\ Adding(NoRoutes("disable_agent")) \in BOSHOperation
    BY BOSHOperations DEF Text
  <2> QED
    BY <2>1, Tuples DEF BOSHLiteManifest
<1>7. WardenCPIOpsFile \in Seq(BOSHOperation)
  <2>1. /\ Putting(PlainRelease("bosh-warden-cpi", 1)) \in BOSHOperation
        /\ Editing("resource_pools") \in BOSHOperation
        /\ Editing("cloud_provider") \in BOSHOperation
    BY BOSHOperations DEF Text
  <2> QED
    BY <2>1, Tuples DEF WardenCPIOpsFile
<1>8. JumpboxUserOpsFile \in Seq(BOSHOperation)
  <2>1. /\ Putting(PlainRelease("os-conf", 2)) \in BOSHOperation
        /\ Adding(NoRoutes("user_add")) \in BOSHOperation
        /\ Appending("variables", "jumpbox_ssh") \in BOSHOperation
    BY BOSHOperations DEF Text
  <2> QED
    BY <2>1, Tuples DEF JumpboxUserOpsFile
<1>9. UAAOpsFile \in Seq(BOSHOperation)
  <2>1. /\ Appending("releases", PlainRelease("uaa", 1)) \in BOSHOperation
        /\ Adding(NoRoutes("uaa")) \in BOSHOperation
    BY BOSHOperations DEF Text
  <2> QED
    BY <2>1, Tuples DEF UAAOpsFile
<1>10. CredhubOpsFile \in Seq(BOSHOperation)
  <2>1. /\ Appending("releases", PlainRelease("credhub", 1)) \in BOSHOperation
        /\ Adding(NoRoutes("credhub")) \in BOSHOperation /\ EditingJob("uaa") \in BOSHOperation
    BY BOSHOperations DEF Text
  <2> QED
    BY <2>1, Tuples DEF CredhubOpsFile
<1>11. BOSHDevOpsFile(stemcell) \in Seq(BOSHOperation)
  <2>1. /\ Removing("networks") \in BOSHOperation /\ Removing("disk_pools") \in BOSHOperation
        /\ Removing("persistent_disk_pool") \in BOSHOperation
        /\ Removing("resource_pools") \in BOSHOperation
        /\ Removing("resource_pool") \in BOSHOperation
        /\ Removing("cloud_provider") \in BOSHOperation
        /\ RemovingVariable("mbus_bootstrap_password") \in BOSHOperation
    BY BOSHOperations DEF Text
  <2> QED
    BY <1>4, <2>1, Tuples DEF BOSHDevOpsFile
<1> QED
  BY <1>6, <1>7, <1>8, <1>9, <1>10, <1>11 DEF PrepareBOSHManifestFiles

\* What bosh deploy makes of its manifest, and what that is before.
LEMMA BOSHManifestType == boshManifest \in RenderedBOSHOf
<1>1. boshManifest.groups \in [{1} -> BOSHGroup]
  <2> DEFINE jobs == <<NoRoutes("director"), NoRoutes("health_monitor")>>
             g == [name |-> "bosh", jobs |-> jobs, disk |-> NoDisk, ips |-> {"internal"},
                   extensions |-> {}]
  <2>1. NoRoutes("director") \in BOSHJob /\ NoRoutes("health_monitor") \in BOSHJob
    BY DEF NoRoutes, BOSHJob, Text
  <2>2. jobs \in Seq(BOSHJob)
    BY <2>1, Tuples
  <2>3. boshManifest.groups = <<g>>
    BY DEF boshManifest
  <2> HIDE DEF jobs
  <2>4. g \in BOSHGroup
    BY <2>2 DEF BOSHGroup
  <2> HIDE DEF g
  <2> QED
    BY <2>3, <2>4
<1>2. boshManifest.releases \in Seq(GivenPlain)
  <2>1. PlainRelease("bosh", 1) \in GivenPlain /\ PlainRelease("bpm", 1) \in GivenPlain
    BY DEF PlainRelease, Given, GivenPlain, Text
  <2> QED
    BY <2>1, Tuples DEF boshManifest
<1>3. boshManifest.variables \in Seq(Text) /\ boshManifest.stemcells \in Seq(Requirement)
  <2>1. "admin_password" \in Text /\ "mbus_bootstrap_password" \in Text
    BY DEF Text
  <2>2. <<"admin_password", "mbus_bootstrap_password">> \in Seq(Text)
    BY <2>1, Tuples
  <2> QED
    BY <2>2 DEF boshManifest
<1>4. boshManifest = [groups |-> boshManifest.groups, aliases |-> <<>>,
                      releases |-> boshManifest.releases, variables |-> boshManifest.variables,
                      stemcells |-> boshManifest.stemcells, sections |-> CreateEnvSections]
  BY DEF boshManifest
<1> QED
  BY <1>1, <1>2, <1>3, <1>4 DEF RenderedBOSHOf

\* What bosh deploy makes of its manifest stays of that kind.
LEMMA BOSHRendered ==
  ASSUME NEW stemcell \in Requirement, NEW m \in RenderedBOSH(stemcell)
  PROVE  m \in RenderedBOSHOf
<1>1. boshManifest \in RenderedBOSHOf
  BY BOSHManifestType
<1>2. \A n \in RenderedBOSHOf : \A o \in BOSHOperation : ApplyOp(n, o) \subseteq RenderedBOSHOf
  BY BOSHApplyOpKeeps
<1>3. PrepareBOSHManifestFiles(stemcell) \in Seq(BOSHOperation)
  BY BOSHOpsFiles
<1>4. Interpolated(boshManifest, PrepareBOSHManifestFiles(stemcell)) \subseteq RenderedBOSHOf
  BY <1>1, <1>2, <1>3, InterpolatedStays
<1> QED
  BY <1>4 DEF RenderedBOSH
-----------------------------------------------------------------------------
\* That the ops files of bosh deploy apply, one after the other: what they find of each
\* manifest that they can make of bosh.yml.  Its releases have the names of N, each once; it
\* has the jobs J, the variables V and the stemcells C, and of create-env the sections S.
Shaped(m, N, J, V, C, S) ==
  /\ m \in RenderedBOSHOf
  /\ NamesOf(m.releases) = N
  /\ \A i, j \in DOMAIN m.releases : m.releases[i].name = m.releases[j].name => i = j
  /\ J \subseteq NamesOf(Jobs(m)) /\ V \subseteq ToSet(m.variables)
  /\ C \subseteq ToSet(m.stemcells)
  /\ m.sections = S

AllShaped(ms, N, J, V, C, S) == ms # {} /\ \A m \in ms : Shaped(m, N, J, V, C, S)

Made(ms, o) == UNION {ApplyOp(m, o) : m \in ms}

\* An operation that makes something of every manifest.
LEMMA MadeShaped ==
  ASSUME NEW N, NEW J, NEW V, NEW C, NEW S, NEW ms, ms # {}, NEW o,
         \A m \in ms : /\ ApplyOp(m, o) # {}
                      /\ \A n \in ApplyOp(m, o) : Shaped(n, N, J, V, C, S)
  PROVE  AllShaped(Made(ms, o), N, J, V, C, S)
<1>1. ASSUME NEW n \in Made(ms, o) PROVE Shaped(n, N, J, V, C, S)
  BY DEF Made
<1>2. PICK m : m \in ms
  OBVIOUS
<1>3. PICK n : n \in ApplyOp(m, o)
  BY <1>2
<1>4. n \in Made(ms, o)
  BY <1>2, <1>3 DEF Made
<1> QED
  BY <1>1, <1>4 DEF AllShaped

\* What a manifest has apart from its releases is what it had, after an operation on them.
LEMMA ReleasesShaped ==
  ASSUME NEW N, NEW J, NEW V, NEW C, NEW S, NEW m, Shaped(m, N, J, V, C, S),
         NEW rs \in Seq(GivenPlain), NEW M, NamesOf(rs) = M,
         \A i, j \in DOMAIN rs : rs[i].name = rs[j].name => i = j
  PROVE  Shaped([m EXCEPT !.releases = rs], M, J, V, C, S)
<1> DEFINE n == [m EXCEPT !.releases = rs]
<1>1. n \in RenderedBOSHOf
  BY DEF Shaped, RenderedBOSHOf
<1>2. /\ n.releases = rs /\ n.groups = m.groups /\ n.variables = m.variables
      /\ n.stemcells = m.stemcells /\ n.sections = m.sections
  BY DEF Shaped, RenderedBOSHOf
<1> HIDE DEF n
<1>3. Shaped(n, M, J, V, C, S)
  BY <1>1, <1>2 DEF Shaped, Jobs
<1> QED
  BY <1>3 DEF n

\* One release more, of another name.
LEMMA AppendedShaped ==
  ASSUME NEW N, NEW J, NEW V, NEW C, NEW S, NEW m, Shaped(m, N, J, V, C, S),
         NEW r \in GivenPlain, r.name \notin N
  PROVE  Shaped([m EXCEPT !.releases = Append(m.releases, r)], N \cup {r.name}, J, V, C, S)
<1> DEFINE rs == Append(m.releases, r)
<1>1. m.releases \in Seq(GivenPlain) /\ rs \in Seq(GivenPlain)
  BY DEF Shaped, RenderedBOSHOf
<1>2. /\ Len(m.releases) \in Nat /\ DOMAIN m.releases = 1 .. Len(m.releases)
      /\ DOMAIN rs = 1 .. Len(m.releases) + 1 /\ rs[Len(m.releases) + 1] = r
      /\ \A i \in 1 .. Len(m.releases) : rs[i] = m.releases[i]
  BY <1>1
<1>3. \A i \in DOMAIN m.releases : m.releases[i].name \in N
  BY DEF Shaped, NamesOf
<1>4. NamesOf(rs) = N \cup {r.name}
  <2>1. \A x \in NamesOf(m.releases) : x \in NamesOf(rs)
    <3> HIDE DEF rs
    <3> QED
      BY <1>2 DEF NamesOf
  <2>2. r.name \in NamesOf(rs)
    <3>1. Len(m.releases) + 1 \in DOMAIN rs
      BY <1>2
    <3> HIDE DEF rs
    <3> QED
      BY <1>2, <3>1 DEF NamesOf
  <2>3. \A i \in DOMAIN rs : rs[i].name \in N \cup {r.name}
    <3> HIDE DEF rs
    <3> QED
      BY <1>2, <1>3
  <2> HIDE DEF rs
  <2> QED
    BY <2>1, <2>2, <2>3 DEF Shaped, NamesOf
<1>5. \A i, j \in DOMAIN rs : rs[i].name = rs[j].name => i = j
  <2> SUFFICES ASSUME NEW i \in DOMAIN rs, NEW j \in DOMAIN rs, rs[i].name = rs[j].name
               PROVE  i = j
    OBVIOUS
  <2> DEFINE L == Len(m.releases)
  <2> HIDE DEF rs
  <2>1. \A k, l \in 1 .. L : m.releases[k].name = m.releases[l].name => k = l
    BY <1>2 DEF Shaped
  <2>2. /\ L \in Nat /\ DOMAIN rs = 1 .. L + 1 /\ rs[L + 1].name \notin N
        /\ \A k \in 1 .. L : rs[k] = m.releases[k] /\ rs[k].name \in N
    BY <1>2, <1>3
  <2> HIDE DEF L
  <2>3. (i \in 1 .. L \/ i = L + 1) /\ (j \in 1 .. L \/ j = L + 1)
    BY <2>2
  <2> QED
    BY <2>1, <2>2, <2>3
<1> HIDE DEF rs
<1>6. Shaped([m EXCEPT !.releases = rs], N \cup {r.name}, J, V, C, S)
  BY <1>1, <1>4, <1>5, ReleasesShaped
<1> QED
  BY <1>6 DEF rs

\* What each operation makes of a set of manifests that look alike.
LEMMA AppendsRelease ==
  ASSUME NEW N, NEW J, NEW V, NEW C, NEW S, NEW ms, AllShaped(ms, N, J, V, C, S),
         NEW name \in Text, NEW v \in Nat, name \notin N
  PROVE  AllShaped(Made(ms, Appending("releases", PlainRelease(name, v))),
                   N \cup {name}, J, V, C, S)
<1> DEFINE r == PlainRelease(name, v)
           o == Appending("releases", r)
<1>1. r \in GivenPlain /\ r.name = name
  BY DEF PlainRelease, Given, GivenPlain
<1>2. \A m \in ms : ApplyOp(m, o) = {[m EXCEPT !.releases = Append(m.releases, r)]}
  BY DEF ApplyOp, Appending
<1> HIDE DEF r, o
<1>3. \A m \in ms :
        Shaped([m EXCEPT !.releases = Append(m.releases, r)], N \cup {name}, J, V, C, S)
  BY <1>1, AppendedShaped DEF AllShaped
<1>4. AllShaped(Made(ms, o), N \cup {name}, J, V, C, S)
  <2>1. \A m \in ms : /\ ApplyOp(m, o) # {}
                      /\ \A n \in ApplyOp(m, o) : Shaped(n, N \cup {name}, J, V, C, S)
    BY <1>2, <1>3
  <2> QED
    BY <2>1, MadeShaped DEF AllShaped
<1> QED
  BY <1>4 DEF r, o

\* A release that may be there already, with an optional path.
LEMMA PutsRelease ==
  ASSUME NEW N, NEW J, NEW V, NEW C, NEW S, NEW ms, AllShaped(ms, N, J, V, C, S),
         NEW name \in Text, NEW v \in Nat
  PROVE  AllShaped(Made(ms, Putting(PlainRelease(name, v))), N \cup {name}, J, V, C, S)
<1> DEFINE r == PlainRelease(name, v)
           o == Putting(r)
<1>1. r \in GivenPlain /\ r.name = name
  BY DEF PlainRelease, Given, GivenPlain
<1>2. \A m \in ms : ApplyOp(m, o) = ReplaceRelease(m, r, TRUE)
  BY DEF ApplyOp, Putting
<1> HIDE DEF r, o
<1>3. ASSUME NEW m \in ms
      PROVE  /\ ReplaceRelease(m, r, TRUE) # {}
             /\ \A n \in ReplaceRelease(m, r, TRUE) : Shaped(n, N \cup {name}, J, V, C, S)
  <2>1. Shaped(m, N, J, V, C, S)
    BY DEF AllShaped
  <2>2. m.releases \in Seq(GivenPlain)
    BY <2>1 DEF Shaped, RenderedBOSHOf
  <2>3. CASE name \notin N
    <3>1. Indices(m, name) = {}
      BY <2>1, <2>3 DEF Indices, Shaped, NamesOf
    <3>2. ReplaceRelease(m, r, TRUE) = {[m EXCEPT !.releases = Append(m.releases, r)]}
      BY <1>1, <3>1 DEF ReplaceRelease
    <3>3. Shaped([m EXCEPT !.releases = Append(m.releases, r)], N \cup {name}, J, V, C, S)
      BY <1>1, <2>1, <2>3, AppendedShaped
    <3> QED
      BY <3>2, <3>3
  <2>4. CASE name \in N
    <3>1. PICK i \in DOMAIN m.releases : m.releases[i].name = name
      BY <2>1, <2>4 DEF Shaped, NamesOf
    <3>2. Indices(m, name) = {i}
      BY <2>1, <3>1 DEF Indices, Shaped
    <3> DEFINE rs == [m.releases EXCEPT ![i] = r]
    <3>3. ReplaceRelease(m, r, TRUE) = {[m EXCEPT !.releases = rs]}
      BY <1>1, <3>2 DEF ReplaceRelease
    <3>4. rs \in Seq(GivenPlain)
      BY <1>1, <2>2
    <3>5. DOMAIN rs = DOMAIN m.releases /\ \A k \in DOMAIN rs : rs[k].name = m.releases[k].name
      BY <1>1, <2>2, <3>1
    <3> HIDE DEF rs
    <3>6. NamesOf(rs) = N \cup {name}
      BY <2>1, <2>4, <3>5 DEF Shaped, NamesOf
    <3>7. \A k, j \in DOMAIN rs : rs[k].name = rs[j].name => k = j
      BY <2>1, <3>5 DEF Shaped
    <3>8. Shaped([m EXCEPT !.releases = rs], N \cup {name}, J, V, C, S)
      BY <2>1, <3>4, <3>6, <3>7, ReleasesShaped
    <3> QED
      BY <3>3, <3>8
  <2> QED
    BY <2>3, <2>4
<1>4. AllShaped(Made(ms, o), N \cup {name}, J, V, C, S)
  BY <1>2, <1>3, MadeShaped DEF AllShaped
<1> QED
  BY <1>4 DEF r, o

\* A variable more.
LEMMA AppendsVariable ==
  ASSUME NEW N, NEW J, NEW V, NEW C, NEW S, NEW ms, AllShaped(ms, N, J, V, C, S),
         NEW name \in Text
  PROVE  AllShaped(Made(ms, Appending("variables", name)), N, J, V, C, S)
<1> DEFINE o == Appending("variables", name)
           Out(m) == [m EXCEPT !.variables = Append(m.variables, name)]
<1>1. \A m \in ms : ApplyOp(m, o) = {Out(m)}
  BY DEF ApplyOp, Appending
<1>2. ASSUME NEW m \in ms PROVE Shaped(Out(m), N, J, V, C, S)
  <2> DEFINE n == Out(m)
  <2>1. Shaped(m, N, J, V, C, S) /\ m \in RenderedBOSHOf /\ m.variables \in Seq(Text)
    BY DEF AllShaped, Shaped, RenderedBOSHOf
  <2>2. o \in BOSHOperation
    BY BOSHOperations
  <2>3. n \in RenderedBOSHOf
    BY <1>1, <2>1, <2>2, BOSHApplyOpKeeps
  <2>4. /\ n.releases = m.releases /\ n.groups = m.groups /\ n.stemcells = m.stemcells
        /\ n.sections = m.sections /\ n.variables = Append(m.variables, name)
    BY <2>1 DEF RenderedBOSHOf
  <2>5. ToSet(m.variables) \subseteq ToSet(Append(m.variables, name))
    BY <2>1 DEF ToSet
  <2> HIDE DEF Out
  <2> QED
    BY <2>1, <2>3, <2>4, <2>5 DEF Shaped, Jobs
<1> HIDE DEF Out, o
<1>3. AllShaped(Made(ms, o), N, J, V, C, S)
  BY <1>1, <1>2 DEF AllShaped, Made
<1> QED
  BY <1>3 DEF o

\* A stemcell more.
LEMMA AppendsStemcell ==
  ASSUME NEW N, NEW J, NEW V, NEW C, NEW S, NEW ms, AllShaped(ms, N, J, V, C, S),
         NEW stemcell \in Requirement
  PROVE  AllShaped(Made(ms, Appending("stemcells", stemcell)), N, J, V, C \cup {stemcell}, S)
<1> DEFINE o == Appending("stemcells", stemcell)
           Out(m) == [m EXCEPT !.stemcells = Append(m.stemcells, stemcell)]
<1>1. \A m \in ms : ApplyOp(m, o) = {Out(m)}
  BY DEF ApplyOp, Appending
<1>2. ASSUME NEW m \in ms PROVE Shaped(Out(m), N, J, V, C \cup {stemcell}, S)
  <2> DEFINE n == Out(m)
  <2>1. Shaped(m, N, J, V, C, S) /\ m \in RenderedBOSHOf /\ m.stemcells \in Seq(Requirement)
    BY DEF AllShaped, Shaped, RenderedBOSHOf
  <2>2. o \in BOSHOperation
    BY DEF BOSHOperation, Appending
  <2>3. n \in RenderedBOSHOf
    BY <1>1, <2>1, <2>2, BOSHApplyOpKeeps
  <2>4. /\ n.releases = m.releases /\ n.groups = m.groups /\ n.variables = m.variables
        /\ n.sections = m.sections /\ n.stemcells = Append(m.stemcells, stemcell)
    BY <2>1 DEF RenderedBOSHOf
  <2>5. ToSet(m.stemcells) \cup {stemcell} \subseteq ToSet(Append(m.stemcells, stemcell))
    <3> DEFINE c == m.stemcells
               cs == Append(c, stemcell)
               L == Len(c)
    <3>1. /\ L \in Nat /\ DOMAIN c = 1 .. L /\ DOMAIN cs = 1 .. L + 1 /\ cs[L + 1] = stemcell
          /\ \A i \in 1 .. L : cs[i] = c[i]
      BY <2>1
    <3>2. L + 1 \in 1 .. L + 1 /\ 1 .. L \subseteq 1 .. L + 1
      BY <3>1
    <3> HIDE DEF c, cs, L
    <3>3. ToSet(c) \cup {stemcell} \subseteq ToSet(cs)
      BY <3>1, <3>2 DEF ToSet
    <3> QED
      BY <3>3 DEF c, cs
  <2> HIDE DEF Out
  <2> QED
    BY <2>1, <2>3, <2>4, <2>5 DEF Shaped, Jobs
<1> HIDE DEF Out, o
<1>3. AllShaped(Made(ms, o), N, J, V, C \cup {stemcell}, S)
  BY <1>1, <1>2 DEF AllShaped, Made
<1> QED
  BY <1>3 DEF o

\* A job more, in the only group.
LEMMA AddsJob ==
  ASSUME NEW N, NEW J, NEW V, NEW C, NEW S, NEW ms, AllShaped(ms, N, J, V, C, S),
         NEW name \in Text
  PROVE  AllShaped(Made(ms, Adding(NoRoutes(name))), N, J \cup {name}, V, C, S)
<1> DEFINE job == NoRoutes(name)
           o == Adding(job)
           Out(m) == [m EXCEPT !.groups[1].jobs = Append(@, job)]
<1>1. \A m \in ms : ApplyOp(m, o) = {Out(m)}
  BY DEF ApplyOp, Adding
<1>2. ASSUME NEW m \in ms PROVE Shaped(Out(m), N, J \cup {name}, V, C, S)
  <2> DEFINE n == Out(m)
  <2>1. Shaped(m, N, J, V, C, S) /\ m \in RenderedBOSHOf
    BY DEF AllShaped, Shaped
  <2>2. o \in BOSHOperation
    BY BOSHOperations
  <2>3. n \in RenderedBOSHOf
    BY <1>1, <2>1, <2>2, BOSHApplyOpKeeps
  <2>4. m.groups \in [{1} -> BOSHGroup] /\ Jobs(m) \in Seq(BOSHJob)
    BY <2>1 DEF RenderedBOSHOf, BOSHGroup, Jobs
  <2>5. /\ n.releases = m.releases /\ n.variables = m.variables /\ n.stemcells = m.stemcells
        /\ n.sections = m.sections
    BY <2>1 DEF RenderedBOSHOf
  <2>6. Jobs(n) = Append(Jobs(m), job)
    BY <2>1, <2>4 DEF RenderedBOSHOf, BOSHGroup, Jobs
  <2>7. NamesOf(Jobs(m)) \cup {name} \subseteq NamesOf(Append(Jobs(m), job))
    <3>1. job.name = name
      BY DEF NoRoutes
    <3> HIDE DEF job
    <3> QED
      BY <2>4, <3>1 DEF NamesOf
  <2> HIDE DEF Out, job
  <2> QED
    BY <2>1, <2>3, <2>5, <2>6, <2>7 DEF Shaped
<1> HIDE DEF Out, job, o
<1>3. AllShaped(Made(ms, o), N, J \cup {name}, V, C, S)
  BY <1>1, <1>2 DEF AllShaped, Made
<1> QED
  BY <1>3 DEF o, job

\* A job that is there can be edited.
LEMMA EditsJob ==
  ASSUME NEW N, NEW J, NEW V, NEW C, NEW S, NEW ms, AllShaped(ms, N, J, V, C, S), NEW name \in J
  PROVE  AllShaped(Made(ms, EditingJob(name)), N, J, V, C, S)
<1>1. ASSUME NEW m \in ms PROVE ApplyOp(m, EditingJob(name)) = {m}
  <2>1. \E i \in DOMAIN Jobs(m) : Jobs(m)[i].name = name
    BY DEF AllShaped, Shaped, NamesOf
  <2> QED
    BY <2>1 DEF ApplyOp, EditingJob
<1> QED
  BY <1>1 DEF AllShaped, Made

\* So can a section.
LEMMA EditsSection ==
  ASSUME NEW N, NEW J, NEW V, NEW C, NEW S, NEW ms, AllShaped(ms, N, J, V, C, S),
         NEW section \in S
  PROVE  AllShaped(Made(ms, Editing(section)), N, J, V, C, S)
<1>1. ASSUME NEW m \in ms PROVE ApplyOp(m, Editing(section)) = {m}
  <2>1. section \in m.sections
    BY DEF AllShaped, Shaped
  <2> QED
    BY <2>1 DEF ApplyOp, Editing
<1> QED
  BY <1>1 DEF AllShaped, Made

\* A section that is there can be removed.
LEMMA RemovesSection ==
  ASSUME NEW N, NEW J, NEW V, NEW C, NEW S, NEW ms, AllShaped(ms, N, J, V, C, S),
         NEW section \in S, section \in Text
  PROVE  AllShaped(Made(ms, Removing(section)), N, J, V, C, S \ {section})
<1> DEFINE o == Removing(section)
           Out(m) == [m EXCEPT !.sections = m.sections \ {section}]
<1>1. \A m \in ms : ApplyOp(m, o) = {Out(m)}
  BY DEF ApplyOp, Removing, AllShaped, Shaped
<1>2. ASSUME NEW m \in ms PROVE Shaped(Out(m), N, J, V, C, S \ {section})
  <2> DEFINE n == Out(m)
  <2>1. Shaped(m, N, J, V, C, S) /\ m \in RenderedBOSHOf
    BY DEF AllShaped, Shaped
  <2>2. o \in BOSHOperation
    BY BOSHOperations
  <2>3. n \in RenderedBOSHOf
    BY <1>1, <2>1, <2>2, BOSHApplyOpKeeps
  <2>4. /\ n.releases = m.releases /\ n.groups = m.groups /\ n.variables = m.variables
        /\ n.stemcells = m.stemcells /\ n.sections = m.sections \ {section}
    BY <2>1 DEF RenderedBOSHOf
  <2> HIDE DEF Out
  <2> QED
    BY <2>1, <2>3, <2>4 DEF Shaped, Jobs
<1> HIDE DEF Out, o
<1>3. AllShaped(Made(ms, o), N, J, V, C, S \ {section})
  BY <1>1, <1>2 DEF AllShaped, Made
<1> QED
  BY <1>3 DEF o

\* A variable less.
LEMMA RemovesVariable ==
  ASSUME NEW N, NEW J, NEW V, NEW C, NEW S, NEW ms, AllShaped(ms, N, J, V, C, S),
         NEW name \in V, name \in Text
  PROVE  AllShaped(Made(ms, RemovingVariable(name)), N, J, V \ {name}, C, S)
<1> DEFINE o == RemovingVariable(name)
           Out(m) == [m EXCEPT !.variables = Without(m.variables, {name})]
<1>1. \A m \in ms : ApplyOp(m, o) = {Out(m)}
  <2>1. \A m \in ms : name \in ToSet(m.variables)
    BY DEF AllShaped, Shaped
  <2> QED
    BY <2>1 DEF ApplyOp, RemovingVariable
<1>2. ASSUME NEW m \in ms PROVE Shaped(Out(m), N, J, V \ {name}, C, S)
  <2> DEFINE n == Out(m)
  <2>1. Shaped(m, N, J, V, C, S) /\ m \in RenderedBOSHOf /\ m.variables \in Seq(Text)
    BY DEF AllShaped, Shaped, RenderedBOSHOf
  <2>2. o \in BOSHOperation
    BY BOSHOperations
  <2>3. n \in RenderedBOSHOf
    BY <1>1, <2>1, <2>2, BOSHApplyOpKeeps
  <2>4. /\ n.releases = m.releases /\ n.groups = m.groups /\ n.stemcells = m.stemcells
        /\ n.sections = m.sections /\ n.variables = Without(m.variables, {name})
    BY <2>1 DEF RenderedBOSHOf
  <2>5. ASSUME NEW x \in V \ {name} PROVE x \in ToSet(Without(m.variables, {name}))
    <3>1. x \in ToSet(m.variables) \ {name}
      BY <2>1 DEF Shaped
    <3> QED
      BY <2>1, <3>1, WithoutKeeps
  <2> HIDE DEF Out
  <2> QED
    BY <2>1, <2>3, <2>4, <2>5 DEF Shaped, Jobs
<1> HIDE DEF Out, o
<1>3. AllShaped(Made(ms, o), N, J, V \ {name}, C, S)
  BY <1>1, <1>2 DEF AllShaped, Made
<1> QED
  BY <1>3 DEF o

\* Where the operations are.
At(ops, k, file) == \A j \in 1 .. Len(file) : ops[k + j] = file[j]

\* Each of two sequences is where the other ends.
LEMMA JoinedAt ==
  ASSUME NEW O, NEW s \in Seq(O), NEW t \in Seq(O)
  PROVE  /\ s \o t \in Seq(O) /\ Len(s \o t) = Len(s) + Len(t)
         /\ At(s \o t, 0, s) /\ At(s \o t, Len(s), t)
<1>1. s \o t \in Seq(O)
  OBVIOUS
<1>2. /\ Len(s \o t) = Len(s) + Len(t)
      /\ \A i \in 1 .. Len(s) : (s \o t)[i] = s[i]
      /\ \A j \in 1 .. Len(t) : (s \o t)[Len(s) + j] = t[j]
  BY Concatenation
<1>3. \A i \in 1 .. Len(s) : 0 + i = i
  OBVIOUS
<1> QED
  BY <1>1, <1>2, <1>3 DEF At

\* The operations of each file are where those of the files before it end.
LEMMA BOSHOpsFilesAt ==
  ASSUME NEW stemcell \in Requirement
  PROVE  LET ops == PrepareBOSHManifestFiles(stemcell)
         IN  /\ Len(ops) = 26
             /\ At(ops, 0, BOSHLiteManifest) /\ At(ops, 7, WardenCPIOpsFile)
             /\ At(ops, 10, JumpboxUserOpsFile) /\ At(ops, 13, UAAOpsFile)
             /\ At(ops, 15, CredhubOpsFile) /\ At(ops, 18, BOSHDevOpsFile(stemcell))
<1> DEFINE a == BOSHLiteManifest
           b == WardenCPIOpsFile
           c == JumpboxUserOpsFile
           d == UAAOpsFile
           e == CredhubOpsFile
           f == BOSHDevOpsFile(stemcell)
           ab == a \o b
           ac == ab \o c
           ad == ac \o d
           ae == ad \o e
           af == ae \o f
           O == BOSHOperation
<1>1. PrepareBOSHManifestFiles(stemcell) = af
  BY DEF PrepareBOSHManifestFiles
<1>2. a \in Seq(O) /\ b \in Seq(O) /\ c \in Seq(O) /\ d \in Seq(O) /\ e \in Seq(O) /\ f \in Seq(O)
  BY BOSHOpsFiles
<1>3. Len(a) = 7 /\ Len(b) = 3 /\ Len(c) = 3 /\ Len(d) = 2 /\ Len(e) = 3 /\ Len(f) = 8
  BY DEF BOSHLiteManifest, WardenCPIOpsFile, JumpboxUserOpsFile, UAAOpsFile, CredhubOpsFile,
         BOSHDevOpsFile
<1> HIDE DEF a, b, c, d, e, f, O
<1>4. /\ ab \in Seq(O) /\ Len(ab) = 10 /\ At(ab, 0, a) /\ At(ab, 7, b)
  <2>1. /\ ab \in Seq(O) /\ Len(ab) = Len(a) + Len(b) /\ At(ab, 0, a)
        /\ At(ab, Len(a), b)
    BY <1>2, JoinedAt
  <2> HIDE DEF ab
  <2> QED
    BY <1>3, <2>1
<1> HIDE DEF ab
<1>5. /\ ac \in Seq(O) /\ Len(ac) = 13 /\ At(ac, 0, ab) /\ At(ac, 10, c)
  <2>1. /\ ac \in Seq(O) /\ Len(ac) = Len(ab) + Len(c) /\ At(ac, 0, ab)
        /\ At(ac, Len(ab), c)
    BY <1>2, <1>4, JoinedAt
  <2> HIDE DEF ac
  <2> QED
    BY <1>3, <1>4, <2>1
<1> HIDE DEF ac
<1>6. /\ ad \in Seq(O) /\ Len(ad) = 15 /\ At(ad, 0, ac) /\ At(ad, 13, d)
  <2>1. /\ ad \in Seq(O) /\ Len(ad) = Len(ac) + Len(d) /\ At(ad, 0, ac)
        /\ At(ad, Len(ac), d)
    BY <1>2, <1>5, JoinedAt
  <2> HIDE DEF ad
  <2> QED
    BY <1>3, <1>5, <2>1
<1> HIDE DEF ad
<1>7. /\ ae \in Seq(O) /\ Len(ae) = 18 /\ At(ae, 0, ad) /\ At(ae, 15, e)
  <2>1. /\ ae \in Seq(O) /\ Len(ae) = Len(ad) + Len(e) /\ At(ae, 0, ad)
        /\ At(ae, Len(ad), e)
    BY <1>2, <1>6, JoinedAt
  <2> HIDE DEF ae
  <2> QED
    BY <1>3, <1>6, <2>1
<1> HIDE DEF ae
<1>8. /\ Len(af) = 26 /\ At(af, 0, ae) /\ At(af, 18, f)
  <2>1. /\ af \in Seq(O) /\ Len(af) = Len(ae) + Len(f) /\ At(af, 0, ae)
        /\ At(af, Len(ae), f)
    BY <1>2, <1>7, JoinedAt
  <2> HIDE DEF af
  <2> QED
    BY <1>3, <1>7, <2>1
<1> HIDE DEF af
<1>9. At(af, 15, e)
  BY <1>3, <1>7, <1>8 DEF At
<1>10. At(af, 0, ad)
  BY <1>6, <1>7, <1>8 DEF At
<1>11. At(af, 13, d) /\ At(af, 0, ac)
  BY <1>3, <1>5, <1>6, <1>10 DEF At
<1>12. At(af, 10, c) /\ At(af, 0, ab)
  BY <1>3, <1>4, <1>5, <1>11 DEF At
<1>13. At(af, 7, b) /\ At(af, 0, a)
  BY <1>3, <1>4, <1>12 DEF At
<1> QED
  BY <1>1, <1>8, <1>9, <1>11, <1>12, <1>13 DEF a, b, c, d, e, f

\* The ops files of bosh deploy apply to bosh.yml, and make a manifest for a director of it.
LEMMA BOSHApplies ==
  ASSUME NEW stemcell \in Requirement
  PROVE  \E N, J, V : AllShaped(RenderedBOSH(stemcell), N, J, V, {stemcell}, {})
<1> DEFINE ops == PrepareBOSHManifestFiles(stemcell)
           Sections == CreateEnvSections
           V == {"mbus_bootstrap_password"}
           R0 == {"bosh", "bpm"}
           R1 == R0 \cup {"garden-runc"}
           R2 == R1 \cup {"bosh-warden-cpi"}
           J1 == {"garden"}
           J2 == J1 \cup {"warden_cpi"}
           R3 == R2 \cup {"os-conf"}
           J3 == J2 \cup {"disable_agent"}
           J4 == J3 \cup {"user_add"}
           R4 == R3 \cup {"uaa"}
           J5 == J4 \cup {"uaa"}
           R5 == R4 \cup {"credhub"}
           J6 == J5 \cup {"credhub"}
<1>1. PICK f : /\ Applied(f, RenderedBOSHOf, boshManifest, ops)
               /\ RenderedBOSH(stemcell) = f[Len(ops)]
  <2>1. boshManifest \in RenderedBOSHOf /\ ops \in Seq(BOSHOperation)
    BY BOSHOpsFiles, BOSHManifestType
  <2>2. \A n \in RenderedBOSHOf : \A o \in BOSHOperation : ApplyOp(n, o) \subseteq RenderedBOSHOf
    BY BOSHApplyOpKeeps
  <2> HIDE DEF ops
  <2>3. \E f : Applied(f, RenderedBOSHOf, boshManifest, ops)
               /\ Interpolated(boshManifest, ops) = f[Len(ops)]
    BY <2>1, <2>2, InterpolatedFold
  <2> QED
    BY <2>3 DEF RenderedBOSH, ops
<1>2. /\ Len(ops) = 26 /\ RenderedBOSH(stemcell) = f[26] /\ f[0] = {boshManifest}
      /\ \A k \in 0 .. 25 : f[k + 1] = Made(f[k], ops[k + 1])
  <2>1. Len(ops) = 26
    BY BOSHOpsFilesAt
  <2> HIDE DEF ops
  <2> QED
    BY <1>1, <2>1 DEF Applied, Made
<1>3. AllShaped(f[0], R0, {}, V, {}, Sections)
  <2>1. NamesOf(boshManifest.releases) = {"bosh", "bpm"}
    BY DEF boshManifest, NamesOf, PlainRelease
  <2>2. \A i, j \in DOMAIN boshManifest.releases :
          boshManifest.releases[i].name = boshManifest.releases[j].name => i = j
    BY DEF boshManifest, PlainRelease
  <2>3. "mbus_bootstrap_password" \in ToSet(boshManifest.variables)
    BY DEF boshManifest, ToSet
  <2>4. boshManifest.sections = Sections
    BY DEF boshManifest
  <2> QED
    BY <1>2, <2>1, <2>2, <2>3, <2>4, BOSHManifestType DEF AllShaped, Shaped
<1>4. /\ f[1] = Made(f[0], Appending("releases", PlainRelease("garden-runc", 1)))
      /\ f[2] = Made(f[1], Appending("releases", PlainRelease("bosh-warden-cpi", 1)))
      /\ f[3] = Made(f[2], Adding(NoRoutes("garden")))
      /\ f[4] = Made(f[3], EditingJob("garden"))
      /\ f[5] = Made(f[4], Adding(NoRoutes("warden_cpi")))
      /\ f[6] = Made(f[5], Putting(PlainRelease("os-conf", 1)))
      /\ f[7] = Made(f[6], Adding(NoRoutes("disable_agent")))
  <2>1. At(ops, 0, BOSHLiteManifest) /\ Len(BOSHLiteManifest) = 7
    BY BOSHOpsFilesAt DEF BOSHLiteManifest
  <2>2. \A j \in 1 .. 7 : ops[0 + j] = BOSHLiteManifest[j]
    BY <2>1 DEF At
  <2> HIDE DEF ops
  <2> QED
    BY <1>2, <2>2 DEF BOSHLiteManifest
<1>5. /\ f[8] = Made(f[7], Putting(PlainRelease("bosh-warden-cpi", 1)))
      /\ f[9] = Made(f[8], Editing("resource_pools"))
      /\ f[10] = Made(f[9], Editing("cloud_provider"))
  <2>1. At(ops, 7, WardenCPIOpsFile) /\ Len(WardenCPIOpsFile) = 3
    BY BOSHOpsFilesAt DEF WardenCPIOpsFile
  <2>2. \A j \in 1 .. 3 : ops[7 + j] = WardenCPIOpsFile[j]
    BY <2>1 DEF At
  <2> HIDE DEF ops
  <2> QED
    BY <1>2, <2>2 DEF WardenCPIOpsFile
<1>6. /\ f[11] = Made(f[10], Putting(PlainRelease("os-conf", 2)))
      /\ f[12] = Made(f[11], Adding(NoRoutes("user_add")))
      /\ f[13] = Made(f[12], Appending("variables", "jumpbox_ssh"))
  <2>1. At(ops, 10, JumpboxUserOpsFile) /\ Len(JumpboxUserOpsFile) = 3
    BY BOSHOpsFilesAt DEF JumpboxUserOpsFile
  <2>2. \A j \in 1 .. 3 : ops[10 + j] = JumpboxUserOpsFile[j]
    BY <2>1 DEF At
  <2> HIDE DEF ops
  <2> QED
    BY <1>2, <2>2 DEF JumpboxUserOpsFile
<1>7. /\ f[14] = Made(f[13], Appending("releases", PlainRelease("uaa", 1)))
      /\ f[15] = Made(f[14], Adding(NoRoutes("uaa")))
  <2>1. At(ops, 13, UAAOpsFile) /\ Len(UAAOpsFile) = 2
    BY BOSHOpsFilesAt DEF UAAOpsFile
  <2>2. \A j \in 1 .. 2 : ops[13 + j] = UAAOpsFile[j]
    BY <2>1 DEF At
  <2> HIDE DEF ops
  <2> QED
    BY <1>2, <2>2 DEF UAAOpsFile
<1>8. /\ f[16] = Made(f[15], Appending("releases", PlainRelease("credhub", 1)))
      /\ f[17] = Made(f[16], Adding(NoRoutes("credhub")))
      /\ f[18] = Made(f[17], EditingJob("uaa"))
  <2>1. At(ops, 15, CredhubOpsFile) /\ Len(CredhubOpsFile) = 3
    BY BOSHOpsFilesAt DEF CredhubOpsFile
  <2>2. \A j \in 1 .. 3 : ops[15 + j] = CredhubOpsFile[j]
    BY <2>1 DEF At
  <2> HIDE DEF ops
  <2> QED
    BY <1>2, <2>2 DEF CredhubOpsFile
<1>9. /\ f[19] = Made(f[18], Removing("networks"))
      /\ f[20] = Made(f[19], Removing("disk_pools"))
      /\ f[21] = Made(f[20], Removing("persistent_disk_pool"))
      /\ f[22] = Made(f[21], Removing("resource_pools"))
      /\ f[23] = Made(f[22], Removing("resource_pool"))
      /\ f[24] = Made(f[23], Appending("stemcells", stemcell))
      /\ f[25] = Made(f[24], Removing("cloud_provider"))
      /\ f[26] = Made(f[25], RemovingVariable("mbus_bootstrap_password"))
  <2>1. At(ops, 18, BOSHDevOpsFile(stemcell)) /\ Len(BOSHDevOpsFile(stemcell)) = 8
    BY BOSHOpsFilesAt DEF BOSHDevOpsFile
  <2>2. \A j \in 1 .. 8 : ops[18 + j] = BOSHDevOpsFile(stemcell)[j]
    BY <2>1 DEF At
  <2> HIDE DEF ops
  <2> QED
    BY <1>2, <2>2 DEF BOSHDevOpsFile
<1>10. {"bosh-warden-cpi", "cloud_provider", "credhub", "disable_agent", "disk_pools", "garden",
        "garden-runc", "jumpbox_ssh", "mbus_bootstrap_password", "networks", "os-conf",
        "persistent_disk_pool", "resource_pool", "resource_pools", "uaa", "user_add",
        "warden_cpi"} \subseteq Text
  BY DEF Text
<1> HIDE DEF ops
<1>11. AllShaped(f[1], R1, {}, V, {}, Sections)
  BY <1>4, <1>10, <1>3, AppendsRelease
<1>12. AllShaped(f[2], R2, {}, V, {}, Sections)
  BY <1>4, <1>10, <1>11, AppendsRelease
<1>13. AllShaped(f[3], R2, J1, V, {}, Sections)
  BY <1>4, <1>10, <1>12, AddsJob
<1>14. AllShaped(f[4], R2, J1, V, {}, Sections)
  BY <1>4, <1>10, <1>13, EditsJob
<1>15. AllShaped(f[5], R2, J2, V, {}, Sections)
  BY <1>4, <1>10, <1>14, AddsJob
<1>16. AllShaped(f[6], R3, J2, V, {}, Sections)
  BY <1>4, <1>10, <1>15, PutsRelease
<1>17. AllShaped(f[7], R3, J3, V, {}, Sections)
  BY <1>4, <1>10, <1>16, AddsJob
<1>18. AllShaped(f[8], R3, J3, V, {}, Sections)
  BY <1>5, <1>10, <1>17, PutsRelease
<1>19. AllShaped(f[9], R3, J3, V, {}, Sections)
  BY <1>5, <1>10, <1>18, EditsSection DEF CreateEnvSections
<1>20. AllShaped(f[10], R3, J3, V, {}, Sections)
  BY <1>5, <1>10, <1>19, EditsSection DEF CreateEnvSections
<1>21. AllShaped(f[11], R3, J3, V, {}, Sections)
  BY <1>6, <1>10, <1>20, PutsRelease
<1>22. AllShaped(f[12], R3, J4, V, {}, Sections)
  BY <1>6, <1>10, <1>21, AddsJob
<1>23. AllShaped(f[13], R3, J4, V, {}, Sections)
  BY <1>6, <1>10, <1>22, AppendsVariable
<1>24. AllShaped(f[14], R4, J4, V, {}, Sections)
  BY <1>7, <1>10, <1>23, AppendsRelease
<1>25. AllShaped(f[15], R4, J5, V, {}, Sections)
  BY <1>7, <1>10, <1>24, AddsJob
<1>26. AllShaped(f[16], R5, J5, V, {}, Sections)
  BY <1>8, <1>10, <1>25, AppendsRelease
<1>27. AllShaped(f[17], R5, J6, V, {}, Sections)
  BY <1>8, <1>10, <1>26, AddsJob
<1>28. AllShaped(f[18], R5, J6, V, {}, Sections)
  BY <1>8, <1>10, <1>27, EditsJob
<1>29. AllShaped(f[19], R5, J6, V, {}, Sections \ {"networks"})
  BY <1>9, <1>10, <1>28, RemovesSection DEF CreateEnvSections
<1>30. AllShaped(f[20], R5, J6, V, {}, Sections \ {"networks", "disk_pools"})
  BY <1>9, <1>10, <1>29, RemovesSection DEF CreateEnvSections
<1>31. AllShaped(f[21], R5, J6, V, {},
          Sections \ {"networks", "disk_pools", "persistent_disk_pool"})
  BY <1>9, <1>10, <1>30, RemovesSection DEF CreateEnvSections
<1>32. AllShaped(f[22], R5, J6, V, {},
          Sections \ {"networks", "disk_pools", "persistent_disk_pool", "resource_pools"})
  BY <1>9, <1>10, <1>31, RemovesSection DEF CreateEnvSections
<1>33. AllShaped(f[23], R5, J6, V, {},
          Sections \ {"networks", "disk_pools", "persistent_disk_pool", "resource_pools",
                       "resource_pool"})
  BY <1>9, <1>10, <1>32, RemovesSection DEF CreateEnvSections
<1>34. AllShaped(f[24], R5, J6, V, {stemcell},
          Sections \ {"networks", "disk_pools", "persistent_disk_pool", "resource_pools",
                       "resource_pool"})
  BY <1>9, <1>10, <1>33, AppendsStemcell
<1>35. AllShaped(f[25], R5, J6, V, {stemcell}, {})
  BY <1>9, <1>10, <1>34, RemovesSection DEF CreateEnvSections
<1>36. AllShaped(f[26], R5, J6, {}, {stemcell}, {})
  BY <1>9, <1>10, <1>35, RemovesVariable DEF CreateEnvSections
<1> QED
  BY <1>2, <1>36

-----------------------------------------------------------------------------
\* What a process knows: at holds its next step, w its local state, held what the
\* director has.

\* Every stemcell that is required is there, to be looked at, or being resolved.
Ensuring(at, w, held) ==
  \A r \in ToSet(w.required) :
    \/ r \in ToSet(w.todo)
    \/ Satisfied(r, held)
    \/ at \in Resolving \cup {"upload"} /\ r.os = w.os /\ r.version = w.tag

\* What the image is, once there is one.
ResolvedRight(p, at, w) ==
  /\ w.version # Latest => w.image = w.version
  /\ at \in {"tags", "check", "upload"} \/ (at = "list" /\ p \in Uploaders /\ ~w.first)
       => w.image # None
  /\ at = "tags" => w.tag = Latest
  /\ at = "local" /\ w.tag # Latest => w.image = None
  /\ at = "manifest" \/ (at = "list" /\ w.first) => w.image = None

DeployerKnows(at, w, held) ==
  /\ at # "check"
  /\ Ensuring(at, w, held)
  /\ at = "begin" => w = NoWork
  /\ at \in {"ensured", "consolidate", "filter", "deploy"} => w.todo = <<>>
  /\ at = "upload" /\ w.tag # Latest => w.version = w.tag

WorkOK(p, at, w, held) ==
  /\ w \in Work
  /\ w.listed \subseteq held
  /\ ResolvedRight(p, at, w)
  /\ p \in Deployers => DeployerKnows(at, w, held)

PipelineSteps == StemcellSteps \cup {"consolidate", "filter", "deploy"}

SourcesOK ==
  /\ kind \in {"docker", "incus"}
  /\ tagged \in [OSes -> Versions] /\ latest \in [OSes -> Versions]
  /\ local \in [OSes -> [image : Versions \cup {None}, tag : Tags]]
  /\ suffixed \subseteq OSes
  /\ \A os \in OSes : local[os].tag # Latest => local[os].image = local[os].tag

ProcsOK ==
  /\ pc \in [Procs -> PipelineSteps] /\ work \in [Procs -> Work]
  /\ \A p \in Procs : WorkOK(p, pc[p], work[p], Held(stemcells))

StemcellsInv == SourcesOK /\ stemcells \subseteq Stemcell /\ VersionsTrue /\ ProcsOK

\* What the manifest of a deployer has become: there its command's record is d, and the
\* director has the releases of the set there.
AnyRelease == [name : Text, version : Nat, url : BOOLEAN, stemcell : Nat \cup {NoSection}]

Fields == {"groups", "aliases", "releases", "variables", "stemcells", "sections"}

Coherent(m) ==
  /\ m.sections = {} /\ m.stemcells # <<>>
  /\ \A r \in ToSet(m.releases) :
       r.stemcell # NoSection => \E s \in ToSet(m.stemcells) : s.version = r.stemcell

DeployOK(at, d, there) ==
  /\ {"op", "out"} \subseteq DOMAIN d /\ Fields \subseteq DOMAIN d.out
  /\ d.out.releases \in Seq(AnyRelease)
  /\ at \in {"consolidate", "filter"} => d.out.releases \in Seq(Given)
  /\ at \in {"consolidate", "filter", "deploy"} => Coherent(d.out)
  /\ at = "deploy" => \A r \in ToSet(d.out.releases) : r.url \/ <<r.name, r.version>> \in there

DeploysInv ==
  /\ embedded \in Docs
  /\ DOMAIN deploy = Deployers
  /\ \A p \in Deployers : DeployOK(pc[p], deploy[p], releases)

IInv == StemcellsInv /\ DeploysInv

-----------------------------------------------------------------------------
\* Of a version it can be told whether it is the latest one.
LEMMA Numbers ==
  /\ Versions \subseteq Nat /\ Tags \subseteq Nat /\ Versions = Tags \ {Latest}
  /\ None = Latest /\ 1 \in Versions /\ Latest \in Tags /\ None \notin Versions
BY StemcellsAssumption DEF Versions, Tags, Latest, None

\* A process between its commands knows nothing.
LEMMA NoWorkType == NoWork \in Work
BY StemcellsAssumption, Numbers DEF NoWork, Work, Requirement

\* That is right between commands, and before a deployer has ensured anything.
LEMMA NoWorkOK ==
  ASSUME NEW p, NEW held, NEW at \in {"begin", "ensured", "done", "failed"}
  PROVE  WorkOK(p, at, NoWork, held)
<1>1. NoWork.required = <<>> /\ NoWork.todo = <<>> /\ NoWork.listed = {}
      /\ NoWork.version = Latest
  BY DEF NoWork
<1>2. ToSet(NoWork.required) = {}
  BY <1>1 DEF ToSet
<1> QED
  BY <1>1, <1>2, NoWorkType DEF WorkOK, ResolvedRight, DeployerKnows, Ensuring

\* What is known stays true when the director gets more.
LEMMA KnowledgeStays ==
  ASSUME NEW p, NEW at, NEW w, NEW held, NEW more, held \subseteq more,
         WorkOK(p, at, w, held)
  PROVE  WorkOK(p, at, w, more)
BY DEF WorkOK, DeployerKnows, Ensuring, Satisfied

\* A step that is local to a process: it is enough to look at that process.
LEMMA StepKeeps ==
  ASSUME StemcellsInv, NEW p \in Procs, NEW from, NEW next \in PipelineSteps, NEW mine,
         Step(p, from, next, mine),
         next \notin {"done", "failed"} => WorkOK(p, next, mine, Held(stemcells))
  PROVE  StemcellsInv'
<1> DEFINE w == IF next \in {"done", "failed"} THEN NoWork ELSE mine
<1>1. WorkOK(p, next, w, Held(stemcells)) /\ w \in Work
  BY NoWorkOK, NoWorkType DEF WorkOK
<1>2. pc' = [pc EXCEPT ![p] = next] /\ work' = [work EXCEPT ![p] = w]
      /\ UNCHANGED <<sourceVars, stemcells>>
  BY DEF Step, Goto
<1> HIDE DEF w
<1>3. ProcsOK'
  BY <1>1, <1>2 DEF ProcsOK, StemcellsInv, Held
<1>4. SourcesOK' /\ (stemcells \subseteq Stemcell)' /\ VersionsTrue'
  BY <1>2 DEF StemcellsInv, SourcesOK, VersionsTrue, sourceVars
<1> QED
  BY <1>3, <1>4 DEF StemcellsInv

\* What a resolved reference leads to is right.
LEMMA ResolvedKeeps ==
  ASSUME StemcellsInv, NEW p \in Procs, NEW mine,
         WorkOK(p, pc[p], work[p], Held(stemcells)), pc[p] \in Resolving,
         mine \in Work, mine.listed = work[p].listed, mine.first = work[p].first,
         mine.required = work[p].required, mine.todo = work[p].todo,
         mine.os = work[p].os, mine.tag = work[p].tag,
         mine.image # None,
         mine.version # Latest => mine.image = mine.version,
         mine.tag # Latest => mine.version = mine.tag
  PROVE  Resolved(p) \in PipelineSteps /\ WorkOK(p, Resolved(p), mine, Held(stemcells))
<1>1. /\ Resolved(p) \in {"upload", "check", "list"}
      /\ p \in Deployers => Resolved(p) = "upload"
      /\ Resolved(p) = "list" => ~mine.first
  <2>1. mine.first \in BOOLEAN
    BY DEF Work
  <2> QED
    BY <2>1 DEF Resolved
<1>2. ResolvedRight(p, Resolved(p), mine)
  BY <1>1 DEF ResolvedRight
<1>3. ASSUME p \in Deployers PROVE DeployerKnows(Resolved(p), mine, Held(stemcells))
  <2>1. Ensuring(pc[p], work[p], Held(stemcells))
    BY <1>3 DEF WorkOK, DeployerKnows
  <2>2. Ensuring("upload", mine, Held(stemcells))
    BY <2>1 DEF Ensuring
  <2> QED
    BY <1>1, <1>3, <2>2 DEF DeployerKnows
<1> QED
  BY <1>1, <1>2, <1>3 DEF WorkOK, PipelineSteps, StemcellSteps

\* Another call is made for a reference.
LEMMA NextCallKeeps ==
  ASSUME StemcellsInv, NEW p \in Procs, NEW next \in {"local", "agent"},
         pc[p] \in Resolving,
         next = "local" /\ work[p].tag # Latest => work[p].image = None
  PROVE  next \in PipelineSteps /\ WorkOK(p, next, work[p], Held(stemcells))
<1>1. WorkOK(p, pc[p], work[p], Held(stemcells))
  BY DEF StemcellsInv, ProcsOK
<1>2. next \in Resolving
  BY DEF Resolving
<1>3. ResolvedRight(p, next, work[p])
  BY <1>1, <1>2 DEF WorkOK, ResolvedRight
<1>4. p \in Deployers => DeployerKnows(next, work[p], Held(stemcells))
  BY <1>1, <1>2 DEF WorkOK, DeployerKnows, Ensuring
<1> QED
  BY <1>1, <1>2, <1>3, <1>4 DEF WorkOK, PipelineSteps, StemcellSteps

\* The registry has the tag: the image is resolved, and has a version of its own if that was
\* asked for.
LEMMA ManifestGetKeeps ==
  ASSUME StemcellsInv, NEW p \in Procs, ManifestGet(p)
  PROVE  StemcellsInv'
<1> DEFINE w == work[p]
           image == ImageOf(w.os, w.tag)
           mine == [w EXCEPT !.image = image, !.version = w.tag]
           next == IF w.tag = Latest THEN "tags" ELSE Resolved(p)
<1>1. WorkOK(p, pc[p], w, Held(stemcells)) /\ w \in Work /\ pc[p] = "manifest"
      /\ TagExists(w.os, w.tag) /\ Step(p, "manifest", next, mine)
  BY DEF StemcellsInv, ProcsOK, ManifestGet, Step
<1>2. w.os \in OSes /\ w.tag \in Tags
  BY <1>1 DEF Work
<1>3. image \in Versions /\ (w.tag # Latest => image = w.tag)
  <2>1. latest[w.os] \in Versions
    BY <1>2 DEF StemcellsInv, SourcesOK
  <2> QED
    BY <1>2, <2>1, Numbers DEF ImageOf
<1> HIDE DEF image
<1>4. mine \in Work
  BY <1>1, <1>2, <1>3 DEF Work
<1>5. mine.listed = w.listed /\ mine.first = w.first /\ mine.required = w.required
      /\ mine.todo = w.todo /\ mine.os = w.os /\ mine.tag = w.tag
      /\ mine.image = image /\ mine.version = w.tag
  BY <1>1 DEF Work
<1>6. image # None
  BY <1>3, Numbers
<1> HIDE DEF mine
<1>7. CASE w.tag = Latest
  <2>1. ResolvedRight(p, "tags", mine)
    BY <1>5, <1>6, <1>7 DEF ResolvedRight
  <2>2. p \in Deployers => DeployerKnows("tags", mine, Held(stemcells))
    BY <1>1, <1>5 DEF WorkOK, DeployerKnows, Ensuring, Resolving
  <2>3. WorkOK(p, "tags", mine, Held(stemcells))
    BY <1>1, <1>4, <1>5, <2>1, <2>2 DEF WorkOK
  <2>4. next \in PipelineSteps /\ next = "tags"
    BY <1>7 DEF PipelineSteps, StemcellSteps, Resolving
  <2> HIDE DEF next
  <2> QED
    BY <1>1, <2>3, <2>4, StepKeeps
<1>8. CASE w.tag # Latest
  <2>1. next = Resolved(p)
    BY <1>8
  <2>2. pc[p] \in Resolving
    BY <1>1 DEF Resolving
  <2>3. Resolved(p) \in PipelineSteps /\ WorkOK(p, Resolved(p), mine, Held(stemcells))
    BY <1>1, <1>3, <1>4, <1>5, <1>6, <1>8, <2>2, ResolvedKeeps
  <2> HIDE DEF next
  <2> QED
    BY <1>1, <2>1, <2>3, StepKeeps
<1> QED
  BY <1>7, <1>8

\* The next source is asked: the local images, or the agent.
LEMMA NextCallsKeep ==
  ASSUME StemcellsInv, NEW p \in Procs,
         \/ ManifestGetFails(p)
         \/ NoVersionTag(p)
  PROVE  StemcellsInv'
<1>1. WorkOK(p, pc[p], work[p], Held(stemcells))
  BY DEF StemcellsInv, ProcsOK
<1>2. PICK from \in {"manifest", "tags"} : Step(p, from, "local", work[p])
  BY DEF ManifestGetFails, NoVersionTag
<1>3. pc[p] = from /\ pc[p] \in Resolving
  BY <1>2 DEF Step, Resolving
<1>4. work[p].tag # Latest => work[p].image = None
  BY <1>1, <1>3 DEF WorkOK, ResolvedRight
<1>5. "local" \in PipelineSteps /\ WorkOK(p, "local", work[p], Held(stemcells))
  BY <1>3, <1>4, NextCallKeeps
<1> QED
  BY <1>2, <1>5, StepKeeps

\* The version tag of the image that latest names.
LEMMA FindVersionTagKeeps ==
  ASSUME StemcellsInv, NEW p \in Procs, FindVersionTagForDigest(p)
  PROVE  StemcellsInv'
<1> DEFINE w == work[p]
           mine == [w EXCEPT !.version = w.image]
<1>1. WorkOK(p, pc[p], w, Held(stemcells)) /\ w \in Work /\ pc[p] = "tags"
      /\ Step(p, "tags", Resolved(p), mine)
  BY DEF StemcellsInv, ProcsOK, FindVersionTagForDigest, Step
<1>2. w.image # None /\ w.tag = Latest /\ w.image \in Versions
  <2>1. w.image # None /\ w.tag = Latest
    BY <1>1 DEF WorkOK, ResolvedRight
  <2>2. w.image \in Versions \cup {None}
    BY <1>1 DEF Work
  <2> QED
    BY <2>1, <2>2
<1>3. mine \in Work
  BY <1>1, <1>2, Numbers DEF Work
<1>4. mine.listed = w.listed /\ mine.first = w.first /\ mine.required = w.required
      /\ mine.todo = w.todo /\ mine.os = w.os /\ mine.tag = w.tag
      /\ mine.image = w.image /\ mine.version = w.image
  BY <1>1 DEF Work
<1> HIDE DEF mine
<1>5. pc[p] \in Resolving
  BY <1>1 DEF Resolving
<1>6. Resolved(p) \in PipelineSteps /\ WorkOK(p, Resolved(p), mine, Held(stemcells))
  BY <1>1, <1>2, <1>3, <1>4, <1>5, ResolvedKeeps
<1> QED
  BY <1>1, <1>6, StepKeeps

\* A local image is taken for the reference that it has.
LEMMA AskLocalKeeps ==
  ASSUME StemcellsInv, NEW p \in Procs, AskLocal(p)
  PROVE  StemcellsInv'
<1> DEFINE w == work[p]
           version == findVersionTagInRepoTags(w.os)
           found == HasLocal(w.os, w.tag) /\ (w.image = None \/ version # Latest)
           mine == IF found THEN [w EXCEPT !.image = local[w.os].image, !.version = version]
                   ELSE w
<1>1. WorkOK(p, pc[p], w, Held(stemcells)) /\ w \in Work /\ pc[p] = "local"
  BY DEF StemcellsInv, ProcsOK, AskLocal, Step
<1>2. w.os \in OSes /\ w.tag \in Tags /\ w.image \in Versions \cup {None}
      /\ (w.tag # Latest => w.image = None) /\ (w.version # Latest => w.image = w.version)
  BY <1>1 DEF Work, WorkOK, ResolvedRight
<1>3. /\ local[w.os].image \in Versions \cup {None} /\ version \in Tags
      /\ version # Latest => local[w.os].image = version
  BY <1>2 DEF StemcellsInv, SourcesOK, findVersionTagInRepoTags
<1>4. CASE w.image = None /\ ~found
  <2>1. Step(p, "local", Failed(p), w)
    BY <1>4 DEF AskLocal
  <2>2. Failed(p) \in {"done", "failed"} /\ Failed(p) \in PipelineSteps
    BY DEF Failed, PipelineSteps, StemcellSteps
  <2> QED
    BY <2>1, <2>2, StepKeeps
<1>5. CASE ~(w.image = None /\ ~found)
  <2>1. Step(p, "local", Resolved(p), mine)
    BY <1>5 DEF AskLocal
  <2>2. CASE found
    <3>1. mine = [w EXCEPT !.image = local[w.os].image, !.version = version]
      BY <2>2
    <3>2. local[w.os].image # None /\ (w.tag # Latest => version = w.tag)
      BY <2>2 DEF HasLocal
    <3>3. mine \in Work
      BY <1>1, <1>3, <3>1 DEF Work
    <3>4. mine.listed = w.listed /\ mine.first = w.first /\ mine.required = w.required
          /\ mine.todo = w.todo /\ mine.os = w.os /\ mine.tag = w.tag
          /\ mine.image = local[w.os].image /\ mine.version = version
      BY <1>1, <3>1 DEF Work
    <3> HIDE DEF mine, version
    <3>5. pc[p] \in Resolving
      BY <1>1 DEF Resolving
    <3>6. Resolved(p) \in PipelineSteps /\ WorkOK(p, Resolved(p), mine, Held(stemcells))
      BY <1>1, <1>3, <3>2, <3>3, <3>4, <3>5, ResolvedKeeps
    <3> QED
      BY <2>1, <3>6, StepKeeps
  <2>3. CASE ~found
    <3>1. mine = w /\ w.image # None /\ w.tag = Latest
      BY <1>2, <1>5, <2>3
    <3>2. pc[p] \in Resolving
      BY <1>1 DEF Resolving
    <3> HIDE DEF mine, found
    <3>3. Resolved(p) \in PipelineSteps /\ WorkOK(p, Resolved(p), w, Held(stemcells))
      BY <1>1, <1>2, <3>1, <3>2, ResolvedKeeps
    <3> QED
      BY <2>1, <3>1, <3>3, StepKeeps
  <2> QED
    BY <2>2, <2>3
<1> QED
  BY <1>4, <1>5

\* bosh.io: an answer has a version.
LEMMA AnswerKeeps ==
  ASSUME StemcellsInv, NEW p \in Procs, NEW from \in {"plain", "agent"}, NEW found,
         NEW otherwise \in {"agent", "done", "failed"},
         Answer(p, from, found, otherwise)
  PROVE  StemcellsInv'
<1> DEFINE w == work[p]
           version == OnBoshIO(w.os, w.tag)
           mine == [w EXCEPT !.version = version, !.image = version]
<1>1. WorkOK(p, pc[p], w, Held(stemcells)) /\ w \in Work /\ pc[p] = from
  BY DEF StemcellsInv, ProcsOK, Answer, Step
<1>2. w.os \in OSes /\ w.tag \in Tags /\ pc[p] \in Resolving
  BY <1>1 DEF Work, Resolving
<1>3. version \in Versions /\ (w.tag # Latest => version = w.tag)
  <2>1. tagged[w.os] \in Versions
    BY <1>2 DEF StemcellsInv, SourcesOK
  <2> QED
    BY <1>2, <2>1, Numbers DEF OnBoshIO
<1>4. CASE Step(p, from, "upload", mine)
  <2> HIDE DEF version
  <2>1. mine \in Work
    BY <1>1, <1>3, Numbers DEF Work
  <2>2. mine.listed = w.listed /\ mine.required = w.required /\ mine.todo = w.todo
        /\ mine.os = w.os /\ mine.tag = w.tag /\ mine.image = version /\ mine.version = version
    BY <1>1 DEF Work
  <2> HIDE DEF mine
  <2>3. ResolvedRight(p, "upload", mine)
    BY <1>3, <2>2, Numbers DEF ResolvedRight
  <2>4. p \in Deployers => DeployerKnows("upload", mine, Held(stemcells))
    BY <1>1, <1>2, <1>3, <2>2 DEF WorkOK, DeployerKnows, Ensuring
  <2>5. WorkOK(p, "upload", mine, Held(stemcells)) /\ "upload" \in PipelineSteps
    BY <1>1, <2>1, <2>2, <2>3, <2>4 DEF WorkOK, PipelineSteps, StemcellSteps
  <2> QED
    BY <1>4, <2>5, StepKeeps
<1>5. CASE Step(p, from, otherwise, w)
  <2>1. CASE otherwise = "agent"
    <3>1. "agent" \in PipelineSteps /\ WorkOK(p, "agent", w, Held(stemcells))
      BY <1>2, NextCallKeeps
    <3> QED
      BY <1>5, <2>1, <3>1, StepKeeps
  <2>2. CASE otherwise \in {"done", "failed"}
    <3>1. otherwise \in PipelineSteps
      BY <2>2 DEF PipelineSteps, StemcellSteps
    <3> QED
      BY <1>5, <2>2, <3>1, StepKeeps
  <2> QED
    BY <2>1, <2>2
<1> QED
  BY <1>4, <1>5 DEF Answer

-----------------------------------------------------------------------------
\* Commands begin: cf deploy with all it requires still to do.
LEMMA BeginEnsureKeeps ==
  ASSUME StemcellsInv, NEW p \in Deployers, NEW required \in Seq(Requirement),
         BeginEnsure(p, required)
  PROVE  StemcellsInv'
<1> DEFINE mine == [NoWork EXCEPT !.required = required, !.todo = required]
<1>1. p \in Procs /\ p \notin Uploaders
  BY StemcellsAssumption DEF Procs
<1>2. mine \in Work
  BY NoWorkType DEF Work
<1>3. /\ mine.required = required /\ mine.todo = required /\ mine.listed = {}
      /\ mine.version = Latest /\ mine.first = FALSE
  BY DEF NoWork
<1>4. Step(p, "begin", "list", mine)
  BY DEF BeginEnsure
<1> HIDE DEF mine
<1>5. WorkOK(p, "list", mine, Held(stemcells))
  BY <1>1, <1>2, <1>3 DEF WorkOK, ResolvedRight, DeployerKnows, Ensuring
<1>6. "list" \in PipelineSteps
  BY DEF PipelineSteps, StemcellSteps
<1> QED
  BY <1>1, <1>4, <1>5, <1>6, StepKeeps

\* A start begins with the list of what is there.
LEMMA BeginStartKeeps ==
  ASSUME StemcellsInv, NEW p \in Procs, BeginStart(p)
  PROVE  StemcellsInv'
<1> DEFINE mine == [NoWork EXCEPT !.first = TRUE]
<1>1. p \notin Deployers /\ Step(p, "begin", "list", mine)
  BY StemcellsAssumption DEF BeginStart
<1>2. mine \in Work
  BY NoWorkType DEF Work
<1>3. mine.listed = {} /\ mine.version = Latest /\ mine.image = None /\ mine.first = TRUE
  BY DEF NoWork
<1> HIDE DEF mine
<1>4. WorkOK(p, "list", mine, Held(stemcells))
  BY <1>1, <1>2, <1>3 DEF WorkOK, ResolvedRight
<1>5. "list" \in PipelineSteps
  BY DEF PipelineSteps, StemcellSteps
<1> QED
  BY <1>1, <1>4, <1>5, StepKeeps

\* A reference is resolved from nothing.
LEMMA ResolveType ==
  ASSUME NEW p \in Procs, work[p] \in Work, NEW os \in OSes, NEW tag \in Tags
  PROVE  /\ Resolve(p, os, tag) \in Work
         /\ Resolve(p, os, tag).os = os /\ Resolve(p, os, tag).tag = tag
         /\ Resolve(p, os, tag).image = None /\ Resolve(p, os, tag).version = Latest
         /\ Resolve(p, os, tag).required = work[p].required
         /\ Resolve(p, os, tag).todo = work[p].todo
         /\ Resolve(p, os, tag).listed = work[p].listed
         /\ Resolve(p, os, tag).first = work[p].first
<1>1. Resolve(p, os, tag)
        = [work[p] EXCEPT !.os = os, !.tag = tag, !.image = None, !.version = Latest]
  BY DEF Resolve
<1> QED
  BY <1>1, Numbers DEF Work

\* A resolution begins with a step of its own.
LEMMA FirstCallStep == FirstCall \in {"manifest", "plain"} /\ FirstCall \in PipelineSteps
BY DEF FirstCall, PipelineSteps, StemcellSteps, Resolving

\* An upload begins with its reference.
LEMMA BeginUploadKeeps ==
  ASSUME StemcellsInv, NEW p \in Procs, BeginUpload(p)
  PROVE  StemcellsInv'
<1>1. PICK argument \in Arguments :
        Step(p, "begin", FirstCall, Resolve(p, argument[1], argument[2]))
  BY DEF BeginUpload
<1>2. p \notin Deployers
  BY StemcellsAssumption DEF BeginUpload
<1> DEFINE mine == Resolve(p, argument[1], argument[2])
<1>3. WorkOK(p, pc[p], work[p], Held(stemcells)) /\ work[p] \in Work
  BY DEF StemcellsInv, ProcsOK
<1>4. argument[1] \in OSes /\ argument[2] \in Tags
  BY DEF Arguments
<1>5. mine \in Work /\ mine.image = None /\ mine.version = Latest /\ mine.listed = work[p].listed
  BY <1>3, <1>4, ResolveType
<1> HIDE DEF mine
<1>6. WorkOK(p, FirstCall, mine, Held(stemcells))
  BY <1>2, <1>3, <1>5, FirstCallStep DEF WorkOK, ResolvedRight
<1> QED
  BY <1>1, <1>6, FirstCallStep, StepKeeps DEF mine

\* What was listed stays there: no stemcell is deleted.
LEMMA ListKeeps ==
  ASSUME StemcellsInv, NEW p \in Procs, List(p)
  PROVE  StemcellsInv'
<1> DEFINE w == work[p]
           held == Held(stemcells)
           mine == [w EXCEPT !.listed = held]
           next == IF p \in Deployers THEN "next" ELSE IF w.first THEN FirstCall ELSE "check"
<1>1. WorkOK(p, pc[p], w, held) /\ w \in Work /\ pc[p] = "list" /\ Step(p, "list", next, mine)
  BY DEF StemcellsInv, ProcsOK, List, Step
<1>2. held \in SUBSET (OSes \X Tags)
  BY DEF StemcellsInv, Held, Key, Stemcell
<1> HIDE DEF held
<1>3. mine \in Work
  BY <1>1, <1>2 DEF Work
<1>4. mine.listed = held /\ mine.first = w.first /\ mine.required = w.required
      /\ mine.todo = w.todo /\ mine.image = w.image /\ mine.version = w.version
  BY <1>1 DEF Work
<1> HIDE DEF mine
<1>5. next \in PipelineSteps
  BY FirstCallStep DEF PipelineSteps, StemcellSteps
<1>6. WorkOK(p, next, mine, held)
  <2>1. CASE p \in Deployers
    <3>1. next = "next"
      BY <2>1
    <3>2. ResolvedRight(p, "next", mine)
      BY <1>1, <1>4 DEF WorkOK, ResolvedRight
    <3>3. DeployerKnows("next", mine, held)
      BY <1>1, <1>4, <2>1 DEF WorkOK, DeployerKnows, Ensuring, Resolving
    <3> QED
      BY <1>3, <1>4, <3>1, <3>2, <3>3 DEF WorkOK
  <2>2. CASE p \notin Deployers /\ w.first
    <3>1. next = FirstCall /\ w.image = None
      BY <1>1, <2>2 DEF WorkOK, ResolvedRight
    <3> HIDE DEF next
    <3> QED
      BY <1>1, <1>3, <1>4, <2>2, <3>1, FirstCallStep DEF WorkOK, ResolvedRight
  <2>3. CASE p \notin Deployers /\ ~w.first
    <3>1. next = "check" /\ p \in Uploaders
      BY <2>3 DEF Procs
    <3> HIDE DEF next
    <3> QED
      BY <1>1, <1>3, <1>4, <2>3, <3>1 DEF WorkOK, ResolvedRight
  <2> QED
    BY <2>1, <2>2, <2>3
<1> HIDE DEF next, w
<1> QED
  BY <1>1, <1>5, <1>6, StepKeeps DEF held

\* The upload of what is there already is left out.
LEMMA CheckKeeps ==
  ASSUME StemcellsInv, NEW p \in Procs, Check(p)
  PROVE  StemcellsInv'
<1>1. WorkOK(p, pc[p], work[p], Held(stemcells)) /\ pc[p] = "check"
  BY DEF StemcellsInv, ProcsOK, Check, Step
<1>2. WorkOK(p, "upload", work[p], Held(stemcells))
  BY <1>1 DEF WorkOK, ResolvedRight, DeployerKnows
<1>3. PICK next \in {"done", "upload"} : Step(p, "check", next, work[p])
  BY DEF Check
<1>4. next \in PipelineSteps
  BY DEF PipelineSteps, StemcellSteps
<1> QED
  BY <1>2, <1>3, <1>4, StepKeeps

\* A call fails.
LEMMA FailuresKeep ==
  ASSUME StemcellsInv, NEW p \in Procs, ListFails(p) \/ UploadFails(p)
  PROVE  StemcellsInv'
<1>1. Failed(p) \in {"done", "failed"} /\ Failed(p) \in PipelineSteps
  BY DEF Failed, PipelineSteps, StemcellSteps
<1>2. CASE ListFails(p)
  BY <1>1, <1>2, StepKeeps DEF ListFails
<1>3. CASE UploadFails(p)
  BY <1>1, <1>3, StepKeeps DEF UploadFails
<1> QED
  BY <1>2, <1>3

\* A requirement is met, or its stemcell is resolved next.
LEMMA NextRequirementKeeps ==
  ASSUME StemcellsInv, NEW p \in Procs, NextRequirement(p)
  PROVE  StemcellsInv'
<1> DEFINE w == work[p]
           held == Held(stemcells)
           r == Head(w.todo)
<1>1. WorkOK(p, "next", w, held) /\ w \in Work /\ pc[p] = "next"
  BY DEF StemcellsInv, ProcsOK, NextRequirement, Step
<1> HIDE DEF held
<1>2. w.todo \in Seq(Requirement) /\ w.required \in Seq(Requirement)
  BY <1>1 DEF Work
<1>3. CASE w.todo = <<>>
  <2>1. Step(p, "next", "ensured", w)
    BY <1>3 DEF NextRequirement
  <2>2. ResolvedRight(p, "ensured", w)
    BY <1>1 DEF WorkOK, ResolvedRight
  <2>3. p \in Deployers => DeployerKnows("ensured", w, held)
    BY <1>1, <1>3 DEF WorkOK, DeployerKnows, Ensuring, Resolving
  <2>4. WorkOK(p, "ensured", w, held) /\ "ensured" \in PipelineSteps
    BY <1>1, <2>2, <2>3 DEF WorkOK, PipelineSteps, StemcellSteps
  <2> QED
    BY <2>1, <2>4, StepKeeps DEF held
<1>4. CASE w.todo # <<>>
  <2>1. r \in Requirement /\ Tail(w.todo) \in Seq(Requirement)
    BY <1>2, <1>4
  <2>2. \A x \in ToSet(w.todo) : x = r \/ x \in ToSet(Tail(w.todo))
    <3> SUFFICES ASSUME NEW i \in 1 .. Len(w.todo), i # 1
                 PROVE  w.todo[i] \in ToSet(Tail(w.todo))
      BY <1>2 DEF ToSet
    <3>1. i - 1 \in 1 .. Len(Tail(w.todo)) /\ Tail(w.todo)[i - 1] = w.todo[i]
      BY <1>2, <1>4
    <3>2. i - 1 \in DOMAIN Tail(w.todo)
      BY <2>1, <3>1
    <3> QED
      BY <3>1, <3>2 DEF ToSet
  <2>3. CASE Satisfied(r, w.listed)
    <3> DEFINE mine == [w EXCEPT !.todo = Tail(w.todo)]
    <3>1. Step(p, "next", "next", mine)
      BY <1>4, <2>3 DEF NextRequirement
    <3>2. Satisfied(r, held)
      BY <1>1, <2>3 DEF Satisfied, WorkOK
    <3>3. mine \in Work
      BY <1>1, <2>1 DEF Work
    <3>4. mine.listed = w.listed /\ mine.first = w.first /\ mine.required = w.required
          /\ mine.todo = Tail(w.todo) /\ mine.image = w.image /\ mine.version = w.version
      BY <1>1 DEF Work
    <3> HIDE DEF mine
    <3>5. ResolvedRight(p, "next", mine)
      BY <1>1, <3>4 DEF WorkOK, ResolvedRight
    <3>6. ASSUME p \in Deployers PROVE DeployerKnows("next", mine, held)
      <4>1. Ensuring("next", w, held)
        BY <1>1, <3>6 DEF WorkOK, DeployerKnows
      <4>2. Ensuring("next", mine, held)
        BY <2>2, <3>2, <3>4, <4>1 DEF Ensuring, Resolving
      <4> QED
        BY <4>2 DEF DeployerKnows
    <3>7. WorkOK(p, "next", mine, held) /\ "next" \in PipelineSteps
      BY <1>1, <3>3, <3>4, <3>5, <3>6 DEF WorkOK, PipelineSteps, StemcellSteps
    <3> QED
      BY <3>1, <3>7, StepKeeps DEF held
  <2>4. CASE ~Satisfied(r, w.listed)
    <3> DEFINE resolve == Resolve(p, r.os, r.version)
               mine == [resolve EXCEPT !.todo = Tail(@)]
    <3>1. Step(p, "next", FirstCall, mine)
      BY <1>4, <2>4 DEF NextRequirement
    <3>2. r.os \in OSes /\ r.version \in Tags
      BY <2>1 DEF Requirement
    <3>3. /\ resolve \in Work /\ resolve.os = r.os /\ resolve.tag = r.version
          /\ resolve.image = None /\ resolve.version = Latest
          /\ resolve.required = w.required /\ resolve.todo = w.todo
          /\ resolve.listed = w.listed
      BY <1>1, <3>2, ResolveType
    <3> HIDE DEF resolve
    <3>4. mine \in Work
      BY <2>1, <3>3 DEF Work
    <3>5. mine.listed = w.listed /\ mine.required = w.required /\ mine.todo = Tail(w.todo)
          /\ mine.image = None /\ mine.version = Latest
          /\ mine.os = r.os /\ mine.tag = r.version
      BY <3>3 DEF Work
    <3> HIDE DEF mine
    <3>6. ResolvedRight(p, FirstCall, mine)
      BY <3>5, FirstCallStep DEF ResolvedRight
    <3>7. ASSUME p \in Deployers PROVE DeployerKnows(FirstCall, mine, held)
      <4>1. Ensuring("next", w, held)
        BY <1>1, <3>7 DEF WorkOK, DeployerKnows
      <4>2. Ensuring(FirstCall, mine, held)
        BY <2>2, <3>5, <4>1, FirstCallStep DEF Ensuring, Resolving
      <4> QED
        BY <4>2, FirstCallStep DEF DeployerKnows
    <3>8. WorkOK(p, FirstCall, mine, held)
      BY <1>1, <3>4, <3>5, <3>6, <3>7 DEF WorkOK
    <3> QED
      BY <3>1, <3>8, FirstCallStep, StepKeeps DEF held
  <2> QED
    BY <2>3, <2>4
<1> QED
  BY <1>3, <1>4

\* The director gets a stemcell; a deploy goes on to its next requirement.
LEMMA UploadKeeps ==
  ASSUME StemcellsInv, NEW p \in Procs, Upload(p)
  PROVE  StemcellsInv'
<1> DEFINE w == work[p]
           held == Held(stemcells)
           s == [os |-> w.os, version |-> w.version, image |-> w.image]
           next == IF p \in Deployers THEN "next" ELSE "done"
<1>1. WorkOK(p, "upload", w, held) /\ w \in Work
      /\ pc' = [pc EXCEPT ![p] = next] /\ UNCHANGED sourceVars
  BY DEF StemcellsInv, ProcsOK, Upload, Goto
<1>2. w.os \in OSes /\ w.version \in Tags /\ w.image \in Versions
      /\ (w.version # Latest => w.image = w.version)
  BY <1>1, Numbers DEF Work, WorkOK, ResolvedRight
<1>3. stemcells' \in {stemcells, stemcells \cup {s}}
      /\ (stemcells' = stemcells => <<w.os, w.version>> \in held)
  <2>1. <<w.os, w.version>> \in held \/ stemcells' = stemcells \cup {s}
    BY DEF Upload
  <2>2. Key(s) = <<w.os, w.version>>
    BY DEF Key
  <2>3. s \in stemcells => <<w.os, w.version>> \in held
    BY <2>2 DEF Held
  <2>4. stemcells' \in {stemcells, stemcells \cup {s}}
    BY DEF Upload
  <2> HIDE DEF s, held
  <2> QED
    BY <2>1, <2>3, <2>4
<1>4. s \in Stemcell /\ (s.version # Latest => s.image = s.version)
  BY <1>2 DEF Stemcell
<1>5. Held(stemcells)' = Held(stemcells') /\ held \subseteq Held(stemcells')
      /\ <<w.os, w.version>> \in Held(stemcells')
  BY <1>3 DEF Held, Key
<1>6. (stemcells \subseteq Stemcell)' /\ VersionsTrue' /\ SourcesOK'
  BY <1>1, <1>3, <1>4 DEF StemcellsInv, VersionsTrue, SourcesOK, sourceVars
<1> HIDE DEF s
<1>7. WorkOK(p, pc'[p], work'[p], Held(stemcells')) /\ work' \in [Procs -> Work]
  <2>1. CASE p \in Deployers
    <3>1. pc'[p] = "next" /\ work' = work
      BY <1>1, <2>1 DEF StemcellsInv, ProcsOK, Upload
    <3>2. ResolvedRight(p, "next", w)
      BY <1>1 DEF WorkOK, ResolvedRight
    <3>3. DeployerKnows("next", w, Held(stemcells'))
      <4>1. Ensuring("upload", w, held) /\ (w.tag # Latest => w.version = w.tag)
        BY <1>1, <2>1 DEF WorkOK, DeployerKnows
      <4>2. ASSUME NEW r \in ToSet(w.required), r \notin ToSet(w.todo)
            PROVE  Satisfied(r, Held(stemcells'))
        <5>1. Satisfied(r, held) \/ (r.os = w.os /\ r.version = w.tag)
          BY <4>1, <4>2 DEF Ensuring
        <5>2. CASE Satisfied(r, held)
          BY <1>5, <5>2 DEF Satisfied
        <5>3. CASE r.os = w.os /\ r.version = w.tag
          <6>1. CASE w.tag = Latest
            BY <1>5, <5>3, <6>1 DEF Satisfied
          <6>2. CASE w.tag # Latest
            BY <1>5, <4>1, <5>3, <6>2 DEF Satisfied
          <6> QED
            BY <6>1, <6>2
        <5> QED
          BY <5>1, <5>2, <5>3
      <4>3. Ensuring("next", w, Held(stemcells'))
        BY <4>2 DEF Ensuring
      <4> QED
        BY <4>3 DEF DeployerKnows
    <3> QED
      BY <1>1, <1>5, <3>1, <3>2, <3>3 DEF WorkOK, StemcellsInv, ProcsOK
  <2>2. CASE p \notin Deployers
    <3>1. pc'[p] = "done" /\ work' = [work EXCEPT ![p] = NoWork]
      BY <1>1, <2>2 DEF StemcellsInv, ProcsOK, Upload
    <3>2. WorkOK(p, "done", NoWork, Held(stemcells'))
      BY NoWorkOK
    <3> QED
      BY <3>1, <3>2, NoWorkType DEF StemcellsInv, ProcsOK
  <2> QED
    BY <2>1, <2>2
<1>8. ASSUME NEW q \in Procs, q # p PROVE WorkOK(q, pc'[q], work'[q], Held(stemcells'))
  <2>1. pc'[q] = pc[q] /\ work'[q] = work[q]
    BY <1>1, <1>8 DEF StemcellsInv, ProcsOK, Upload
  <2>2. WorkOK(q, pc[q], work[q], held)
    BY DEF StemcellsInv, ProcsOK
  <2> QED
    BY <1>5, <2>1, <2>2, KnowledgeStays
<1>9. pc' \in [Procs -> PipelineSteps]
  BY <1>1 DEF StemcellsInv, ProcsOK, PipelineSteps, StemcellSteps
<1>10. ProcsOK'
  BY <1>5, <1>7, <1>8, <1>9 DEF ProcsOK
<1> QED
  BY <1>6, <1>10 DEF StemcellsInv

\* Images are published at any time, and of no image the version changes.
LEMMA PublishingKeeps ==
  ASSUME StemcellsInv, Publishing
  PROVE  StemcellsInv'
<1>1. PICK os \in OSes : PublishVersion(os) \/ MoveLatest(os)
  BY DEF Publishing
<1>2. UNCHANGED <<kind, local, suffixed, stemcells, pc, work>>
  BY <1>1 DEF PublishVersion, MoveLatest
<1>3. ASSUME NEW f, f \in [OSes -> Versions], f[os] < MaxVersion
      PROVE  [f EXCEPT ![os] = @ + 1] \in [OSes -> Versions]
  BY <1>3, StemcellsAssumption DEF Versions
<1>4. tagged' \in [OSes -> Versions] /\ latest' \in [OSes -> Versions]
  <2>1. CASE PublishVersion(os)
    BY <1>3, <2>1 DEF PublishVersion, StemcellsInv, SourcesOK
  <2>2. CASE MoveLatest(os)
    BY <1>3, <2>2 DEF MoveLatest, StemcellsInv, SourcesOK
  <2> QED
    BY <1>1, <2>1, <2>2
<1>5. SourcesOK'
  BY <1>2, <1>4 DEF StemcellsInv, SourcesOK
<1> QED
  BY <1>2, <1>5 DEF StemcellsInv, VersionsTrue, ProcsOK, Held

\* Every step of Stemcells.
LEMMA StemcellStepKeeps ==
  ASSUME StemcellsInv, NEW p \in Procs, StemcellStep(p)
  PROVE  StemcellsInv'
<1>1. CASE BeginStart(p)
  BY <1>1, BeginStartKeeps
<1>2. CASE BeginUpload(p)
  BY <1>2, BeginUploadKeeps
<1>3. CASE List(p)
  BY <1>3, ListKeeps
<1>4. CASE ListFails(p) \/ UploadFails(p)
  BY <1>4, FailuresKeep
<1>5. CASE NextRequirement(p)
  BY <1>5, NextRequirementKeeps
<1>6. CASE Check(p)
  BY <1>6, CheckKeeps
<1>7. CASE ManifestGet(p)
  BY <1>7, ManifestGetKeeps
<1>8. CASE ManifestGetFails(p) \/ NoVersionTag(p)
  BY <1>8, NextCallsKeep
<1>9. CASE FindVersionTagForDigest(p)
  BY <1>9, FindVersionTagKeeps
<1>10. CASE AskLocal(p)
  BY <1>10, AskLocalKeeps
<1>11. CASE ResolvePlain(p)
  BY <1>11, AnswerKeeps DEF ResolvePlain
<1>12. CASE ResolveAgent(p)
  <2>1. Failed(p) \in {"agent", "done", "failed"}
    BY DEF Failed
  <2> QED
    BY <1>12, <2>1, AnswerKeeps DEF ResolveAgent
<1>13. CASE Upload(p)
  BY <1>13, UploadKeeps
<1> QED
  BY <1>1, <1>2, <1>3, <1>4, <1>5, <1>6, <1>7, <1>8, <1>9, <1>10, <1>11, <1>12, <1>13
     DEF StemcellStep

-----------------------------------------------------------------------------
\* Stemcells are no matter of the steps between, and the manifest none of theirs.
LEMMA StemcellStepGoes ==
  ASSUME NEW p \in Procs, StemcellStep(p)
  PROVE  \E next \in StemcellSteps : pc' = [pc EXCEPT ![p] = next]
<1>1. /\ FirstCall \in StemcellSteps /\ Resolved(p) \in StemcellSteps
      /\ Failed(p) \in StemcellSteps
      /\ {"list", "next", "check", "done", "upload", "ensured", "tags", "local", "agent"}
           \subseteq StemcellSteps
  BY DEF FirstCall, Resolved, Failed, StemcellSteps, Resolving
<1>2. \A from, next, mine : Step(p, from, next, mine) => pc' = [pc EXCEPT ![p] = next]
  BY DEF Step, Goto
<1>3. CASE BeginStart(p) \/ List(p) \/ ListFails(p) \/ UploadFails(p)
  BY <1>1, <1>2, <1>3 DEF BeginStart, List, ListFails, UploadFails
<1>4. CASE BeginUpload(p) \/ Check(p)
  BY <1>1, <1>2, <1>4 DEF BeginUpload, Check
<1>5. CASE NextRequirement(p)
  BY <1>1, <1>2, <1>5 DEF NextRequirement
<1>6. CASE ManifestGet(p) \/ ManifestGetFails(p)
  BY <1>1, <1>2, <1>6 DEF ManifestGet, ManifestGetFails
<1>7. CASE FindVersionTagForDigest(p) \/ NoVersionTag(p)
  BY <1>1, <1>2, <1>7 DEF FindVersionTagForDigest, NoVersionTag
<1>8. CASE AskLocal(p)
  BY <1>1, <1>2, <1>8 DEF AskLocal
<1>9. CASE ResolvePlain(p) \/ ResolveAgent(p)
  BY <1>1, <1>2, <1>9 DEF ResolvePlain, ResolveAgent, Answer
<1>10. CASE Upload(p)
  BY <1>1, <1>10 DEF Upload, Goto
<1> QED
  BY <1>3, <1>4, <1>5, <1>6, <1>7, <1>8, <1>9, <1>10 DEF StemcellStep

\* A manifest that is not being rendered, filtered or deployed may be anything.
LEMMA DeployOKElsewhere ==
  ASSUME NEW at, NEW next \in StemcellSteps, NEW d, NEW there, DeployOK(at, d, there)
  PROVE  DeployOK(next, d, there)
BY DEF DeployOK, StemcellSteps, Resolving

\* A step of Stemcells leaves the manifests alone.
LEMMA StepsBetween ==
  ASSUME IInv, UNCHANGED <<embedded, releases, deploy>>, NEW p \in Procs,
         NEW next \in StemcellSteps, pc' = [pc EXCEPT ![p] = next]
  PROVE  DeploysInv'
<1>1. ASSUME NEW q \in Deployers PROVE DeployOK(pc'[q], deploy[q], releases)
  <2>1. DeployOK(pc[q], deploy[q], releases)
    BY DEF IInv, DeploysInv
  <2>2. pc'[q] = pc[q] \/ pc'[q] = next
    BY DEF IInv, StemcellsInv, ProcsOK, Procs
  <2> QED
    BY <2>1, <2>2, DeployOKElsewhere
<1> QED
  BY <1>1 DEF IInv, DeploysInv

\* A deployer between its commands has no manifest.
LEMMA NoDeployOK ==
  ASSUME NEW at, NEW there, at \notin {"consolidate", "filter", "deploy"}
  PROVE  DeployOK(at, NoDeploy, there)
<1>1. NoDeploy.out = NoManifest /\ {"op", "out"} \subseteq DOMAIN NoDeploy
  BY DEF NoDeploy
<1>2. NoManifest.releases = <<>> /\ Fields \subseteq DOMAIN NoManifest
  BY DEF NoManifest, Fields
<1>3. NoManifest.releases \in Seq(AnyRelease)
  BY <1>2
<1> HIDE DEF NoDeploy, NoManifest
<1> QED
  BY <1>1, <1>2, <1>3 DEF DeployOK

\* A process that leaves its stemcells alone.
LEMMA LeavesStemcells ==
  ASSUME NEW p \in Deployers, NEW held, NEW w,
         NEW from \in {"begin", "ensured", "consolidate", "filter"}, WorkOK(p, from, w, held),
         NEW next \in {"ensured", "consolidate", "filter", "deploy", "done", "failed"}
  PROVE  WorkOK(p, next, w, held)
<1>1. w.todo = <<>>
  BY DEF WorkOK, DeployerKnows, NoWork
<1>2. ResolvedRight(p, next, w)
  BY DEF WorkOK, ResolvedRight
<1>3. Ensuring(next, w, held)
  BY DEF WorkOK, DeployerKnows, Ensuring, Resolving
<1> QED
  BY <1>1, <1>2, <1>3 DEF WorkOK, DeployerKnows

\* A step of the pipeline: the manifest must be right for the step that comes next.
LEMMA RenderKeeps ==
  ASSUME IInv, NEW p \in Deployers, NEW mine,
         NEW from \in {"begin", "ensured", "consolidate", "filter"},
         NEW next \in {"ensured", "consolidate", "filter", "deploy", "done", "failed"},
         Render(p, from, next, mine),
         next \notin {"done", "failed"} => DeployOK(next, mine, releases)
  PROVE  IInv'
<1> DEFINE d == IF next \in {"done", "failed"} THEN NoDeploy ELSE mine
<1>1. p \in Procs /\ next \in PipelineSteps
  BY DEF Procs, PipelineSteps, StemcellSteps
<1>2. /\ pc[p] = from /\ pc' = [pc EXCEPT ![p] = next]
      /\ deploy' = [deploy EXCEPT ![p] = d]
      /\ UNCHANGED <<sourceVars, stemcells, work, embedded, releases>>
  BY DEF Render, Goto
<1>3. DeployOK(next, d, releases)
  BY NoDeployOK
<1> HIDE DEF d
<1>4. WorkOK(p, next, work[p], Held(stemcells))
  BY <1>1, <1>2, LeavesStemcells DEF IInv, StemcellsInv, ProcsOK
<1>5. ProcsOK'
  BY <1>1, <1>2, <1>4 DEF IInv, StemcellsInv, ProcsOK, Held
<1>6. StemcellsInv'
  BY <1>2, <1>5 DEF IInv, StemcellsInv, SourcesOK, VersionsTrue, sourceVars
<1>7. ASSUME NEW q \in Deployers PROVE DeployOK(pc'[q], deploy'[q], releases)
  <2>1. DeployOK(pc[q], deploy[q], releases) /\ q \in Procs
    BY DEF IInv, DeploysInv, Procs
  <2>2. CASE q = p
    BY <1>1, <1>2, <1>3, <2>2 DEF IInv, DeploysInv, StemcellsInv, ProcsOK
  <2>3. CASE q # p
    BY <1>1, <1>2, <2>1, <2>3 DEF IInv, DeploysInv, StemcellsInv, ProcsOK
  <2> QED
    BY <2>2, <2>3
<1>8. DeploysInv'
  BY <1>2, <1>7 DEF IInv, DeploysInv
<1> QED
  BY <1>6, <1>8 DEF IInv

\* Of releases that have a URL those lose it that the director has.
LEMMA FilterRight ==
  ASSUME NEW rs \in Seq(Given), NEW there
  PROVE  /\ Filter(rs, there) \in Seq(AnyRelease)
         /\ \A r \in ToSet(Filter(rs, there)) : r.url \/ <<r.name, r.version>> \in there
<1> DEFINE out(i) == IF <<rs[i].name, rs[i].version>> \in there
                     THEN [rs[i] EXCEPT !.url = FALSE] ELSE rs[i]
<1>1. ASSUME NEW i \in 1 .. Len(rs)
      PROVE  /\ out(i) \in AnyRelease
             /\ out(i).url \/ <<out(i).name, out(i).version>> \in there
  <2>1. rs[i] \in Given
    OBVIOUS
  <2> QED
    BY <2>1 DEF Given, AnyRelease
<1>2. Filter(rs, there) = [i \in 1 .. Len(rs) |-> out(i)] /\ Len(rs) \in Nat
  BY DEF Filter
<1> HIDE DEF out
<1>3. Filter(rs, there) \in Seq(AnyRelease)
  <2>1. Filter(rs, there) \in [1 .. Len(rs) -> AnyRelease]
    BY <1>1, <1>2
  <2> QED
    BY <1>2, <2>1, SeqDef
<1>4. ASSUME NEW r \in ToSet(Filter(rs, there))
      PROVE  r.url \/ <<r.name, r.version>> \in there
  <2>1. PICK i \in 1 .. Len(rs) : r = out(i)
    BY <1>2 DEF ToSet
  <2> QED
    BY <1>1, <2>1
<1> QED
  BY <1>3, <1>4

\* Releases that can be fetched.
LEMMA GivenReleases ==
  ASSUME NEW rs \in Seq(Given)
  PROVE  rs \in Seq(AnyRelease) /\ \A r \in ToSet(rs) : r.url
<1>1. Given \subseteq AnyRelease /\ \A r \in Given : r.url = TRUE
  BY DEF Given, AnyRelease
<1>2. Seq(Given) \subseteq Seq(AnyRelease)
  BY <1>1, SeqMonotonic
<1>3. ToSet(rs) \subseteq Given
  BY DEF ToSet
<1> QED
  BY <1>1, <1>2, <1>3

\* Every release has no stemcell section, is pinned, or is pinned later.
Pinned(rs, names, version) ==
  \A i \in DOMAIN rs : rs[i].stemcell \in {NoSection, version} \/ rs[i].name \in names

\* An operation that pins nothing leaves nothing to be pinned that is not pinned later.
LEMMA SettingPins ==
  ASSUME NEW cf, NEW m \in RenderedOf(cf), NEW names, NEW o \in Setting(names), NEW version,
         Pinned(m.releases, names, version), NEW n \in ApplyOp(m, o)
  PROVE  Pinned(n.releases, names, version)
<1> DEFINE Fine(r) == r.stemcell \in {NoSection, version} \/ r.name \in names
<1>1. /\ "releases" \in DOMAIN m /\ m.releases \in Seq(Given)
      /\ \A i \in DOMAIN m.releases : Fine(m.releases[i])
  BY DEF RenderedOf, Pinned
<1>2. ASSUME NEW r, Fine(r), NEW rs,
             \/ rs = Append(m.releases, r)
             \/ \E i \in DOMAIN m.releases : rs = [m.releases EXCEPT ![i] = r]
      PROVE  Pinned(rs, names, version)
  <2> HIDE DEF Fine
  <2>1. CASE rs = Append(m.releases, r)
    <3>1. \A i \in DOMAIN rs : (i \in DOMAIN m.releases /\ rs[i] = m.releases[i]) \/ rs[i] = r
      BY <1>1, <2>1
    <3> QED
      BY <1>1, <1>2, <3>1 DEF Pinned, Fine
  <2>2. CASE \E i \in DOMAIN m.releases : rs = [m.releases EXCEPT ![i] = r]
    <3>1. \A i \in DOMAIN rs : (i \in DOMAIN m.releases /\ rs[i] = m.releases[i]) \/ rs[i] = r
      BY <1>1, <2>2
    <3> QED
      BY <1>1, <1>2, <3>1 DEF Pinned, Fine
  <2> QED
    BY <1>2, <2>1, <2>2
<1>3. CASE o \in [do : {"append"}, part : {"releases"}, value : GivenPlain]
  <2>1. n = [m EXCEPT !.releases = Append(m.releases, o.value)]
    BY <1>3 DEF ApplyOp
  <2>2. Fine(o.value) /\ n.releases = Append(m.releases, o.value)
    BY <1>1, <1>3, <2>1 DEF GivenPlain
  <2> HIDE DEF Fine
  <2> QED
    BY <1>2, <2>2
<1>4. CASE o \in [do : {"append"}, part : {"variables"}, value : Text]
  <2>1. n = [m EXCEPT !.variables = Append(m.variables, o.value)]
    BY <1>4 DEF ApplyOp
  <2> QED
    BY <2>1
<1>5. CASE o \in [do : {"replace"},
                  value : {r \in Given : r.stemcell = NoSection \/ r.name \in names},
                  optional : BOOLEAN]
  <2>1. n \in ReplaceRelease(m, o.value, o.optional) /\ Fine(o.value)
    BY <1>5 DEF ApplyOp
  <2>2. \/ n = [m EXCEPT !.releases = Append(m.releases, o.value)]
        \/ \E i \in DOMAIN m.releases :
             n = [m EXCEPT !.releases = [m.releases EXCEPT ![i] = o.value]]
    BY <2>1 DEF ReplaceRelease, Indices
  <2>3. \/ n.releases = Append(m.releases, o.value)
        \/ \E i \in DOMAIN m.releases : n.releases = [m.releases EXCEPT ![i] = o.value]
    BY <1>1, <2>2
  <2> HIDE DEF Fine
  <2> QED
    BY <1>2, <2>1, <2>3
<1> QED
  BY <1>3, <1>4, <1>5 DEF Setting

\* A pin does what was left for it.
LEMMA PinningPins ==
  ASSUME NEW cf, NEW m \in RenderedOf(cf), NEW names, NEW name, NEW version,
         Pinned(m.releases, names \cup {name}, version),
         NEW n \in ApplyOp(m, Pinning(name, version))
  PROVE  Pinned(n.releases, names, version)
<1>1. n \in PinRelease(m, name, version)
  BY DEF ApplyOp, Pinning
<1>2. PICK i \in DOMAIN m.releases :
        Indices(m, name) = {i} /\ n = [m EXCEPT !.releases[i].stemcell = version]
  BY <1>1 DEF PinRelease, Indices
<1>3. "releases" \in DOMAIN m /\ m.releases \in Seq(Given) /\ m.releases[i] \in Given
  BY DEF RenderedOf
<1> DEFINE r == [m.releases[i] EXCEPT !.stemcell = version]
<1>4. r.stemcell = version
  BY <1>3 DEF Given
<1>5. n.releases = [m.releases EXCEPT ![i] = r]
  BY <1>2, <1>3
<1>6. \A k \in DOMAIN m.releases : m.releases[k].name = name => k = i
  BY <1>2 DEF Indices
<1> HIDE DEF r
<1> QED
  BY <1>3, <1>4, <1>5, <1>6 DEF Pinned

\* By induction on the operations: in the end no pin is left.
LEMMA CFPinned ==
  ASSUME NEW doc \in Docs, NEW m \in RenderedCF(doc)
  PROVE  Pinned(m.releases, {}, doc.cf.stemcells[1].version)
<1> DEFINE cf == doc.cf
           X == RenderedOf(cf)
           version == cf.stemcells[1].version
<1>1. PICK ops \in PrepareCFManifestFiles(doc) : m \in Interpolated(cf, ops)
  BY DEF RenderedCF
<1>2. ops \in Seq(Operation) /\ cf \in X
  BY CFOperations
<1>3. \A n \in X : \A o \in Operation : ApplyOp(n, o) \subseteq X
  BY ApplyOpKeeps
<1>4. PICK K, pinned : PinsFollow(ops, K, pinned, version)
  BY CFPins
<1>5. PICK f : Applied(f, X, cf, ops) /\ Interpolated(cf, ops) = f[Len(ops)]
  <2> HIDE DEF X, cf
  <2> QED
    BY <1>2, <1>3, InterpolatedFold
<1>6. \A i \in DOMAIN cf.releases : cf.releases[i].stemcell = NoSection
  <2>1. cf.releases \in Seq(GivenPlain)
    BY DocsGiven
  <2> QED
    BY <2>1 DEF GivenPlain
<1> HIDE DEF X, cf, version
<1> DEFINE M == Len(pinned)
           Later(n) == {pinned[j].name : j \in {j \in 1 .. M : n < K + j}}
           Good(n) == \A x \in f[n] : Pinned(x.releases, Later(n), version)
           T == {n \in Nat : n <= Len(ops) => Good(n)}
<1>7. K \in Nat /\ M \in Nat /\ Len(ops) = K + M /\ pinned \in Seq(Given)
  BY <1>4 DEF PinsFollow
<1>8. 0 \in T
  <2>1. \A x \in f[0] : x = cf
    BY <1>5 DEF Applied
  <2>2. Pinned(cf.releases, Later(0), version)
    <3> HIDE DEF Later
    <3> QED
      BY <1>6 DEF Pinned
  <2> HIDE DEF Later
  <2> QED
    BY <2>1, <2>2
<1>9. ASSUME NEW n \in T PROVE n + 1 \in T
  <2> SUFFICES ASSUME n + 1 <= Len(ops), NEW y \in f[n + 1]
               PROVE  Pinned(y.releases, Later(n + 1), version)
    <3> HIDE DEF Later
    <3> QED
      OBVIOUS
  <2>1. n \in 0 .. Len(ops) - 1 /\ n \in 0 .. Len(ops)
    BY <1>7
  <2>2. f[n] \subseteq X /\ f[n + 1] = UNION {ApplyOp(x, ops[n + 1]) : x \in f[n]}
    BY <1>5, <2>1 DEF Applied
  <2>3. PICK x \in f[n] : y \in ApplyOp(x, ops[n + 1])
    BY <2>2
  <2>4. x \in X /\ Pinned(x.releases, Later(n), version)
    <3> HIDE DEF Later
    <3> QED
      BY <1>7, <2>1, <2>2
  <2>5. CASE n + 1 \in 1 .. K
    <3>1. Later(n) = NamesOf(pinned) /\ Later(n + 1) = NamesOf(pinned)
      <4>1. \A k \in 1 .. M : n < K + k /\ n + 1 < K + k
        BY <1>7, <2>5
      <4>2. DOMAIN pinned = 1 .. M
        BY <1>7
      <4> HIDE DEF M
      <4> QED
        BY <4>1, <4>2 DEF NamesOf
    <3>2. ops[n + 1] \in Setting(NamesOf(pinned))
      BY <1>4, <2>5 DEF PinsFollow
    <3> HIDE DEF Later
    <3> QED
      BY <2>3, <2>4, <3>1, <3>2, SettingPins DEF X
  <2>6. CASE n + 1 \notin 1 .. K
    <3> DEFINE j == n + 1 - K
    <3>1. j \in 1 .. M /\ K + j = n + 1
      BY <1>7, <2>1, <2>6
    <3>2. ops[n + 1] = Pinning(pinned[j].name, version)
      BY <1>4, <3>1 DEF PinsFollow
    <3>3. Later(n) \subseteq Later(n + 1) \cup {pinned[j].name}
      <4> SUFFICES ASSUME NEW k \in 1 .. M, n < K + k
                   PROVE  pinned[k].name \in Later(n + 1) \/ k = j
        OBVIOUS
      <4>1. k = j \/ n + 1 < K + k
        BY <1>7, <2>1, <3>1
      <4> QED
        BY <4>1
    <3> HIDE DEF Later, j
    <3>4. Pinned(x.releases, Later(n + 1) \cup {pinned[j].name}, version)
      BY <2>4, <3>3 DEF Pinned
    <3> QED
      BY <2>3, <2>4, <3>2, <3>4, PinningPins DEF X
  <2> QED
    BY <2>5, <2>6
<1>10. Len(ops) \in T
  <2>1. T \in SUBSET Nat
    OBVIOUS
  <2> HIDE DEF T
  <2>2. T = Nat
    BY <1>8, <1>9, <2>1, SetInduction
  <2> QED
    BY <1>7, <2>2
<1>11. Later(Len(ops)) = {}
  BY <1>7
<1>12. Pinned(m.releases, {}, version)
  <2>1. Good(Len(ops)) /\ m \in f[Len(ops)]
    <3> HIDE DEF Good
    <3> QED
      BY <1>1, <1>5, <1>7, <1>10 DEF cf
  <2> HIDE DEF Later
  <2> QED
    BY <1>11, <2>1
<1> QED
  BY <1>12 DEF version, cf

\* A rendered CF manifest has a stemcell of every version that a stemcell section names.
LEMMA CFCoherent ==
  ASSUME NEW doc \in Docs, NEW m \in RenderedCF(doc)
  PROVE  Coherent(m)
<1>1. m.sections = {} /\ m.stemcells = doc.cf.stemcells
  BY CFRendered DEF RenderedOf
<1>2. doc.cf.stemcells # <<>>
  BY CFPins DEF RenderedCF
<1>3. doc.cf.stemcells[1] \in ToSet(doc.cf.stemcells)
  <2>1. doc.cf.stemcells \in Seq(Requirement)
    BY DocsGiven
  <2> QED
    BY <1>2, <2>1 DEF ToSet
<1>4. \A r \in ToSet(m.releases) : r.stemcell \in {NoSection, doc.cf.stemcells[1].version}
  BY CFPinned DEF Pinned, ToSet
<1> QED
  BY <1>1, <1>2, <1>3, <1>4 DEF Coherent

\* The stemcell that bosh-dev.yml has a director run on.
LEMMA DefaultRequirement == DefaultStemcell \in Requirement
BY StemcellsAssumption, Numbers DEF DefaultStemcell, Requirement

\* A rendered BOSH manifest is for a director, and there is one.
LEMMA BOSHCoherent ==
  /\ BOSHManifests # {}
  /\ \A m \in BOSHManifests : Coherent(m)
<1>1. PICK N, J, V : AllShaped(BOSHManifests, N, J, V, {DefaultStemcell}, {})
  BY BOSHApplies, DefaultRequirement DEF BOSHManifests
<1>2. ASSUME NEW m \in BOSHManifests PROVE Coherent(m)
  <2>1. Shaped(m, N, J, V, {DefaultStemcell}, {})
    BY <1>1 DEF AllShaped
  <2>2. /\ m.sections = {} /\ DefaultStemcell \in ToSet(m.stemcells)
        /\ m.releases \in Seq(GivenPlain)
    BY <2>1 DEF Shaped, RenderedBOSHOf
  <2>3. m.stemcells # <<>>
    BY <2>2 DEF ToSet
  <2>4. \A r \in ToSet(m.releases) : r.stemcell = NoSection
    BY <2>2 DEF ToSet, GivenPlain
  <2> QED
    BY <2>2, <2>3, <2>4 DEF Coherent
<1> QED
  BY <1>1, <1>2 DEF AllShaped

-----------------------------------------------------------------------------
\* The manifest of a deployer after a step of its command.
LEMMA NewManifestOK ==
  ASSUME NEW d, NEW there, NEW at, DeployOK(at, d, there), NEW next \in {"consolidate", "filter"},
         NEW m, Fields \subseteq DOMAIN m, m.releases \in Seq(Given), Coherent(m)
  PROVE  DeployOK(next, [d EXCEPT !.out = m], there)
<1> DEFINE e == [d EXCEPT !.out = m]
<1>1. e.out = m /\ {"op", "out"} \subseteq DOMAIN e
  BY DEF DeployOK
<1>2. m.releases \in Seq(AnyRelease)
  BY GivenReleases
<1> HIDE DEF e
<1> QED
  BY <1>1, <1>2 DEF DeployOK

\* Consolidation drops releases and adds none.
LEMMA ConsolidatedOK ==
  ASSUME NEW m, Fields \subseteq DOMAIN m, m.releases \in Seq(Given), Coherent(m)
  PROVE  LET c == ConsolidateInstanceGroups(m)
         IN  Fields \subseteq DOMAIN c /\ c.releases \in Seq(Given) /\ Coherent(c)
<1> DEFINE c == ConsolidateInstanceGroups(m)
           S == {r \in ToSet(m.releases) : r.name = "haproxy"}
           rs == Without(m.releases, S)
<1>1. /\ Fields \subseteq DOMAIN c /\ c.releases = rs
      /\ c.sections = m.sections /\ c.stemcells = m.stemcells
  BY DEF ConsolidateInstanceGroups, Fields, FilterHaproxyReleases
<1>2. m.releases \in Seq(ToSet(m.releases) \cap Given)
  <2>1. ToSet(m.releases) \subseteq Given /\ Len(m.releases) \in Nat
        /\ m.releases \in [1 .. Len(m.releases) -> ToSet(m.releases)]
    BY DEF ToSet
  <2>2. m.releases \in [1 .. Len(m.releases) -> ToSet(m.releases) \cap Given]
    BY <2>1
  <2> QED
    BY <2>1, <2>2, SeqDef
<1>3. rs \in Seq((ToSet(m.releases) \cap Given) \ S)
  BY <1>2, WithoutType
<1> HIDE DEF rs, S, c
<1>4. rs \in Seq(Given) /\ ToSet(rs) \subseteq ToSet(m.releases)
  BY <1>3 DEF ToSet
<1>5. Coherent(c)
  BY <1>1, <1>4 DEF Coherent
<1> QED
  BY <1>1, <1>4, <1>5 DEF c

\* Filtering takes URLs and leaves the stemcell sections.
LEMMA FilteredOK ==
  ASSUME NEW d, NEW there, DeployOK("filter", d, there)
  PROVE  /\ DeployOK("deploy", [d EXCEPT !.out.releases = Filter(@, there)], there)
         /\ DeployOK("deploy", d, there)
<1>1. d.out.releases \in Seq(Given) /\ Coherent(d.out)
  BY DEF DeployOK
<1>2. DeployOK("deploy", d, there)
  BY <1>1, GivenReleases DEF DeployOK
<1> DEFINE rs == Filter(d.out.releases, there)
           out == [d.out EXCEPT !.releases = rs]
           e == [d EXCEPT !.out = out]
<1>3. [d EXCEPT !.out.releases = Filter(@, there)] = e
  OBVIOUS
<1>4. rs \in Seq(AnyRelease) /\ \A r \in ToSet(rs) : r.url \/ <<r.name, r.version>> \in there
  BY <1>1, FilterRight
<1>5. ASSUME NEW r \in ToSet(rs) PROVE \E s \in ToSet(d.out.releases) : s.stemcell = r.stemcell
  <2>1. PICK i \in DOMAIN d.out.releases :
          r \in {d.out.releases[i], [d.out.releases[i] EXCEPT !.url = FALSE]}
    BY DEF ToSet, Filter
  <2>2. d.out.releases[i] \in Given
    BY <1>1
  <2>3. r.stemcell = d.out.releases[i].stemcell
    BY <2>1, <2>2 DEF Given
  <2> QED
    BY <2>3 DEF ToSet
<1> HIDE DEF rs
<1>6. /\ out.releases = rs /\ out.sections = d.out.sections /\ out.stemcells = d.out.stemcells
      /\ Fields \subseteq DOMAIN out
  BY DEF DeployOK, Fields
<1> HIDE DEF out
<1>7. Coherent(out)
  BY <1>1, <1>5, <1>6 DEF Coherent
<1>8. e.out = out /\ {"op", "out"} \subseteq DOMAIN e
  BY DEF DeployOK
<1> HIDE DEF e
<1>9. DeployOK("deploy", e, there)
  BY <1>4, <1>6, <1>7, <1>8 DEF DeployOK
<1> QED
  BY <1>2, <1>3, <1>9

\* Every step of the pipeline.
LEMMA PipelineStepKeeps ==
  ASSUME IInv, NEW p \in Deployers, PipelineStep(p)
  PROVE  IInv'
<1>typed. p \in Procs /\ DeployOK(pc[p], deploy[p], releases) /\ embedded \in Docs
  BY DEF IInv, DeploysInv, Procs
<1>1. CASE BeginCF(p)
  <2>1. PICK m \in RenderedCF(embedded) : BeginEnsure(p, m.stemcells)
    BY <1>1 DEF BeginCF
  <2>2. m.stemcells \in Seq(Requirement)
    BY <1>typed, CFRendered, DocsGiven DEF RenderedOf
  <2>3. StemcellsInv'
    BY <2>1, <2>2, BeginEnsureKeeps DEF IInv
  <2>4. pc' = [pc EXCEPT ![p] = "list"] /\ "list" \in StemcellSteps
        /\ UNCHANGED <<embedded, releases, deploy>>
    BY <1>1, <2>1 DEF BeginCF, BeginEnsure, Step, Goto, StemcellSteps
  <2>5. DeploysInv'
    BY <1>typed, <2>4, StepsBetween
  <2> QED
    BY <2>3, <2>5 DEF IInv
<1>2. CASE BeginFails(p)
  BY <1>2, RenderKeeps DEF BeginFails
<1>3. CASE BeginWithoutStemcells(p)
  <2>1. PICK op \in Ops : Render(p, "begin", "ensured", [NoDeploy EXCEPT !.op = op])
    BY <1>3 DEF BeginWithoutStemcells
  <2> DEFINE d == [NoDeploy EXCEPT !.op = op]
  <2>2. d.out = NoDeploy.out /\ DOMAIN d = DOMAIN NoDeploy
    BY DEF NoDeploy
  <2> HIDE DEF d
  <2>3. DeployOK("ensured", d, releases)
    BY <2>2, NoDeployOK DEF DeployOK
  <2> QED
    BY <2>1, <2>3, RenderKeeps DEF d
<1>4. CASE Interpolate(p)
  <2>1. PICK m \in RenderedCF(embedded) :
          Render(p, "ensured", "consolidate", [deploy[p] EXCEPT !.out = m])
    BY <1>4 DEF Interpolate
  <2>2. Fields \subseteq DOMAIN m /\ m.releases \in Seq(Given)
    BY <1>typed, CFRendered DEF RenderedOf, Fields
  <2>3. Coherent(m)
    BY <1>typed, CFCoherent
  <2>4. DeployOK("consolidate", [deploy[p] EXCEPT !.out = m], releases)
    BY <1>typed, <2>2, <2>3, NewManifestOK
  <2> QED
    BY <2>1, <2>4, RenderKeeps
<1>5. CASE InterpolateBOSHManifest(p)
  <2>1. PICK m \in BOSHManifests :
          Render(p, "ensured", "filter", [deploy[p] EXCEPT !.out = m])
    BY <1>5 DEF InterpolateBOSHManifest
  <2>2. Fields \subseteq DOMAIN m /\ m.releases \in Seq(Given)
    <3>1. m \in RenderedBOSHOf /\ Seq(GivenPlain) \subseteq Seq(Given)
      BY BOSHRendered, DefaultRequirement, SeqMonotonic DEF BOSHManifests, GivenPlain
    <3> QED
      BY <3>1 DEF RenderedBOSHOf, Fields
  <2>3. Coherent(m)
    BY BOSHCoherent
  <2>4. DeployOK("filter", [deploy[p] EXCEPT !.out = m], releases)
    BY <1>typed, <2>2, <2>3, NewManifestOK
  <2> QED
    BY <2>1, <2>4, RenderKeeps
<1>6. CASE InterpolateFails(p)
  BY <1>6, RenderKeeps DEF InterpolateFails
<1>7. CASE ConsolidateGroups(p)
  <2>1. CASE ~ValidMapping(deploy[p].out.groups)
    BY <1>7, <2>1, RenderKeeps DEF ConsolidateGroups
  <2>2. CASE ValidMapping(deploy[p].out.groups)
    <3> DEFINE d == deploy[p]
               c == ConsolidateInstanceGroups(d.out)
    <3>1. Render(p, "consolidate", "filter", [d EXCEPT !.out = ConsolidateInstanceGroups(@)])
      BY <1>7, <2>2 DEF ConsolidateGroups
    <3>2. pc[p] = "consolidate"
      BY <3>1 DEF Render
    <3>3. Fields \subseteq DOMAIN d.out /\ d.out.releases \in Seq(Given) /\ Coherent(d.out)
      BY <1>typed, <3>2 DEF DeployOK
    <3>4. Fields \subseteq DOMAIN c /\ c.releases \in Seq(Given) /\ Coherent(c)
      BY <3>3, ConsolidatedOK
    <3>5. [d EXCEPT !.out = ConsolidateInstanceGroups(@)] = [d EXCEPT !.out = c]
      OBVIOUS
    <3> HIDE DEF c
    <3>6. DeployOK("filter", [d EXCEPT !.out = c], releases)
      BY <1>typed, <3>4, NewManifestOK
    <3> QED
      BY <3>1, <3>5, <3>6, RenderKeeps
  <2> QED
    BY <2>1, <2>2
<1>8. CASE FilterReleases(p) \/ FilterBlind(p)
  <2>1. PICK d \in {deploy[p], [deploy[p] EXCEPT !.out.releases = Filter(@, releases)]} :
          Render(p, "filter", Filtered(p), d)
    BY <1>8 DEF FilterReleases, FilterBlind
  <2>2. pc[p] = "filter"
    BY <2>1 DEF Render
  <2>3. DeployOK("deploy", d, releases)
    BY <1>typed, <2>1, <2>2, FilteredOK
  <2>4. Filtered(p) \in {"done", "deploy"}
    BY DEF Filtered
  <2> QED
    BY <2>1, <2>3, <2>4, RenderKeeps
<1>9. CASE FilterFails(p)
  <2>1. PICK next \in {"done", "failed"} : Render(p, "filter", next, deploy[p])
    BY <1>9 DEF FilterFails
  <2> QED
    BY <2>1, RenderKeeps
<1>10. CASE BoshDeploy(p)
  <2>1. PICK next \in {"done", "failed"} :
          /\ pc' = [pc EXCEPT ![p] = next] /\ releases \subseteq releases'
          /\ deploy' = [deploy EXCEPT ![p] = NoDeploy] /\ work' = [work EXCEPT ![p] = NoWork]
          /\ UNCHANGED <<sourceVars, stemcells, embedded>>
    BY <1>10 DEF BoshDeploy, Goto
  <2>2. next \in PipelineSteps
    BY DEF PipelineSteps, StemcellSteps
  <2>3. WorkOK(p, next, NoWork, Held(stemcells))
    BY NoWorkOK
  <2>4. ProcsOK'
    BY <1>typed, <2>1, <2>2, <2>3, NoWorkType DEF IInv, StemcellsInv, ProcsOK, Held
  <2>5. StemcellsInv'
    BY <2>1, <2>4 DEF IInv, StemcellsInv, SourcesOK, VersionsTrue, sourceVars
  <2>6. ASSUME NEW q \in Deployers PROVE DeployOK(pc'[q], deploy'[q], releases')
    <3>1. DeployOK(pc[q], deploy[q], releases) /\ q \in Procs
      BY DEF IInv, DeploysInv, Procs
    <3>2. CASE q = p
      <4>1. DeployOK(next, NoDeploy, releases')
        BY NoDeployOK
      <4> QED
        BY <1>typed, <2>1, <3>2, <4>1 DEF IInv, DeploysInv, StemcellsInv, ProcsOK
    <3>3. CASE q # p
      <4>1. pc'[q] = pc[q] /\ deploy'[q] = deploy[q]
        BY <1>typed, <2>1, <3>1, <3>3 DEF IInv, DeploysInv, StemcellsInv, ProcsOK
      <4> QED
        BY <2>1, <3>1, <4>1 DEF DeployOK
    <3> QED
      BY <3>2, <3>3
  <2>7. DeploysInv'
    BY <2>1, <2>6 DEF IInv, DeploysInv
  <2> QED
    BY <2>5, <2>7 DEF IInv
<1> QED
  BY <1>1, <1>2, <1>3, <1>4, <1>5, <1>6, <1>7, <1>8, <1>9, <1>10 DEF PipelineStep

-----------------------------------------------------------------------------
\* The invariant is inductive.  It holds when the commands begin.
LEMMA InitIInv == Init => IInv
<1> SUFFICES ASSUME Init PROVE IInv
  OBVIOUS
<1>1. tagged \in [OSes -> Versions] /\ latest \in [OSes -> Versions]
  BY Numbers DEF Init, StemcellsInit
<1>2. local \in [OSes -> [image : Versions \cup {None}, tag : Tags]]
      /\ \A os \in OSes : local[os].tag # Latest => local[os].image = local[os].tag
  <2> DEFINE nothing == [image |-> None, tag |-> Latest]
             pulled == [image : {1}, tag : {1, Latest}]
  <2>1. local \in [OSes -> {nothing} \cup pulled]
    BY DEF Init, StemcellsInit
  <2>2. \A x \in {nothing} \cup pulled :
          x \in [image : Versions \cup {None}, tag : Tags] /\ (x.tag # Latest => x.image = x.tag)
    BY Numbers
  <2> HIDE DEF nothing, pulled
  <2> QED
    BY <2>1, <2>2
<1>3. SourcesOK
  BY <1>1, <1>2 DEF SourcesOK, Init, StemcellsInit
<1>4. stemcells \subseteq Stemcell /\ VersionsTrue
  BY Numbers DEF Init, StemcellsInit, Stemcell, VersionsTrue
<1>5. ProcsOK
  <2>1. pc \in [Procs -> {"begin", "done"}] /\ work = [p \in Procs |-> NoWork]
    BY DEF Init, StemcellsInit
  <2>2. pc \in [Procs -> PipelineSteps] /\ work \in [Procs -> Work]
    BY <2>1, NoWorkType DEF PipelineSteps, StemcellSteps
  <2>3. ASSUME NEW p \in Procs PROVE WorkOK(p, pc[p], work[p], Held(stemcells))
    <3>1. pc[p] \in {"begin", "done"} /\ work[p] = NoWork
      BY <2>1
    <3> QED
      BY <3>1, NoWorkOK
  <2> QED
    BY <2>2, <2>3 DEF ProcsOK
<1>6. DeploysInv
  <2>1. ASSUME NEW p \in Deployers PROVE DeployOK(pc[p], deploy[p], releases)
    <3>1. pc[p] \in {"begin", "done"} /\ deploy[p] = NoDeploy
      BY DEF Init, StemcellsInit, Procs
    <3> QED
      BY <3>1, NoDeployOK
  <2> QED
    BY <2>1 DEF DeploysInv, Init
<1> QED
  BY <1>3, <1>4, <1>5, <1>6 DEF IInv, StemcellsInv

\* Every step keeps it.
LEMMA NextIInv == IInv /\ [Next]_vars => IInv'
<1> SUFFICES ASSUME IInv, [Next]_vars PROVE IInv'
  OBVIOUS
<1>1. ASSUME NEW p \in Deployers, PipelineStep(p) PROVE IInv'
  BY <1>1, PipelineStepKeeps
<1>2. CASE Publishing /\ UNCHANGED <<embedded, releases, deploy>>
  <2>1. StemcellsInv'
    BY <1>2, PublishingKeeps DEF IInv
  <2>2. UNCHANGED pc
    BY <1>2 DEF Publishing, PublishVersion, MoveLatest
  <2> QED
    BY <1>2, <2>1, <2>2 DEF IInv, DeploysInv
<1>3. ASSUME NEW p \in Procs, StemcellStep(p), UNCHANGED <<embedded, releases, deploy>>
      PROVE  IInv'
  <2>1. StemcellsInv'
    BY <1>3, StemcellStepKeeps DEF IInv
  <2>2. DeploysInv'
    BY <1>3, StemcellStepGoes, StepsBetween
  <2> QED
    BY <2>1, <2>2 DEF IInv
<1>4. CASE UNCHANGED vars
  BY <1>4 DEF IInv, StemcellsInv, SourcesOK, VersionsTrue, ProcsOK, DeploysInv, Held,
              vars, stemcellVars, sourceVars
<1> QED
  BY <1>1, <1>2, <1>3, <1>4 DEF Next

\* Every reachable state satisfies the inductive invariant.
THEOREM Invariance == Spec => []IInv
BY InitIInv, NextIInv, PTL DEF Spec

\* What the processes keep is of the types that the code gives it.
THEOREM TypesHold == Spec => []StemcellsTypeOK
<1>1. IInv => StemcellsTypeOK
  BY Numbers DEF IInv, StemcellsInv, SourcesOK, ProcsOK, StemcellsTypeOK
<1> QED
  BY <1>1, Invariance, PTL

\* A stemcell with a version is made of the image of that version, whatever the registry
\* publishes and the tag latest names while the image is resolved (GetImageMetadata).
THEOREM StemcellsAreTheirVersions == Spec => []VersionsTrue
<1>1. IInv => VersionsTrue
  BY DEF IInv, StemcellsInv
<1> QED
  BY <1>1, Invariance, PTL

-----------------------------------------------------------------------------
\* What a deployer ensured and what it hands over are of the same manifest: at is its next
\* step, d the record of its command, required what it ensured, cf the embedded manifest.
RequiredOK(at, d, required, cf) ==
  /\ at = "begin" => d.op = "cf"
  /\ required \in {<<>>, cf.stemcells}
  /\ d.op # "cf" => required = <<>>
  /\ at \in {"consolidate", "filter", "deploy"} /\ d.op # "bosh" => d.out.stemcells = cf.stemcells

RequiredInv == \A p \in Deployers : RequiredOK(pc[p], deploy[p], work[p].required, embedded.cf)

\* While stemcells are ensured, what is required stays, or is gone with the command.
LEMMA StemcellStepRequires ==
  ASSUME IInv, NEW p \in Procs, StemcellStep(p)
  PROVE  \E next \in StemcellSteps \ {"begin"} : \E mine :
           /\ pc' = [pc EXCEPT ![p] = next] /\ work' = [work EXCEPT ![p] = mine]
           /\ p \in Deployers => mine.required \in {work[p].required, <<>>}
<1> DEFINE w == work[p]
           Goes == \E next \in StemcellSteps \ {"begin"} : \E mine :
                     /\ pc' = [pc EXCEPT ![p] = next] /\ work' = [work EXCEPT ![p] = mine]
                     /\ p \in Deployers => mine.required \in {w.required, <<>>}
<1> SUFFICES Goes
  OBVIOUS
<1>1. w \in Work /\ NoWork.required = <<>>
  BY DEF IInv, StemcellsInv, ProcsOK, NoWork
<1>2. ASSUME NEW from, NEW next \in StemcellSteps \ {"begin"}, NEW mine,
             Step(p, from, next, mine), p \in Deployers => mine.required = w.required
      PROVE  Goes
  <2> DEFINE left == IF next \in {"done", "failed"} THEN NoWork ELSE mine
  <2>1. pc' = [pc EXCEPT ![p] = next] /\ work' = [work EXCEPT ![p] = left]
    BY <1>2 DEF Step, Goto
  <2>2. p \in Deployers => left.required \in {w.required, <<>>}
    BY <1>1, <1>2
  <2> HIDE DEF left
  <2> QED
    BY <2>1, <2>2
<1> HIDE DEF Goes
<1>3. /\ {FirstCall, Resolved(p), Failed(p)} \subseteq StemcellSteps \ {"begin"}
      /\ {"list", "next", "check", "done", "upload", "ensured", "tags", "local", "agent"}
           \subseteq StemcellSteps \ {"begin"}
  BY DEF FirstCall, Resolved, Failed, StemcellSteps, Resolving
<1>4. ASSUME p \in Deployers PROVE p \notin Uploaders
  BY <1>4, StemcellsAssumption
<1>5. CASE BeginStart(p)
  BY <1>2, <1>3, <1>4, <1>5 DEF BeginStart
<1>6. CASE BeginUpload(p)
  <2>1. PICK argument \in Arguments :
          /\ p \in Uploaders
          /\ Step(p, "begin", FirstCall, Resolve(p, argument[1], argument[2]))
    BY <1>6 DEF BeginUpload
  <2> QED
    BY <1>2, <1>3, <1>4, <2>1
<1>7. CASE List(p)
  <2>1. [w EXCEPT !.listed = Held(stemcells)].required = w.required
    BY <1>1 DEF Work
  <2> QED
    BY <1>2, <1>3, <1>7, <2>1 DEF List
<1>8. CASE ListFails(p) \/ UploadFails(p) \/ ManifestGetFails(p) \/ NoVersionTag(p)
  BY <1>2, <1>3, <1>8 DEF ListFails, UploadFails, ManifestGetFails, NoVersionTag
<1>9. CASE NextRequirement(p)
  <2>1. [w EXCEPT !.todo = Tail(@)].required = w.required
    BY <1>1 DEF Work
  <2>2. \A os, tag : [Resolve(p, os, tag) EXCEPT !.todo = Tail(@)].required = w.required
    BY <1>1 DEF Resolve, Work
  <2> QED
    BY <1>2, <1>3, <1>9, <2>1, <2>2 DEF NextRequirement
<1>10. CASE Check(p)
  BY <1>2, <1>3, <1>10 DEF Check
<1>11. CASE ManifestGet(p)
  <2>1. [w EXCEPT !.image = ImageOf(w.os, w.tag), !.version = w.tag].required = w.required
    BY <1>1 DEF Work
  <2> QED
    BY <1>2, <1>3, <1>11, <2>1 DEF ManifestGet
<1>12. CASE FindVersionTagForDigest(p)
  <2>1. [w EXCEPT !.version = w.image].required = w.required
    BY <1>1 DEF Work
  <2> QED
    BY <1>2, <1>3, <1>12, <2>1 DEF FindVersionTagForDigest
<1>13. CASE AskLocal(p)
  <2>1. \A image, version : [w EXCEPT !.image = image, !.version = version].required = w.required
    BY <1>1 DEF Work
  <2>2. \/ Step(p, "local", Failed(p), w) \/ Step(p, "local", Resolved(p), w)
        \/ \E image, version :
              Step(p, "local", Resolved(p), [w EXCEPT !.image = image, !.version = version])
    BY <1>13 DEF AskLocal
  <2> QED
    BY <1>2, <1>3, <2>1, <2>2
<1>14. CASE ResolvePlain(p) \/ ResolveAgent(p)
  <2>1. \A version : [w EXCEPT !.version = version, !.image = version].required = w.required
    BY <1>1 DEF Work
  <2>2. PICK from \in {"plain", "agent"}, otherwise \in {"agent", Failed(p)} :
          \/ Step(p, from, otherwise, w)
          \/ \E version : Step(p, from, "upload", [w EXCEPT !.version = version, !.image = version])
    BY <1>14 DEF ResolvePlain, ResolveAgent, Answer
  <2> QED
    BY <1>2, <1>3, <2>1, <2>2
<1>15. CASE Upload(p)
  <2>1. /\ pc' = [pc EXCEPT ![p] = IF p \in Deployers THEN "next" ELSE "done"]
        /\ work' = IF p \in Deployers THEN work ELSE [work EXCEPT ![p] = NoWork]
    BY <1>15 DEF Upload, Goto
  <2>2. work = [work EXCEPT ![p] = w]
    BY DEF IInv, StemcellsInv, ProcsOK
  <2> QED
    BY <1>3, <2>1, <2>2 DEF Goes
<1> QED
  BY <1>5, <1>6, <1>7, <1>8, <1>9, <1>10, <1>11, <1>12, <1>13, <1>14, <1>15
     DEF StemcellStep, Goes

\* A process goes on: what a deployer has then must be of one manifest.
LEMMA RequiredGoesOn ==
  ASSUME IInv, RequiredInv, UNCHANGED embedded, NEW p \in Procs, NEW next, NEW mine, NEW d,
         pc' = [pc EXCEPT ![p] = next], work' = [work EXCEPT ![p] = mine],
         \/ deploy' = [deploy EXCEPT ![p] = d]
         \/ UNCHANGED deploy /\ (p \in Deployers => d = deploy[p]),
         p \in Deployers => RequiredOK(next, d, mine.required, embedded.cf)
  PROVE  RequiredInv'
<1>1. ASSUME NEW q \in Deployers
      PROVE  RequiredOK(pc'[q], deploy'[q], work'[q].required, embedded.cf)
  <2>1. RequiredOK(pc[q], deploy[q], work[q].required, embedded.cf) /\ q \in Procs
    BY DEF RequiredInv, Procs
  <2>2. CASE q = p
    <3>1. pc'[q] = next /\ work'[q] = mine /\ deploy'[q] = d
      BY <2>1, <2>2 DEF IInv, StemcellsInv, ProcsOK, DeploysInv
    <3> QED
      BY <2>2, <3>1
  <2>3. CASE q # p
    <3>1. pc'[q] = pc[q] /\ work'[q] = work[q] /\ deploy'[q] = deploy[q]
      BY <2>1, <2>3 DEF IInv, StemcellsInv, ProcsOK, DeploysInv
    <3> QED
      BY <2>1, <3>1
  <2> QED
    BY <2>2, <2>3
<1> QED
  BY <1>1 DEF RequiredInv

\* Without a step on stemcells: in a step of its own command, which may also end.
LEMMA RenderRequired ==
  ASSUME IInv, RequiredInv, NEW p \in Deployers, NEW from, NEW next, NEW mine,
         Render(p, from, next, mine), next # "begin",
         next \notin {"done", "failed"} => RequiredOK(next, mine, work[p].required, embedded.cf)
  PROVE  RequiredInv'
<1> DEFINE d == IF next \in {"done", "failed"} THEN NoDeploy ELSE mine
<1>1. /\ pc' = [pc EXCEPT ![p] = next] /\ deploy' = [deploy EXCEPT ![p] = d]
      /\ UNCHANGED <<work, embedded>>
  BY DEF Render, Goto
<1>2. p \in Procs /\ work' = [work EXCEPT ![p] = work[p]]
  BY <1>1 DEF Procs, IInv, StemcellsInv, ProcsOK
<1>3. RequiredOK(next, d, work[p].required, embedded.cf)
  <2>1. CASE next \in {"done", "failed"}
    <3>1. work[p].required \in {<<>>, embedded.cf.stemcells} /\ d.op = "cf"
      BY <2>1 DEF RequiredInv, RequiredOK, NoDeploy
    <3> QED
      BY <2>1, <3>1 DEF RequiredOK
  <2>2. CASE next \notin {"done", "failed"}
    BY <2>2
  <2> QED
    BY <2>1, <2>2
<1> HIDE DEF d
<1> QED
  BY <1>1, <1>2, <1>3, RequiredGoesOn

\* Every step of the pipeline.
LEMMA PipelineStepRequired ==
  ASSUME IInv, RequiredInv, NEW p \in Deployers, PipelineStep(p)
  PROVE  RequiredInv'
<1> DEFINE cf == embedded.cf
           w == work[p]
<1>typed. /\ p \in Procs /\ embedded \in Docs
          /\ RequiredOK(pc[p], deploy[p], w.required, cf)
          /\ pc[p] = "begin" => w.required = <<>>
          /\ {"op", "out"} \subseteq DOMAIN deploy[p] /\ Fields \subseteq DOMAIN deploy[p].out
  BY DEF IInv, StemcellsInv, ProcsOK, WorkOK, DeployerKnows, NoWork, DeploysInv, DeployOK,
         RequiredInv, Procs
<1>1. CASE BeginCF(p)
  <2>1. PICK m \in RenderedCF(embedded) : BeginEnsure(p, m.stemcells)
    BY <1>1 DEF BeginCF
  <2> DEFINE mine == [NoWork EXCEPT !.required = m.stemcells, !.todo = m.stemcells]
  <2>2. /\ pc[p] = "begin" /\ pc' = [pc EXCEPT ![p] = "list"] /\ work' = [work EXCEPT ![p] = mine]
        /\ UNCHANGED <<embedded, deploy>>
    BY <1>1, <2>1 DEF BeginCF, BeginEnsure, Step, Goto
  <2>3. mine.required = cf.stemcells
    BY <1>typed, CFRendered DEF RenderedOf, NoWork
  <2> HIDE DEF mine
  <2>4. RequiredOK("list", deploy[p], mine.required, cf)
    BY <1>typed, <2>2, <2>3 DEF RequiredOK
  <2> QED
    BY <1>typed, <2>2, <2>4, RequiredGoesOn
<1>2. CASE BeginFails(p) \/ InterpolateFails(p) \/ FilterFails(p)
  <2>1. PICK from \in {"begin", "ensured", "filter"}, next \in {"done", "failed"},
             d \in {NoDeploy, deploy[p]} : Render(p, from, next, d)
    BY <1>2 DEF BeginFails, InterpolateFails, FilterFails
  <2> QED
    BY <2>1, RenderRequired
<1>3. CASE BeginWithoutStemcells(p)
  <2>1. PICK op \in Ops : Render(p, "begin", "ensured", [NoDeploy EXCEPT !.op = op])
    BY <1>3 DEF BeginWithoutStemcells
  <2>2. w.required = <<>>
    BY <1>typed, <2>1 DEF Render
  <2>3. \A d : RequiredOK("ensured", d, w.required, cf)
    BY <2>2 DEF RequiredOK
  <2> QED
    BY <2>1, <2>3, RenderRequired
<1>4. CASE Interpolate(p)
  <2>1. PICK m \in RenderedCF(embedded) :
          Render(p, "ensured", "consolidate", [deploy[p] EXCEPT !.out = m])
    BY <1>4 DEF Interpolate
  <2> DEFINE d == [deploy[p] EXCEPT !.out = m]
  <2>2. m.stemcells = cf.stemcells
    BY <1>typed, CFRendered DEF RenderedOf
  <2>3. d.out = m /\ d.op = deploy[p].op
    BY <1>typed
  <2> HIDE DEF d
  <2>4. RequiredOK("consolidate", d, w.required, cf)
    BY <1>typed, <2>2, <2>3 DEF RequiredOK
  <2> QED
    BY <2>1, <2>4, RenderRequired DEF d
<1>5. CASE InterpolateBOSHManifest(p)
  <2>1. PICK m \in BOSHManifests :
          Render(p, "ensured", "filter", [deploy[p] EXCEPT !.out = m])
    BY <1>5 DEF InterpolateBOSHManifest
  <2> DEFINE d == [deploy[p] EXCEPT !.out = m]
  <2>2. d.op = "bosh" /\ deploy[p].op = "bosh"
    BY <1>5 DEF InterpolateBOSHManifest
  <2> HIDE DEF d
  <2>3. RequiredOK("filter", d, w.required, cf)
    BY <1>typed, <2>2 DEF RequiredOK
  <2> QED
    BY <2>1, <2>3, RenderRequired DEF d
<1>6. CASE ConsolidateGroups(p)
  <2>1. CASE ~ValidMapping(deploy[p].out.groups)
    BY <1>6, <2>1, RenderRequired DEF ConsolidateGroups
  <2>2. CASE ValidMapping(deploy[p].out.groups)
    <3> DEFINE m == deploy[p].out
               c == ConsolidateInstanceGroups(m)
               d == [deploy[p] EXCEPT !.out = c]
    <3>1. Render(p, "consolidate", "filter", d)
      BY <1>6, <2>2 DEF ConsolidateGroups
    <3>2. pc[p] = "consolidate"
      BY <3>1 DEF Render
    <3>3. c.stemcells = m.stemcells
      BY <1>typed DEF ConsolidateInstanceGroups, Fields
    <3>4. d.out = c /\ d.op = deploy[p].op
      BY <1>typed
    <3> HIDE DEF c, d
    <3>5. RequiredOK("filter", d, w.required, cf)
      BY <1>typed, <3>2, <3>3, <3>4 DEF RequiredOK
    <3> QED
      BY <3>1, <3>5, RenderRequired
  <2> QED
    BY <2>1, <2>2
<1>7. CASE FilterReleases(p) \/ FilterBlind(p)
  <2> DEFINE rs == Filter(deploy[p].out.releases, releases)
             out == [deploy[p].out EXCEPT !.releases = rs]
             e == [deploy[p] EXCEPT !.out = out]
  <2>1. PICK d \in {deploy[p], e} : Render(p, "filter", Filtered(p), d)
    BY <1>7 DEF FilterReleases, FilterBlind
  <2>2. pc[p] = "filter"
    BY <2>1 DEF Render
  <2>3. e.op = deploy[p].op /\ e.out.stemcells = deploy[p].out.stemcells
    BY <1>typed DEF Fields
  <2> HIDE DEF e
  <2>4. RequiredOK("deploy", d, w.required, cf)
    BY <1>typed, <2>1, <2>2, <2>3 DEF RequiredOK
  <2>5. Filtered(p) \in {"done", "deploy"}
    BY DEF Filtered
  <2> QED
    BY <2>1, <2>4, <2>5, RenderRequired
<1>8. CASE BoshDeploy(p)
  <2>1. PICK next \in {"done", "failed"} :
          /\ pc' = [pc EXCEPT ![p] = next] /\ work' = [work EXCEPT ![p] = NoWork]
          /\ deploy' = [deploy EXCEPT ![p] = NoDeploy] /\ UNCHANGED embedded
    BY <1>8 DEF BoshDeploy, Goto
  <2>2. RequiredOK(next, NoDeploy, NoWork.required, cf)
    BY DEF RequiredOK, NoWork, NoDeploy
  <2> QED
    BY <1>typed, <2>1, <2>2, RequiredGoesOn
<1> QED
  BY <1>1, <1>2, <1>3, <1>4, <1>5, <1>6, <1>7, <1>8 DEF PipelineStep

\* What was ensured is what the handed manifest asks for, whatever the ops files did.
LEMMA RequiredInvariance == Spec => []RequiredInv
<1>1. Init => RequiredInv
  <2> SUFFICES ASSUME Init, NEW p \in Deployers
               PROVE  RequiredOK(pc[p], deploy[p], work[p].required, embedded.cf)
    BY DEF RequiredInv
  <2>1. pc[p] \in {"begin", "done"} /\ work[p].required = <<>> /\ deploy[p].op = "cf"
    BY DEF Init, StemcellsInit, Procs, NoWork, NoDeploy
  <2> QED
    BY <2>1 DEF RequiredOK
<1>2. IInv /\ RequiredInv /\ [Next]_vars => RequiredInv'
  <2> SUFFICES ASSUME IInv, RequiredInv, [Next]_vars PROVE RequiredInv'
    OBVIOUS
  <2>1. ASSUME NEW p \in Deployers, PipelineStep(p) PROVE RequiredInv'
    BY <2>1, PipelineStepRequired
  <2>2. CASE Publishing /\ UNCHANGED <<embedded, releases, deploy>>
    BY <2>2 DEF Publishing, PublishVersion, MoveLatest, RequiredInv
  <2>3. ASSUME NEW p \in Procs, StemcellStep(p), UNCHANGED <<embedded, releases, deploy>>
        PROVE  RequiredInv'
    <3>1. PICK next \in StemcellSteps \ {"begin"} : \E mine :
            /\ pc' = [pc EXCEPT ![p] = next] /\ work' = [work EXCEPT ![p] = mine]
            /\ p \in Deployers => mine.required \in {work[p].required, <<>>}
      BY <2>3, StemcellStepRequires
    <3> PICK mine :
          /\ pc' = [pc EXCEPT ![p] = next] /\ work' = [work EXCEPT ![p] = mine]
          /\ p \in Deployers => mine.required \in {work[p].required, <<>>}
      BY <3>1
    <3>2. next \notin {"begin", "consolidate", "filter", "deploy"}
      BY DEF StemcellSteps, Resolving
    <3>3. p \in Deployers => RequiredOK(next, deploy[p], mine.required, embedded.cf)
      BY <3>2 DEF RequiredInv, RequiredOK
    <3> QED
      BY <2>3, <3>3, RequiredGoesOn
  <2>4. CASE UNCHANGED vars
    BY <2>4 DEF RequiredInv, vars, stemcellVars, sourceVars
  <2> QED
    BY <2>1, <2>2, <2>3, <2>4 DEF Next
<1> QED
  BY <1>1, <1>2, Invariance, PTL DEF Spec

\* Of what is handed to the director the releases that lost their URL are there, and, if
\* the command ensured stemcells, all that the manifest asks for were there or were
\* uploaded (EnsureStemcells, Filter). bosh deploy and --skip-stemcell-upload ensure none.
THEOREM NothingIsMissing == Spec => []NothingMissing
<1>1. ASSUME IInv, RequiredInv PROVE NothingMissing
  <2>1. ASSUME NEW p \in Handed
        PROVE  /\ \A r \in ToSet(work[p].required) : Satisfied(r, Held(stemcells))
               /\ \A r \in ToSet(deploy[p].out.releases) :
                    r.url \/ <<r.name, r.version>> \in releases
               /\ work[p].required # <<>> => deploy[p].out.stemcells = work[p].required
    <3>1. p \in Deployers /\ p \in Procs /\ pc[p] = "deploy"
      BY DEF Handed, Procs
    <3>2. /\ WorkOK(p, "deploy", work[p], Held(stemcells))
          /\ DeployOK("deploy", deploy[p], releases)
          /\ RequiredOK("deploy", deploy[p], work[p].required, embedded.cf)
      BY <1>1, <3>1 DEF IInv, StemcellsInv, ProcsOK, DeploysInv, RequiredInv
    <3>3. Ensuring("deploy", work[p], Held(stemcells)) /\ work[p].todo = <<>>
      BY <3>1, <3>2 DEF WorkOK, DeployerKnows
    <3>4. ToSet(work[p].todo) = {}
      BY <3>3 DEF ToSet
    <3> QED
      BY <3>2, <3>3, <3>4 DEF Ensuring, Resolving, DeployOK, RequiredOK
  <2> QED
    BY <2>1 DEF NothingMissing, Ensured
<1> QED
  BY <1>1, Invariance, RequiredInvariance, PTL

\* The ops files of bosh deploy apply to the embedded bosh.yml, and whatever either command
\* hands to the director is a manifest for a director, with stemcells, whose releases name
\* in their stemcell sections only versions that it asks for (PrepareManifest,
\* CompiledReleasesStemcell).
THEOREM HandedIsDeployable == Spec => []Deployable
<1>1. ASSUME IInv PROVE Deployable
  <2>1. ASSUME NEW p \in Handed PROVE Coherent(deploy[p].out)
    <3>1. p \in Deployers /\ pc[p] = "deploy"
      BY DEF Handed
    <3> QED
      BY <1>1, <3>1 DEF IInv, DeploysInv, DeployOK
  <2> QED
    BY <2>1, BOSHCoherent DEF Deployable, Coherent
<1> QED
  BY <1>1, Invariance, PTL

-----------------------------------------------------------------------------
(***************************************************************************)
(* Consolidation: what becomes of the jobs of a group, and that what a     *)
(* deployer hands over has the embedded groups consolidated (GroupsInv).   *)
(***************************************************************************)

\* A job of cf-deployment.yml.
CFJob == [name : STRING, routes : Seq(STRING)]

\* One job more is one that is there, with the routes of both, or a new one at the end.
LEMMA AddJobType ==
  ASSUME NEW jobs \in Seq(CFJob), NEW job \in CFJob
  PROVE  AddJob(jobs, job) \in Seq(CFJob)
<1>1. CASE \A i \in DOMAIN jobs : jobs[i].name # job.name
  BY <1>1 DEF AddJob
<1>2. CASE ~(\A i \in DOMAIN jobs : jobs[i].name # job.name)
  <2> DEFINE Joined(i) == [jobs[i] EXCEPT !.routes = @ \o job.routes]
             Same(i) == jobs[i].name = job.name /\ job.name = "route_registrar"
             new == [i \in DOMAIN jobs |-> IF Same(i) THEN Joined(i) ELSE jobs[i]]
  <2>1. AddJob(jobs, job) = new
    BY <1>2 DEF AddJob
  <2>2. ASSUME NEW i \in DOMAIN jobs PROVE jobs[i] \in CFJob /\ Joined(i) \in CFJob
    <3>1. jobs[i] \in CFJob
      OBVIOUS
    <3>2. jobs[i].routes \o job.routes \in Seq(STRING)
      BY <3>1 DEF CFJob
    <3> QED
      BY <3>1, <3>2 DEF CFJob
  <2>3. DOMAIN jobs = 1 .. Len(jobs) /\ Len(jobs) \in Nat
    OBVIOUS
  <2> HIDE DEF Joined, Same
  <2>4. new \in [1 .. Len(jobs) -> CFJob]
    BY <2>2, <2>3
  <2> HIDE DEF new
  <2> QED
    BY <2>1, <2>3, <2>4, SeqDef
<1> QED
  BY <1>1, <1>2

\* What merging makes of the first jobs, one after the other.
IsAdding(f, jobs) ==
  /\ f \in [0 .. Len(jobs) -> Seq(CFJob)]
  /\ f[0] = <<>>
  /\ \A n \in 0 .. Len(jobs) - 1 : f[n + 1] = AddJob(f[n], jobs[n + 1])

\* The fold that merging is.
LEMMA AddJobFold ==
  ASSUME NEW jobs \in Seq(CFJob)
  PROVE  \E f : IsAdding(f, jobs) /\ FoldLeft(AddJob, <<>>, jobs) = f[Len(jobs)]
<1> DEFINE N == Len(jobs)
           V == Seq(CFJob)
           op == [i \in 1 .. N |-> [x \in V |-> AddJob(x, jobs[i])]]
           Eq(g) == g = [s \in SUBSET DOMAIN jobs |->
                           IF s = {} THEN <<>> ELSE AddJob(g[s \ {Max(s)}], jobs[Max(s)])]
<1>1. N \in Nat /\ DOMAIN jobs = 1 .. N /\ <<>> \in V /\ \A i \in 1 .. N : jobs[i] \in CFJob
  OBVIOUS
<1>2. op \in [1 .. N -> [V -> V]]
  <2>1. \A i \in 1 .. N : \A x \in V : AddJob(x, jobs[i]) \in V
    BY <1>1, AddJobType
  <2> HIDE DEF V, N
  <2> QED
    BY <2>1
<1>3. \E g : Eq(g)
  <2>1. HasFold(N, V, <<>>, op)
    <3> HIDE DEF N, V, op
    <3> QED
      BY <1>1, <1>2, FoldExists
  <2>2. PICK g \in [SUBSET (1 .. N) -> V] :
          \A s \in SUBSET (1 .. N) :
            g[s] = IF s = {} THEN <<>> ELSE op[Max(s)][g[s \ {Max(s)}]]
    <3> HIDE DEF N, V, op
    <3> QED
      BY <2>1, Zenon DEF HasFold
  <2>3. ASSUME NEW s \in SUBSET (1 .. N), s # {}
        PROVE  g[s] = AddJob(g[s \ {Max(s)}], jobs[Max(s)])
    <3>1. Max(s) \in 1 .. N
      <4>1. Max(s) \in s
        BY <1>1, <2>3, MaxIsMember
      <4> QED
        BY <4>1
    <3>2. g[s \ {Max(s)}] \in V
      <4> HIDE DEF V, N
      <4> QED
        BY <2>2
    <3>3. g[s] = op[Max(s)][g[s \ {Max(s)}]]
      <4> HIDE DEF V, N, op
      <4> QED
        BY <2>2, <2>3
    <3> HIDE DEF V, N
    <3> QED
      BY <3>1, <3>2, <3>3
  <2>4. g[{}] = <<>> /\ g = [s \in SUBSET (1 .. N) |-> g[s]]
    <3> HIDE DEF N, V, op
    <3> QED
      BY <2>2
  <2>5. Eq(g)
    <3> HIDE DEF N, V, op
    <3> QED
      BY <1>1, <2>3, <2>4
  <2> HIDE DEF Eq
  <2> QED
    BY <2>5
<1>4. PICK g : Eq(g) /\ FoldLeft(AddJob, <<>>, jobs) = g[DOMAIN jobs]
  <2> DEFINE c == CHOOSE g : Eq(g)
  <2>1. FoldLeft(AddJob, <<>>, jobs) = c[DOMAIN jobs]
    BY DEF FoldLeft, MapThenFoldSet
  <2>2. Eq(c)
    <3> HIDE DEF Eq
    <3> QED
      BY <1>3
  <2> HIDE DEF c, Eq
  <2> QED
    BY <2>1, <2>2
<1>5. g[{}] = <<>>
  BY <1>4
<1>6. ASSUME NEW n \in 0 .. N - 1, g[1 .. n] \in V
      PROVE  g[1 .. n + 1] = op[n + 1][g[1 .. n]]
  <2>1. Max(1 .. n + 1) = n + 1 /\ (1 .. n + 1) \ {n + 1} = 1 .. n
    <3>1. n \in Nat
      BY <1>1
    <3> QED
      BY <3>1, MaxOfInterval
  <2>2. 1 .. n + 1 \in SUBSET (1 .. N) /\ 1 .. n + 1 # {} /\ n + 1 \in 1 .. N
    BY <1>1, IntervalsGrow
  <2>3. g[1 .. n + 1] = AddJob(g[1 .. n], jobs[n + 1])
    <3> DEFINE s == 1 .. n + 1
    <3>1. s \in SUBSET DOMAIN jobs /\ s # {}
      BY <1>1, <2>2
    <3> HIDE DEF s
    <3>2. g[s] = AddJob(g[s \ {Max(s)}], jobs[Max(s)])
      BY <1>4, <3>1
    <3> QED
      BY <2>1, <3>2 DEF s
  <2> HIDE DEF V, N
  <2> QED
    BY <1>6, <2>2, <2>3
<1>7. PICK f : IsFold(f, N, <<>>, V, op) /\ g[1 .. N] = f[N]
  <2> HIDE DEF N, V, op, Eq
  <2>1. Builds(g, N, <<>>, V, op)
    BY <1>5, <1>6 DEF Builds
  <2>2. HasPrefixes(g, N, <<>>, V, op)
    BY <1>1, <1>2, <2>1, FoldPrefixes
  <2> QED
    BY <2>2, Zenon DEF HasPrefixes
<1>8. ASSUME NEW n \in 0 .. N - 1 PROVE f[n + 1] = AddJob(f[n], jobs[n + 1])
  <2>1. n \in 0 .. N /\ n + 1 \in 1 .. N
    BY <1>1
  <2>2. f[n] \in V /\ f[n + 1] = op[n + 1][f[n]]
    <3> HIDE DEF V, op
    <3> QED
      BY <1>7, <2>1 DEF IsFold
  <2> HIDE DEF V, N
  <2> QED
    BY <2>1, <2>2
<1>9. IsAdding(f, jobs)
  <2> HIDE DEF op
  <2> QED
    BY <1>7, <1>8 DEF IsAdding, IsFold
<1> HIDE DEF Eq
<1> QED
  BY <1>1, <1>4, <1>7, <1>9

\* Only a route_registrar has routes.
RoutesRegistered(jobs) ==
  \A job \in ToSet(jobs) : job.name # "route_registrar" => job.routes = <<>>

Distinct(jobs) == \A i, j \in 1 .. Len(jobs) : i # j => jobs[i].name # jobs[j].name

\* A job is among others: with its name and its routes.
Has(jobs, job) ==
  \E i \in 1 .. Len(jobs) :
    jobs[i].name = job.name /\ ToSet(job.routes) \subseteq ToSet(jobs[i].routes)

\* One job more: names stay distinct, what was there stays, and the job is there.
LEMMA AddJobKeeps ==
  ASSUME NEW jobs \in Seq(CFJob), NEW job \in CFJob, Distinct(jobs),
         job.name # "route_registrar" => job.routes = <<>>
  PROVE  LET more == AddJob(jobs, job)
         IN  /\ Distinct(more) /\ Has(more, job)
             /\ \A other \in CFJob : Has(jobs, other) => Has(more, other)
             /\ \A i \in 1 .. Len(more) :
                  more[i].name = job.name \/ \E j \in 1 .. Len(jobs) : more[i].name = jobs[j].name
<1> DEFINE more == AddJob(jobs, job)
<1>0. Len(jobs) \in Nat /\ DOMAIN jobs = 1 .. Len(jobs) /\ \A i \in 1 .. Len(jobs) : jobs[i] \in CFJob
  OBVIOUS
<1>1. CASE \A i \in DOMAIN jobs : jobs[i].name # job.name
  <2>1. more = Append(jobs, job)
    BY <1>1 DEF AddJob
  <2>2. /\ Len(more) = Len(jobs) + 1 /\ more[Len(jobs) + 1] = job
        /\ \A i \in 1 .. Len(jobs) : more[i] = jobs[i]
    BY <2>1
  <2> HIDE DEF more
  <2>3. \A i \in 1 .. Len(more) : i \in 1 .. Len(jobs) \/ i = Len(jobs) + 1
    BY <1>0, <2>2
  <2>4. 1 .. Len(jobs) \subseteq 1 .. Len(more) /\ Len(jobs) + 1 \in 1 .. Len(more)
    BY <1>0, <2>2
  <2>5. Distinct(more)
    BY <1>0, <1>1, <2>2, <2>3 DEF Distinct
  <2>6. Has(more, job)
    BY <2>2, <2>4 DEF Has
  <2>7. \A other \in CFJob : Has(jobs, other) => Has(more, other)
    BY <2>2, <2>4 DEF Has
  <2>8. \A i \in 1 .. Len(more) :
          more[i].name = job.name \/ \E j \in 1 .. Len(jobs) : more[i].name = jobs[j].name
    BY <2>2, <2>3
  <2> QED
    BY <2>5, <2>6, <2>7, <2>8 DEF more
<1>2. CASE ~(\A i \in DOMAIN jobs : jobs[i].name # job.name)
  <2> DEFINE Joined(i) == [jobs[i] EXCEPT !.routes = @ \o job.routes]
             Same(i) == jobs[i].name = job.name /\ job.name = "route_registrar"
  <2>1. more = [i \in DOMAIN jobs |-> IF Same(i) THEN Joined(i) ELSE jobs[i]]
    BY <1>2 DEF AddJob
  <2>2. more \in Seq(CFJob)
    BY AddJobType
  <2>3. DOMAIN more = 1 .. Len(more) /\ Len(more) \in Nat
    <3> HIDE DEF more
    <3> QED
      BY <2>2
  <2>4. Len(more) = Len(jobs)
    <3>1. DOMAIN more = 1 .. Len(jobs)
      BY <1>0, <2>1
    <3> HIDE DEF more
    <3> QED
      BY <1>0, <2>2, <3>1, LenDomain
  <2>5. ASSUME NEW i \in 1 .. Len(jobs)
        PROVE  /\ more[i].name = jobs[i].name
               /\ ToSet(jobs[i].routes) \subseteq ToSet(more[i].routes)
               /\ jobs[i].name = job.name => ToSet(job.routes) \subseteq ToSet(more[i].routes)
    <3>1. more[i] = IF Same(i) THEN Joined(i) ELSE jobs[i]
      BY <1>0, <2>1
    <3>2. jobs[i].routes \in Seq(STRING) /\ job.routes \in Seq(STRING) /\ jobs[i] \in CFJob
      BY <1>0 DEF CFJob
    <3>3. /\ Joined(i).name = jobs[i].name
          /\ Joined(i).routes = jobs[i].routes \o job.routes
      BY <3>2 DEF CFJob
    <3> HIDE DEF more, Joined
    <3>4. CASE Same(i)
      <4>0. more[i].routes = jobs[i].routes \o job.routes
        BY <3>1, <3>3, <3>4
      <4>1. ToSet(jobs[i].routes \o job.routes) = ToSet(jobs[i].routes) \cup ToSet(job.routes)
        BY <3>2, JoinedMembers
      <4> QED
        BY <3>1, <3>3, <3>4, <4>0, <4>1
    <3>5. CASE ~Same(i)
      <4>1. jobs[i].name = job.name => job.routes = <<>>
        BY <3>5
      <4>2. ToSet(<<>>) = {}
        BY DEF ToSet
      <4> QED
        BY <3>1, <3>5, <4>1, <4>2
    <3> QED
      BY <3>4, <3>5
  <2> HIDE DEF more, Joined, Same
  <2>6. Distinct(more)
    BY <2>4, <2>5 DEF Distinct
  <2>7. Has(more, job)
    <3>1. PICK i \in 1 .. Len(jobs) : jobs[i].name = job.name
      BY <1>0, <1>2
    <3> QED
      BY <2>4, <2>5, <3>1 DEF Has
  <2>8. ASSUME NEW other \in CFJob, Has(jobs, other) PROVE Has(more, other)
    <3>1. PICK i \in 1 .. Len(jobs) :
            jobs[i].name = other.name /\ ToSet(other.routes) \subseteq ToSet(jobs[i].routes)
      BY <2>8 DEF Has
    <3>2. more[i].name = other.name /\ ToSet(other.routes) \subseteq ToSet(more[i].routes)
      BY <2>5, <3>1
    <3> QED
      BY <2>4, <3>2 DEF Has
  <2>9. \A i \in 1 .. Len(more) : \E j \in 1 .. Len(jobs) : more[i].name = jobs[j].name
    BY <2>4, <2>5
  <2> QED
    BY <2>6, <2>7, <2>8, <2>9 DEF more
<1> QED
  BY <1>1, <1>2

\* The jobs of a group once they are merged: each name once, with all the routes.
LEMMA MergedJobs ==
  ASSUME NEW jobs \in Seq(CFJob), RoutesRegistered(jobs)
  PROVE  LET all == FoldLeft(AddJob, <<>>, jobs)
         IN  /\ all \in Seq(CFJob) /\ Distinct(all)
             /\ \A job \in ToSet(jobs) : Has(all, job)
             /\ \A i \in 1 .. Len(all) : \E job \in ToSet(jobs) : all[i].name = job.name
<1> DEFINE N == Len(jobs)
           Names(n) == {jobs[k].name : k \in 1 .. n}
<1>1. PICK f : IsAdding(f, jobs) /\ FoldLeft(AddJob, <<>>, jobs) = f[N]
  BY AddJobFold
<1>2. N \in Nat /\ \A i \in 1 .. N : jobs[i] \in CFJob /\ jobs[i] \in ToSet(jobs)
  BY DEF ToSet
<1> DEFINE Fine(n) == /\ Distinct(f[n])
                      /\ \A k \in 1 .. n : Has(f[n], jobs[k])
                      /\ \A i \in 1 .. Len(f[n]) : f[n][i].name \in Names(n)
           T == {n \in Nat : n <= N => Fine(n)}
<1>3. 0 \in T
  <2>1. f[0] = <<>>
    BY <1>1 DEF IsAdding
  <2> QED
    BY <2>1 DEF Distinct
<1>4. ASSUME NEW n \in T PROVE n + 1 \in T
  <2> SUFFICES ASSUME n + 1 <= N PROVE Fine(n + 1)
    <3> HIDE DEF Fine
    <3> QED
      OBVIOUS
  <2>1. /\ n \in Nat /\ n \in 0 .. N - 1 /\ n \in 0 .. N /\ n + 1 \in 1 .. N
        /\ \A k \in 1 .. n + 1 : k \in 1 .. n \/ k = n + 1
        /\ 1 .. n \subseteq 1 .. N /\ 1 .. n \subseteq 1 .. n + 1 /\ n + 1 \in 1 .. n + 1
    BY <1>2
  <2>2. Fine(n)
    <3> HIDE DEF Fine
    <3> QED
      BY <2>1
  <2>3. f[n] \in Seq(CFJob) /\ f[n + 1] = AddJob(f[n], jobs[n + 1])
    BY <1>1, <2>1 DEF IsAdding
  <2>4. jobs[n + 1].name # "route_registrar" => jobs[n + 1].routes = <<>>
    BY <1>2, <2>1 DEF RoutesRegistered
  <2>5. /\ Distinct(f[n + 1]) /\ Has(f[n + 1], jobs[n + 1])
        /\ \A other \in CFJob : Has(f[n], other) => Has(f[n + 1], other)
        /\ \A i \in 1 .. Len(f[n + 1]) :
             \/ f[n + 1][i].name = jobs[n + 1].name
             \/ \E j \in 1 .. Len(f[n]) : f[n + 1][i].name = f[n][j].name
    <3>1. f[n] \in Seq(CFJob) /\ jobs[n + 1] \in CFJob /\ Distinct(f[n])
      BY <1>2, <2>1, <2>2, <2>3
    <3> HIDE DEF N, Names, Fine, T
    <3> QED
      BY <2>3, <2>4, <3>1, AddJobKeeps
  <2>6. \A k \in 1 .. n + 1 : Has(f[n + 1], jobs[k])
    BY <1>2, <2>1, <2>2, <2>5
  <2>7. \A i \in 1 .. Len(f[n + 1]) : f[n + 1][i].name \in Names(n + 1)
    <3>1. Names(n) \subseteq Names(n + 1) /\ jobs[n + 1].name \in Names(n + 1)
      BY <2>1
    <3> HIDE DEF Names
    <3> QED
      BY <2>2, <2>5, <3>1
  <2> QED
    BY <2>5, <2>6, <2>7
<1>5. T = Nat
  <2>1. T \in SUBSET Nat
    OBVIOUS
  <2> HIDE DEF T
  <2> QED
    BY <1>3, <1>4, <2>1, SetInduction
<1>6. Fine(N)
  <2> HIDE DEF Fine, N
  <2> QED
    BY <1>2, <1>5
<1>7. f[N] \in Seq(CFJob)
  BY <1>1, <1>2 DEF IsAdding
<1>8. \A job \in ToSet(jobs) : Has(f[N], job)
  BY <1>6 DEF ToSet
<1>9. \A i \in 1 .. Len(f[N]) : \E job \in ToSet(jobs) : f[N][i].name = job.name
  BY <1>2, <1>6
<1> QED
  BY <1>1, <1>6, <1>7, <1>8, <1>9

-----------------------------------------------------------------------------
Targets == {"database", "blobstore", "control", "compute", "router"}

\* The mapping is a function of the names, and only haproxy has no group.
LEMMA Mapping ==
  /\ \A tg \in DOMAIN sourceMapping : \A name \in sourceMapping[tg] : MappedTo(name) = tg
  /\ \A name \in Known : name # "haproxy" => MappedTo(name) \in Targets
<1> DEFINE D == {"control", "compute", "database", "router", "blobstore", "removed"}
<1>1. DOMAIN sourceMapping = D
  BY DEF sourceMapping
<1>2. \A tg, other \in D : tg # other => sourceMapping[tg] \cap sourceMapping[other] = {}
  BY DEF sourceMapping
<1>3. ASSUME NEW tg \in D, NEW name \in sourceMapping[tg] PROVE MappedTo(name) = tg
  <2>1. \E x \in D : name \in sourceMapping[x]
    BY <1>3
  <2>2. MappedTo(name) \in D /\ name \in sourceMapping[MappedTo(name)]
    <3> HIDE DEF D
    <3> QED
      BY <1>1, <2>1 DEF MappedTo
  <2> HIDE DEF D
  <2> QED
    BY <1>2, <1>3, <2>2
<1>4. ASSUME NEW name \in Known, name # "haproxy" PROVE MappedTo(name) \in Targets
  <2>1. PICK tg \in D : name \in sourceMapping[tg]
    BY <1>1 DEF Known
  <2>2. MappedTo(name) = tg
    <3> HIDE DEF D
    <3> QED
      BY <1>3, <2>1
  <2>3. sourceMapping.removed = {"haproxy"}
    BY DEF sourceMapping
  <2> QED
    BY <1>4, <2>1, <2>2, <2>3 DEF Targets
<1> HIDE DEF D
<1> QED
  BY <1>1, <1>3, <1>4

\* The groups that the kept jobs come from.
LEMMA Places ==
  /\ MappedTo("scheduler") = "control" /\ MappedTo("doppler") = "blobstore"
  /\ MappedTo("log-api") = "control" /\ MappedTo("nats") = "database"
  /\ MappedTo("diego-api") = "control" /\ MappedTo("smoke-tests") = "router"
  /\ MappedTo("api") = "control"
<1>1. {"control", "database", "router", "blobstore"} \subseteq DOMAIN sourceMapping
  BY DEF sourceMapping
<1>2. /\ {"scheduler", "log-api", "diego-api", "api"} \subseteq sourceMapping["control"]
      /\ "nats" \in sourceMapping["database"] /\ "smoke-tests" \in sourceMapping["router"]
      /\ "doppler" \in sourceMapping["blobstore"]
  BY DEF sourceMapping
<1> QED
  BY <1>1, <1>2, Mapping

-----------------------------------------------------------------------------
\* Groups as GroupsAssumption has them.
AreSources(sources) ==
  /\ sources \in Seq(ToSet(sources))
  /\ \A source \in ToSet(sources) :
       /\ source.jobs \in Seq(CFJob) /\ RoutesRegistered(source.jobs)
       /\ \A job \in ToSet(source.jobs) : \A home \in Homes :
            job.name = home[1] => source.name = home[2]

\* The jobs that are sent to a group.
LEMMA SentJobs ==
  ASSUME NEW sources, AreSources(sources), NEW tg
  PROVE  LET sent == JobsSentTo(tg, sources)
         IN  /\ sent \in Seq(CFJob) /\ RoutesRegistered(sent)
             /\ \A source \in ToSet(sources) : \A job \in ToSet(source.jobs) :
                  JobTarget(source, job) = tg => job \in ToSet(sent)
             /\ \A job \in ToSet(sent) : \E source \in ToSet(sources) :
                  job \in ToSet(source.jobs) /\ JobTarget(source, job) = tg
<1> DEFINE sent == JobsSentTo(tg, sources)
           parts == [i \in DOMAIN sources |-> JobsFor(tg, sources[i])]
<1>1. /\ Len(sources) \in Nat /\ DOMAIN sources = 1 .. Len(sources)
      /\ \A i \in 1 .. Len(sources) : sources[i] \in ToSet(sources)
      /\ \A source \in ToSet(sources) : \E i \in 1 .. Len(sources) : source = sources[i]
  <2>1. sources \in Seq(ToSet(sources))
    BY DEF AreSources
  <2>2. Len(sources) \in Nat /\ DOMAIN sources = 1 .. Len(sources)
    BY <2>1
  <2> QED
    BY <2>2 DEF ToSet
<1>2. ASSUME NEW source \in ToSet(sources)
      PROVE  /\ JobsFor(tg, source) \in Seq(CFJob)
             /\ \A job : job \in ToSet(JobsFor(tg, source)) <=>
                         job \in ToSet(source.jobs) /\ JobTarget(source, job) = tg
  <2> DEFINE mine == {job \in ToSet(source.jobs) : JobTarget(source, job) = tg}
  <2>1. source.jobs \in Seq(CFJob)
    BY DEF AreSources
  <2>2. JobsFor(tg, source) = Only(source.jobs, mine)
    BY DEF JobsFor
  <2>3. \A job : job \in mine <=> job \in ToSet(source.jobs) /\ JobTarget(source, job) = tg
    OBVIOUS
  <2> HIDE DEF mine
  <2>4. Only(source.jobs, mine) \in Seq(CFJob)
        /\ ToSet(Only(source.jobs, mine)) = ToSet(source.jobs) \cap mine
    BY <2>1, OnlyMembers
  <2> QED
    BY <2>2, <2>3, <2>4
<1>3. /\ parts \in Seq(Seq(CFJob)) /\ Len(parts) = Len(sources)
      /\ \A i \in 1 .. Len(sources) : parts[i] = JobsFor(tg, sources[i])
  <2>1. parts \in [1 .. Len(sources) -> Seq(CFJob)]
    BY <1>1, <1>2
  <2>2. \A i \in 1 .. Len(sources) : parts[i] = JobsFor(tg, sources[i])
    BY <1>1
  <2> HIDE DEF parts
  <2>3. parts \in Seq(Seq(CFJob))
    BY <1>1, <2>1, SeqDef
  <2>4. Len(parts) = Len(sources)
    <3>1. DOMAIN parts = 1 .. Len(sources)
      BY <2>1
    <3> QED
      BY <1>1, <2>3, <3>1, LenDomain
  <2> QED
    BY <2>2, <2>3, <2>4
<1>4. sent = FlattenSeq(parts)
  BY DEF JobsSentTo
<1> HIDE DEF parts, sent
<1>5. /\ sent \in Seq(CFJob)
      /\ \A i \in 1 .. Len(parts) : \A x \in ToSet(parts[i]) : x \in ToSet(sent)
      /\ \A x \in ToSet(sent) : \E i \in 1 .. Len(parts) : x \in ToSet(parts[i])
  BY <1>3, <1>4, FlattenMembers
<1>6. ASSUME NEW source \in ToSet(sources), NEW job \in ToSet(source.jobs),
             JobTarget(source, job) = tg
      PROVE  job \in ToSet(sent)
  <2>1. PICK i \in 1 .. Len(sources) : source = sources[i]
    BY <1>1
  <2>2. job \in ToSet(parts[i])
    BY <1>2, <1>3, <1>6, <2>1
  <2> QED
    BY <1>3, <1>5, <2>2
<1>7. ASSUME NEW job \in ToSet(sent)
      PROVE  \E source \in ToSet(sources) :
               job \in ToSet(source.jobs) /\ JobTarget(source, job) = tg
  <2>1. PICK i \in 1 .. Len(sources) : job \in ToSet(parts[i])
    BY <1>3, <1>5
  <2>2. sources[i] \in ToSet(sources) /\ job \in ToSet(JobsFor(tg, sources[i]))
    BY <1>1, <1>3, <2>1
  <2> QED
    BY <1>2, <2>2
<1>8. RoutesRegistered(sent)
  <2>1. ASSUME NEW job \in ToSet(sent), job.name # "route_registrar" PROVE job.routes = <<>>
    <3>1. PICK source \in ToSet(sources) : job \in ToSet(source.jobs)
      BY <1>7
    <3> QED
      BY <2>1, <3>1 DEF AreSources, RoutesRegistered
  <2> QED
    BY <2>1 DEF RoutesRegistered
<1> QED
  BY <1>5, <1>6, <1>7, <1>8 DEF sent

\* A group of the consolidated manifest: the jobs that are sent to it, each name once, a
\* disk if a source has one, and in router the addresses of the sources.
IsMerged(m, tg, sources) ==
  /\ m.name = tg
  /\ m.jobs \in Seq(CFJob) /\ Distinct(m.jobs)
  /\ \A source \in ToSet(sources) :
       /\ \A job \in ToSet(source.jobs) : JobTarget(source, job) = tg => Has(m.jobs, job)
       /\ MappedTo(source.name) = tg =>
            /\ source.disk # NoDisk => m.disk # NoDisk
            /\ tg = "router" => source.ips \subseteq m.ips
  /\ \A i \in 1 .. Len(m.jobs) : \E source \in ToSet(sources) : \E job \in ToSet(source.jobs) :
       job.name = m.jobs[i].name /\ JobTarget(source, job) = tg

\* That is what merging makes of the sources.
LEMMA MergedGroup ==
  ASSUME NEW sources, AreSources(sources), NEW tg
  PROVE  IsMerged(Merged(tg, sources), tg, sources)
<1> DEFINE m == Merged(tg, sources)
           sent == JobsSentTo(tg, sources)
           mine == {source \in ToSet(sources) : MappedTo(source.name) = tg}
           own == From(tg, sources)
           disks == {i \in DOMAIN own : own[i].disk # NoDisk}
<1>1. /\ m.name = tg /\ m.jobs = FoldLeft(AddJob, <<>>, sent)
      /\ m.disk = IF disks = {} THEN NoDisk ELSE own[Min(disks)].disk
      /\ m.ips = IF tg = "router" THEN UNION {own[i].ips : i \in DOMAIN own} ELSE {}
  BY DEF Merged
<1>2. own \in Seq(ToSet(sources)) /\ ToSet(own) = mine
  <2>1. sources \in Seq(ToSet(sources)) /\ own = Only(sources, mine)
    BY DEF AreSources, From
  <2>2. mine \subseteq ToSet(sources)
    OBVIOUS
  <2> HIDE DEF mine, own
  <2>3. /\ Only(sources, mine) \in Seq(ToSet(sources))
        /\ ToSet(Only(sources, mine)) = ToSet(sources) \cap mine
    BY <2>1, OnlyMembers
  <2> QED
    BY <2>1, <2>2, <2>3
<1>3. disks # {} => m.disk # NoDisk
  <2> SUFFICES ASSUME disks # {} PROVE m.disk # NoDisk
    OBVIOUS
  <2>1. disks \in SUBSET Nat
    BY <1>2
  <2>2. Min(disks) \in disks
    <3> HIDE DEF disks
    <3> QED
      BY <2>1, LeastNat DEF Min
  <2>3. m.disk = own[Min(disks)].disk
    <3> HIDE DEF disks, m, own
    <3> QED
      BY <1>1
  <2> HIDE DEF m
  <2> QED
    BY <2>2, <2>3
<1>4. ASSUME NEW source \in ToSet(sources), MappedTo(source.name) = tg
      PROVE  /\ source.disk # NoDisk => m.disk # NoDisk
             /\ tg = "router" => source.ips \subseteq m.ips
  <2>1. source \in ToSet(own)
    BY <1>2, <1>4
  <2> HIDE DEF own
  <2>2. PICK i \in DOMAIN own : source = own[i]
    BY <2>1 DEF ToSet
  <2>3. source.disk # NoDisk => disks # {}
    BY <2>2
  <2> HIDE DEF m, disks
  <2> QED
    BY <1>1, <1>3, <2>2, <2>3
<1>5. /\ sent \in Seq(CFJob) /\ RoutesRegistered(sent)
      /\ \A source \in ToSet(sources) : \A job \in ToSet(source.jobs) :
           JobTarget(source, job) = tg => job \in ToSet(sent)
      /\ \A job \in ToSet(sent) : \E source \in ToSet(sources) :
           job \in ToSet(source.jobs) /\ JobTarget(source, job) = tg
  BY SentJobs
<1> HIDE DEF m, sent, own, disks, mine
<1>6. /\ m.jobs \in Seq(CFJob) /\ Distinct(m.jobs)
      /\ \A job \in ToSet(sent) : Has(m.jobs, job)
      /\ \A i \in 1 .. Len(m.jobs) : \E job \in ToSet(sent) : m.jobs[i].name = job.name
  BY <1>1, <1>5, MergedJobs
<1>7. IsMerged(m, tg, sources)
  BY <1>1, <1>4, <1>5, <1>6 DEF IsMerged
<1> QED
  BY <1>7 DEF m

\* Each group with jobs is there once, and there are no others.
LEMMA BuiltGroups ==
  ASSUME NEW sources, AreSources(sources)
  PROVE  LET groups == BuildConsolidated(sources)
         IN  /\ \A g \in DOMAIN groups : \E tg \in Targets : groups[g] = Merged(tg, sources)
             /\ \A tg \in Targets : Merged(tg, sources).jobs # <<>> =>
                  \E g \in DOMAIN groups :
                    Named(groups, tg) = {g} /\ groups[g] = Merged(tg, sources)
<1> DEFINE R == {Merged(tg, sources) : tg \in Targets}
           merged == [i \in DOMAIN instanceGroups |-> Merged(instanceGroups[i], sources)]
           none == {group \in ToSet(merged) : group.jobs = <<>>}
           groups == BuildConsolidated(sources)
<1>1. /\ DOMAIN instanceGroups = 1 .. 5
      /\ \A i \in 1 .. 5 : instanceGroups[i] \in Targets
      /\ \A i, j \in 1 .. 5 : i # j => instanceGroups[i] # instanceGroups[j]
      /\ \A tg \in Targets : \E i \in 1 .. 5 : instanceGroups[i] = tg
  BY DEF instanceGroups, Targets
<1>2. \A tg : Merged(tg, sources).name = tg
  BY DEF Merged
<1>3. /\ merged \in Seq(R) /\ Len(merged) = 5 /\ DOMAIN merged = 1 .. 5
      /\ \A i \in 1 .. 5 : merged[i] = Merged(instanceGroups[i], sources)
  <2>1. merged \in [1 .. 5 -> R] /\ \A i \in 1 .. 5 : merged[i] = Merged(instanceGroups[i], sources)
    BY <1>1
  <2> HIDE DEF merged, R
  <2>2. merged \in Seq(R) /\ DOMAIN merged = 1 .. 5
    BY <2>1, SeqDef
  <2> QED
    BY <2>1, <2>2, LenDomain
<1>4. groups = Without(merged, none)
  BY DEF BuildConsolidated
<1>5. \A tg \in Targets : Merged(tg, sources) \in ToSet(merged)
  <2> HIDE DEF merged
  <2> QED
    BY <1>1, <1>3 DEF ToSet
<1>6. \A tg \in Targets : Merged(tg, sources).jobs # <<>> => Merged(tg, sources) \notin none
  OBVIOUS
<1> HIDE DEF merged, none, groups
<1>7. \A i, j \in 1 .. Len(merged) : i # j => merged[i] # merged[j]
  BY <1>1, <1>2, <1>3
<1> HIDE DEF R
<1>8. groups \in Seq(R) /\ ToSet(groups) = ToSet(merged) \ none
  BY <1>3, <1>4, WithoutMembers
<1>9. \A i, j \in 1 .. Len(groups) : i # j => groups[i] # groups[j]
  BY <1>3, <1>4, <1>7, WithoutDistinct
<1>10. DOMAIN groups = 1 .. Len(groups) /\ \A g \in DOMAIN groups : groups[g] \in R
  BY <1>8
<1>11. \A g \in DOMAIN groups : \E tg \in Targets : groups[g] = Merged(tg, sources)
  BY <1>10 DEF R
<1>12. ASSUME NEW tg \in Targets, Merged(tg, sources).jobs # <<>>
       PROVE  \E g \in DOMAIN groups : Named(groups, tg) = {g} /\ groups[g] = Merged(tg, sources)
  <2>1. PICK g \in DOMAIN groups : groups[g] = Merged(tg, sources)
    <3>1. Merged(tg, sources) \in ToSet(groups)
      BY <1>5, <1>6, <1>8, <1>12
    <3> QED
      BY <3>1 DEF ToSet
  <2>2. ASSUME NEW h \in DOMAIN groups, groups[h].name = tg PROVE h = g
    <3>1. groups[h] = Merged(tg, sources)
      BY <1>2, <1>11, <2>2
    <3> QED
      BY <1>9, <1>10, <2>1, <3>1
  <2>3. groups[g].name = tg
    BY <1>2, <2>1
  <2>4. Named(groups, tg) = {g}
    BY <2>2, <2>3 DEF Named
  <2> QED
    BY <2>1, <2>4
<1> QED
  BY <1>11, <1>12 DEF groups

\* The group of a job runs it once, with all its routes.
LEMMA JobRuns ==
  ASSUME NEW sources, AreSources(sources), NEW source \in ToSet(sources),
         NEW job \in ToSet(source.jobs), NEW tg \in Targets, JobTarget(source, job) = tg
  PROVE  \E g \in DOMAIN BuildConsolidated(sources) :
           LET group == BuildConsolidated(sources)[g] IN
           /\ Named(BuildConsolidated(sources), tg) = {g} /\ group = Merged(tg, sources)
           /\ \E i : Runs(group, job.name) = {i}
           /\ ToSet(job.routes) \subseteq RoutesOf(group)
<1> DEFINE m == Merged(tg, sources)
<1>1. IsMerged(m, tg, sources)
  BY MergedGroup
<1> HIDE DEF m
<1>2. PICK i \in 1 .. Len(m.jobs) :
        m.jobs[i].name = job.name /\ ToSet(job.routes) \subseteq ToSet(m.jobs[i].routes)
  BY <1>1 DEF IsMerged, Has
<1>3. DOMAIN m.jobs = 1 .. Len(m.jobs)
  BY <1>1 DEF IsMerged
<1>4. Runs(m, job.name) = {i}
  BY <1>1, <1>2, <1>3 DEF IsMerged, Distinct, Runs
<1>5. ToSet(job.routes) \subseteq RoutesOf(m)
  BY <1>2, <1>3 DEF RoutesOf
<1>6. m.jobs # <<>>
  BY <1>2
<1>7. PICK g \in DOMAIN BuildConsolidated(sources) :
        Named(BuildConsolidated(sources), tg) = {g} /\ BuildConsolidated(sources)[g] = m
  BY <1>6, BuiltGroups DEF m
<1> QED
  BY <1>4, <1>5, <1>7 DEF m

\* The group of a job that is not of haproxy is one of the five.
LEMMA JobTargets ==
  ASSUME NEW sources, AreSources(sources), ValidMapping(sources),
         NEW source \in ToSet(sources), source.name # "haproxy", NEW job \in ToSet(source.jobs)
  PROVE  /\ JobTarget(source, job) \in Targets
         /\ JobTarget(source, job) = IF job.name = "ssh_proxy" THEN "router"
                                     ELSE MappedTo(source.name)
<1>1. source.name \in Known
  BY DEF ValidMapping, ToSet
<1>2. MappedTo(source.name) \in Targets /\ "router" \in Targets
  BY <1>1, Mapping DEF Targets
<1>3. job.name = "ssh_proxy" => source.name = "scheduler"
  BY DEF AreSources, Homes
<1> QED
  BY <1>2, <1>3 DEF JobTarget, jobsExtractedFromScheduler

\* No two jobs meet in a group that consolidate.go keeps apart.
LEMMA KeptApart ==
  ASSUME NEW sources, AreSources(sources), NEW g \in DOMAIN BuildConsolidated(sources),
         NEW pair \in Apart
  PROVE  \E name \in pair : Runs(BuildConsolidated(sources)[g], name) = {}
<1>1. PICK tg \in Targets : BuildConsolidated(sources)[g] = Merged(tg, sources)
  BY BuiltGroups
<1> DEFINE m == Merged(tg, sources)
<1>2. IsMerged(m, tg, sources)
  BY MergedGroup
<1> HIDE DEF m
<1>3. ASSUME NEW home \in Homes, home[1] # "ssh_proxy", Runs(m, home[1]) # {}
      PROVE  tg = MappedTo(home[2])
  <2>1. PICK i \in 1 .. Len(m.jobs) : m.jobs[i].name = home[1]
    BY <1>2, <1>3 DEF Runs, IsMerged
  <2>0. PICK source \in ToSet(sources) :
          \E job \in ToSet(source.jobs) :
            job.name = m.jobs[i].name /\ JobTarget(source, job) = tg
    BY <1>2, <2>1 DEF IsMerged
  <2>2. PICK job \in ToSet(source.jobs) :
          job.name = m.jobs[i].name /\ JobTarget(source, job) = tg
    BY <2>0
  <2>3. source.name = home[2] /\ job.name # "ssh_proxy"
    BY <1>3, <2>1, <2>2 DEF AreSources
  <2> QED
    BY <2>2, <2>3 DEF JobTarget, jobsExtractedFromScheduler
<1>4. ASSUME NEW job, NEW group, <<job, group>> \in Homes, job # "ssh_proxy", Runs(m, job) # {}
      PROVE  tg = MappedTo(group)
  BY <1>3, <1>4
<1>5. /\ Runs(m, "doppler") # {} => tg = "blobstore"
      /\ Runs(m, "reverse_log_proxy") # {} => tg = "control"
  BY <1>4, Places DEF Homes
<1>6. /\ Runs(m, "nats-tls") # {} => tg = "database"
      /\ Runs(m, "bbs") # {} => tg = "control"
  BY <1>4, Places DEF Homes
<1>7. /\ Runs(m, "smoke_tests") # {} => tg = "router"
      /\ Runs(m, "cloud_controller_ng") # {} => tg = "control"
  BY <1>4, Places DEF Homes
<1> QED
  BY <1>1, <1>5, <1>6, <1>7 DEF Apart, m

-----------------------------------------------------------------------------
\* What the groups and the aliases of a manifest have become.
GroupsOK(at, d, cf) ==
  /\ at = "consolidate" => d.out.groups = cf.groups /\ d.out.aliases = cf.aliases
  /\ at \in {"filter", "deploy"} /\ d.op # "bosh" =>
       /\ ValidMapping(cf.groups)
       /\ d.out.groups = BuildConsolidated(cf.groups)
       /\ d.out.aliases = RewriteAddonAliases(cf.aliases)

GroupsInv == \A p \in Deployers : GroupsOK(pc[p], deploy[p], embedded.cf)

\* Elsewhere nothing is said of them.
LEMMA GroupsElsewhere ==
  ASSUME IInv, GroupsInv, UNCHANGED <<embedded, deploy>>, NEW p \in Procs,
         NEW next \in StemcellSteps, pc' = [pc EXCEPT ![p] = next]
  PROVE  GroupsInv'
<1>1. ASSUME NEW q \in Deployers PROVE GroupsOK(pc'[q], deploy[q], embedded.cf)
  <2>1. GroupsOK(pc[q], deploy[q], embedded.cf)
    BY DEF GroupsInv
  <2>2. pc'[q] = pc[q] \/ pc'[q] = next
    BY DEF IInv, StemcellsInv, ProcsOK, Procs
  <2>3. next \notin {"consolidate", "filter", "deploy"}
    BY DEF StemcellSteps, Resolving
  <2> QED
    BY <2>1, <2>2, <2>3 DEF GroupsOK
<1> QED
  BY <1>1 DEF GroupsInv

\* A deployer goes on with another manifest.
LEMMA GroupsGoOn ==
  ASSUME IInv, GroupsInv, UNCHANGED embedded, NEW p \in Deployers, NEW next, NEW d,
         pc' = [pc EXCEPT ![p] = next], deploy' = [deploy EXCEPT ![p] = d],
         GroupsOK(next, d, embedded.cf)
  PROVE  GroupsInv'
<1>1. p \in Procs /\ p \in DOMAIN deploy /\ p \in DOMAIN pc
  BY DEF IInv, StemcellsInv, ProcsOK, DeploysInv, Procs
<1>2. ASSUME NEW q \in Deployers PROVE GroupsOK(pc'[q], deploy'[q], embedded.cf)
  <2>1. GroupsOK(pc[q], deploy[q], embedded.cf)
    BY DEF GroupsInv
  <2>2. CASE q = p
    BY <1>1, <2>2
  <2>3. CASE q # p
    <3>1. pc'[q] = pc[q] /\ deploy'[q] = deploy[q]
      BY <2>3 DEF IInv, StemcellsInv, ProcsOK, DeploysInv, Procs
    <3> QED
      BY <2>1, <3>1
  <2> QED
    BY <2>2, <2>3
<1> QED
  BY <1>2 DEF GroupsInv

\* So it does in a step of its own command, which may also end.
LEMMA RenderGroups ==
  ASSUME IInv, GroupsInv, NEW p \in Deployers, NEW from, NEW next, NEW mine,
         Render(p, from, next, mine),
         next \notin {"done", "failed"} => GroupsOK(next, mine, embedded.cf)
  PROVE  GroupsInv'
<1> DEFINE d == IF next \in {"done", "failed"} THEN NoDeploy ELSE mine
<1>1. pc' = [pc EXCEPT ![p] = next] /\ deploy' = [deploy EXCEPT ![p] = d] /\ UNCHANGED embedded
  BY DEF Render, Goto
<1>2. GroupsOK(next, d, embedded.cf)
  <2>1. CASE next \in {"done", "failed"}
    BY <2>1 DEF GroupsOK
  <2>2. CASE next \notin {"done", "failed"}
    BY <2>2
  <2> QED
    BY <2>1, <2>2
<1> HIDE DEF d
<1> QED
  BY <1>1, <1>2, GroupsGoOn

\* Every step of the pipeline.
LEMMA PipelineStepGroups ==
  ASSUME IInv, GroupsInv, NEW p \in Deployers, PipelineStep(p)
  PROVE  GroupsInv'
<1> DEFINE cf == embedded.cf
<1>typed. /\ p \in Procs /\ embedded \in Docs /\ GroupsOK(pc[p], deploy[p], cf)
          /\ {"op", "out"} \subseteq DOMAIN deploy[p] /\ Fields \subseteq DOMAIN deploy[p].out
  BY DEF IInv, DeploysInv, DeployOK, GroupsInv, Procs
<1>1. CASE BeginCF(p)
  <2>1. PICK m \in RenderedCF(embedded) : BeginEnsure(p, m.stemcells)
    BY <1>1 DEF BeginCF
  <2>2. pc' = [pc EXCEPT ![p] = "list"] /\ "list" \in StemcellSteps /\ UNCHANGED <<embedded, deploy>>
    BY <1>1, <2>1 DEF BeginCF, BeginEnsure, Step, Goto, StemcellSteps
  <2> QED
    BY <1>typed, <2>2, GroupsElsewhere
<1>2. CASE BeginFails(p) \/ InterpolateFails(p) \/ FilterFails(p)
  <2>1. CASE BeginFails(p)
    BY <2>1, RenderGroups DEF BeginFails
  <2>2. CASE InterpolateFails(p)
    BY <2>2, RenderGroups DEF InterpolateFails
  <2>3. CASE FilterFails(p)
    <3>1. PICK next \in {"done", "failed"} : Render(p, "filter", next, deploy[p])
      BY <2>3 DEF FilterFails
    <3> QED
      BY <3>1, RenderGroups
  <2> QED
    BY <1>2, <2>1, <2>2, <2>3
<1>3. CASE BeginWithoutStemcells(p)
  <2>1. PICK op \in Ops : Render(p, "begin", "ensured", [NoDeploy EXCEPT !.op = op])
    BY <1>3 DEF BeginWithoutStemcells
  <2>2. \A d : GroupsOK("ensured", d, cf)
    BY DEF GroupsOK
  <2> QED
    BY <2>1, <2>2, RenderGroups
<1>4. CASE Interpolate(p)
  <2>1. PICK m \in RenderedCF(embedded) :
          Render(p, "ensured", "consolidate", [deploy[p] EXCEPT !.out = m])
    BY <1>4 DEF Interpolate
  <2> DEFINE d == [deploy[p] EXCEPT !.out = m]
  <2>2. m.groups = cf.groups /\ m.aliases = cf.aliases
    BY <1>typed, CFRendered DEF RenderedOf
  <2>3. d.out = m
    BY <1>typed
  <2> HIDE DEF d
  <2>4. GroupsOK("consolidate", d, cf)
    BY <2>2, <2>3 DEF GroupsOK
  <2> QED
    BY <2>1, <2>4, RenderGroups DEF d
<1>5. CASE InterpolateBOSHManifest(p)
  <2>1. PICK m \in BOSHManifests :
          Render(p, "ensured", "filter", [deploy[p] EXCEPT !.out = m])
    BY <1>5 DEF InterpolateBOSHManifest
  <2> DEFINE d == [deploy[p] EXCEPT !.out = m]
  <2>2. d.op = "bosh"
    BY <1>5 DEF InterpolateBOSHManifest
  <2> HIDE DEF d
  <2>3. GroupsOK("filter", d, cf)
    BY <2>2 DEF GroupsOK
  <2> QED
    BY <2>1, <2>3, RenderGroups DEF d
<1>6. CASE ConsolidateGroups(p)
  <2>1. CASE ~ValidMapping(deploy[p].out.groups)
    BY <1>6, <2>1, RenderGroups DEF ConsolidateGroups
  <2>2. CASE ValidMapping(deploy[p].out.groups)
    <3> DEFINE m == deploy[p].out
               c == ConsolidateInstanceGroups(m)
               d == [deploy[p] EXCEPT !.out = c]
    <3>1. Render(p, "consolidate", "filter", d)
      BY <1>6, <2>2 DEF ConsolidateGroups
    <3>2. m.groups = cf.groups /\ m.aliases = cf.aliases
      BY <1>typed, <3>1 DEF Render, GroupsOK
    <3>3. c.groups = BuildConsolidated(m.groups) /\ c.aliases = RewriteAddonAliases(m.aliases)
      BY <1>typed DEF ConsolidateInstanceGroups, Fields
    <3>4. d.out = c
      BY <1>typed
    <3> HIDE DEF c, d
    <3>5. GroupsOK("filter", d, cf)
      BY <2>2, <3>2, <3>3, <3>4 DEF GroupsOK
    <3> QED
      BY <3>1, <3>5, RenderGroups
  <2> QED
    BY <2>1, <2>2
<1>7. CASE FilterReleases(p) \/ FilterBlind(p)
  <2> DEFINE rs == Filter(deploy[p].out.releases, releases)
             out == [deploy[p].out EXCEPT !.releases = rs]
             e == [deploy[p] EXCEPT !.out = out]
  <2>1. PICK d \in {deploy[p], e} : Render(p, "filter", Filtered(p), d)
    BY <1>7 DEF FilterReleases, FilterBlind
  <2>2. pc[p] = "filter"
    BY <2>1 DEF Render
  <2>3. /\ e.op = deploy[p].op /\ e.out.groups = deploy[p].out.groups
        /\ e.out.aliases = deploy[p].out.aliases
    BY <1>typed DEF Fields
  <2> HIDE DEF e
  <2>4. GroupsOK("deploy", d, cf)
    BY <1>typed, <2>1, <2>2, <2>3 DEF GroupsOK
  <2>5. Filtered(p) \in {"done", "deploy"}
    BY DEF Filtered
  <2> QED
    BY <2>1, <2>4, <2>5, RenderGroups
<1>8. CASE BoshDeploy(p)
  <2>1. PICK next \in {"done", "failed"} :
          /\ pc' = [pc EXCEPT ![p] = next]
          /\ deploy' = [deploy EXCEPT ![p] = NoDeploy] /\ UNCHANGED embedded
    BY <1>8 DEF BoshDeploy, Goto
  <2>2. GroupsOK(next, NoDeploy, cf)
    BY DEF GroupsOK
  <2> QED
    BY <2>1, <2>2, GroupsGoOn
<1> QED
  BY <1>1, <1>2, <1>3, <1>4, <1>5, <1>6, <1>7, <1>8 DEF PipelineStep

\* What is consolidated are the groups that are embedded, whatever the ops files did.
THEOREM GroupsInvariance == Spec => []GroupsInv
<1>1. Init => GroupsInv
  <2> SUFFICES ASSUME Init, NEW p \in Deployers PROVE GroupsOK(pc[p], deploy[p], embedded.cf)
    BY DEF GroupsInv
  <2>1. pc[p] \in {"begin", "done"}
    BY DEF Init, StemcellsInit, Procs
  <2> QED
    BY <2>1 DEF GroupsOK
<1>2. IInv /\ GroupsInv /\ [Next]_vars => GroupsInv'
  <2> SUFFICES ASSUME IInv, GroupsInv, [Next]_vars PROVE GroupsInv'
    OBVIOUS
  <2>1. ASSUME NEW p \in Deployers, PipelineStep(p) PROVE GroupsInv'
    BY <2>1, PipelineStepGroups
  <2>2. CASE Publishing /\ UNCHANGED <<embedded, releases, deploy>>
    BY <2>2 DEF Publishing, PublishVersion, MoveLatest, GroupsInv
  <2>3. ASSUME NEW p \in Procs, StemcellStep(p), UNCHANGED <<embedded, releases, deploy>>
        PROVE  GroupsInv'
    BY <2>3, StemcellStepGoes, GroupsElsewhere
  <2>4. CASE UNCHANGED vars
    BY <2>4 DEF GroupsInv, vars, stemcellVars, sourceVars
  <2> QED
    BY <2>1, <2>2, <2>3, <2>4 DEF Next
<1> QED
  BY <1>1, <1>2, Invariance, PTL DEF Spec

-----------------------------------------------------------------------------
\* The embedded groups are what consolidation expects.
LEMMA DocSources ==
  ASSUME NEW doc \in Docs
  PROVE  /\ AreSources(doc.cf.groups)
         /\ doc.cf.aliases \in Seq([domain : STRING, targets : Seq(STRING)])
BY GroupsAssumption DEF AreSources, RoutesRegistered, CFJob

\* Every job of the embedded manifest runs once, with its routes, its disk and its
\* addresses, and apart from the jobs that it must not meet (buildConsolidated, addJob).
THEOREM JobsRun == Spec => []EveryJobRuns
<1>1. ASSUME IInv, GroupsInv PROVE EveryJobRuns
  <2> SUFFICES ASSUME NEW p \in Consolidated
               PROVE  LET sources == embedded.cf.groups
                          groups == deploy[p].out.groups
                      IN  /\ \A s \in ToSet(sources) : s.name # "haproxy" =>
                               \A job \in ToSet(s.jobs) :
                                 LET homes == Named(groups, IF job.name = "ssh_proxy" THEN "router"
                                                            ELSE MappedTo(s.name))
                                 IN  /\ Cardinality(homes) = 1
                                     /\ \A g \in homes :
                                          /\ Cardinality(Runs(groups[g], job.name)) = 1
                                          /\ ToSet(job.routes) \subseteq RoutesOf(groups[g])
                                          /\ job.name # "ssh_proxy" =>
                                               /\ s.disk # NoDisk => groups[g].disk # NoDisk
                                               /\ groups[g].name = "router" =>
                                                    s.ips \subseteq groups[g].ips
                          /\ \A g \in DOMAIN groups : \A pair \in Apart :
                               \E name \in pair : Runs(groups[g], name) = {}
    BY DEF EveryJobRuns
  <2> DEFINE sources == embedded.cf.groups
             groups == deploy[p].out.groups
  <2>1. ValidMapping(sources) /\ groups = BuildConsolidated(sources)
    BY <1>1 DEF Consolidated, Handed, GroupsInv, GroupsOK
  <2>2. AreSources(sources)
    BY <1>1, DocSources DEF IInv, DeploysInv
  <2> HIDE DEF sources, groups
  <2>3. ASSUME NEW s \in ToSet(sources), s.name # "haproxy", NEW job \in ToSet(s.jobs),
               NEW tg, tg = IF job.name = "ssh_proxy" THEN "router" ELSE MappedTo(s.name)
        PROVE  /\ Cardinality(Named(groups, tg)) = 1
               /\ \A g \in Named(groups, tg) :
                    /\ Cardinality(Runs(groups[g], job.name)) = 1
                    /\ ToSet(job.routes) \subseteq RoutesOf(groups[g])
                    /\ job.name # "ssh_proxy" =>
                         /\ s.disk # NoDisk => groups[g].disk # NoDisk
                         /\ groups[g].name = "router" => s.ips \subseteq groups[g].ips
    <3>1. tg \in Targets /\ JobTarget(s, job) = tg
      BY <2>1, <2>2, <2>3, JobTargets
    <3>2. PICK g \in DOMAIN groups :
            /\ Named(groups, tg) = {g} /\ groups[g] = Merged(tg, sources)
            /\ \E i : Runs(groups[g], job.name) = {i}
            /\ ToSet(job.routes) \subseteq RoutesOf(groups[g])
      BY <2>1, <2>2, <3>1, JobRuns
    <3>3. \A x : Cardinality({x}) = 1
      BY FS_Singleton
    <3>4. IsMerged(groups[g], tg, sources)
      BY <2>2, <3>2, MergedGroup
    <3>5. job.name # "ssh_proxy" =>
            /\ s.disk # NoDisk => groups[g].disk # NoDisk
            /\ groups[g].name = "router" => s.ips \subseteq groups[g].ips
      BY <2>3, <3>4 DEF IsMerged
    <3> QED
      BY <3>2, <3>3, <3>5
  <2>4. \A g \in DOMAIN groups : \A pair \in Apart : \E name \in pair : Runs(groups[g], name) = {}
    BY <2>1, <2>2, KeptApart
  <2> QED
    BY <2>3, <2>4 DEF sources, groups
<1> QED
  BY <1>1, Invariance, GroupsInvariance, PTL

\* An alias that names a group names the one of its target afterwards.
LEMMA TargetsRewritten ==
  ASSUME NEW alias \in [domain : STRING, targets : Seq(STRING)],
         NEW t \in ToSet(alias.targets), t \in Known, t # "haproxy"
  PROVE  LET new == RewriteTargets(alias)
         IN  /\ new.domain = alias.domain /\ new.targets # <<>>
             /\ (IF alias.domain = SSHDomain THEN "router" ELSE MappedTo(t)) \in ToSet(new.targets)
<1> DEFINE overridden == alias.domain \in DOMAIN domainOverrides
           kept == Without(alias.targets, IF overridden THEN {} ELSE sourceMapping.removed)
           Target(g) == IF overridden THEN domainOverrides[alias.domain]
                        ELSE IF g \in Known THEN MappedTo(g) ELSE g
           targets == [i \in DOMAIN kept |-> Target(kept[i])]
           new == RewriteTargets(alias)
<1>1. new = [alias EXCEPT !.targets = targets]
  BY DEF RewriteTargets
<1>2. overridden <=> alias.domain = SSHDomain
  BY DEF domainOverrides
<1>3. overridden => domainOverrides[alias.domain] = "router"
  BY DEF domainOverrides
<1>4. t \in ToSet(kept)
  <2>1. sourceMapping.removed = {"haproxy"}
    BY DEF sourceMapping
  <2>2. t \notin (IF overridden THEN {} ELSE sourceMapping.removed)
    BY <2>1
  <2>3. alias.targets \in Seq(STRING)
    OBVIOUS
  <2> QED
    BY <2>2, <2>3, WithoutMembers
<1> HIDE DEF kept, overridden
<1>5. PICK i \in DOMAIN kept : kept[i] = t
  BY <1>4 DEF ToSet
<1>6. i \in DOMAIN targets
      /\ targets[i] = IF alias.domain = SSHDomain THEN "router" ELSE MappedTo(t)
  BY <1>2, <1>3, <1>5
<1>7. targets # <<>>
  BY <1>6
<1> HIDE DEF targets, new
<1>8. new.domain = alias.domain /\ new.targets = targets
  BY <1>1
<1> QED
  BY <1>6, <1>7, <1>8 DEF new, ToSet

\* It is still there: only aliases without a target are dropped.
LEMMA AliasesRewritten ==
  ASSUME NEW aliases \in Seq([domain : STRING, targets : Seq(STRING)]),
         NEW alias \in ToSet(aliases), RewriteTargets(alias).targets # <<>>
  PROVE  RewriteTargets(alias) \in ToSet(RewriteAddonAliases(aliases))
<1> DEFINE R == {RewriteTargets(a) : a \in ToSet(aliases)}
           rewritten == [i \in DOMAIN aliases |-> RewriteTargets(aliases[i])]
           none == {a \in ToSet(rewritten) : a.targets = <<>>}
<1>1. Len(aliases) \in Nat /\ DOMAIN aliases = 1 .. Len(aliases)
  OBVIOUS
<1>2. rewritten \in [1 .. Len(aliases) -> R]
  BY <1>1 DEF ToSet
<1>3. RewriteTargets(alias) \in ToSet(rewritten)
  <2>1. PICK i \in DOMAIN aliases : alias = aliases[i]
    BY DEF ToSet
  <2>2. rewritten[i] = RewriteTargets(alias) /\ i \in DOMAIN rewritten
    BY <2>1
  <2> HIDE DEF rewritten
  <2> QED
    BY <2>2 DEF ToSet
<1>4. RewriteTargets(alias) \notin none
  OBVIOUS
<1>5. RewriteAddonAliases(aliases) = Without(rewritten, none)
  BY DEF RewriteAddonAliases
<1> HIDE DEF R, rewritten, none
<1>6. rewritten \in Seq(R)
  <2> DEFINE n == Len(aliases)
  <2>1. n \in Nat /\ rewritten \in [1 .. n -> R]
    BY <1>1, <1>2
  <2> HIDE DEF n
  <2> QED
    BY <2>1, SeqDef
<1> QED
  BY <1>3, <1>4, <1>5, <1>6, WithoutMembers

\* A name resolves to the group that now runs the jobs it resolved to (rewriteAddonAliases).
THEOREM AliasesReach == Spec => []AliasesReachJobs
<1>1. ASSUME IInv, GroupsInv PROVE AliasesReachJobs
  <2> DEFINE sources == embedded.cf.groups
             aliases == embedded.cf.aliases
             groups == BuildConsolidated(sources)
             new == RewriteAddonAliases(aliases)
  <2>1. ASSUME NEW p \in Consolidated
        PROVE  ValidMapping(sources) /\ deploy[p].out.groups = groups /\ deploy[p].out.aliases = new
    BY <1>1, <2>1 DEF Consolidated, Handed, GroupsInv, GroupsOK
  <2>2. AreSources(sources) /\ aliases \in Seq([domain : STRING, targets : Seq(STRING)])
    BY <1>1, DocSources DEF IInv, DeploysInv
  <2> HIDE DEF sources, aliases
  <2>3. ASSUME ValidMapping(sources), NEW alias \in ToSet(aliases), NEW s \in ToSet(sources),
               s.name \in ToSet(alias.targets), s.name # "haproxy",
               NEW name \in Serves(alias.domain, s)
        PROVE  \E rewritten \in ToSet(new) :
                 /\ rewritten.domain = alias.domain
                 /\ \E g \in DOMAIN groups :
                      groups[g].name \in ToSet(rewritten.targets) /\ Runs(groups[g], name) # {}
    <3> DEFINE tg == IF alias.domain = SSHDomain THEN "router" ELSE MappedTo(s.name)
    <3>1. s.name \in Known
      BY <2>3 DEF ValidMapping, ToSet
    <3>2. alias \in [domain : STRING, targets : Seq(STRING)]
      BY <2>2, <2>3, MemberOf
    <3>3. /\ RewriteTargets(alias).domain = alias.domain /\ RewriteTargets(alias).targets # <<>>
          /\ tg \in ToSet(RewriteTargets(alias).targets)
      BY <2>3, <3>1, <3>2, TargetsRewritten
    <3>4. RewriteTargets(alias) \in ToSet(new)
      BY <2>2, <3>3, AliasesRewritten
    <3>5. PICK job \in ToSet(s.jobs) : job.name = name
      BY DEF Serves, ToSet
    <3>6. alias.domain = SSHDomain <=> name = "ssh_proxy"
      BY DEF Serves, jobsExtractedFromScheduler
    <3>7. JobTarget(s, job) = tg /\ tg \in Targets
      BY <2>2, <2>3, <3>5, <3>6, JobTargets
    <3> HIDE DEF tg
    <3>8. PICK g \in DOMAIN groups :
            /\ Named(groups, tg) = {g} /\ groups[g] = Merged(tg, sources)
            /\ \E i : Runs(groups[g], job.name) = {i}
            /\ ToSet(job.routes) \subseteq RoutesOf(groups[g])
      <4>1. s \in ToSet(sources) /\ job \in ToSet(s.jobs)
        BY <2>3
      <4> QED
        BY <2>2, <3>7, <4>1, JobRuns
    <3>9. groups[g].name = tg
      BY <3>8 DEF Merged
    <3> HIDE DEF groups, new
    <3> QED
      BY <3>3, <3>4, <3>5, <3>8, <3>9
  <2> HIDE DEF groups, new
  <2> QED
    BY <2>1, <2>3 DEF AliasesReachJobs, sources, aliases
<1> QED
  BY <1>1, Invariance, GroupsInvariance, PTL
===============================================================================
