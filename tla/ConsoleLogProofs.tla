--------------------------- MODULE ConsoleLogProofs ---------------------------
(***************************************************************************)
(* Theorems about ConsoleLog, for logs of any length and number, and any   *)
(* values of --tail.                                                       *)
(*                                                                         *)
(* What is printed and what is left in the buffer are slices of the log    *)
(* that meet at a place after which there is no newline (WriterAt).  A     *)
(* byte that arrives keeps that (CutKeeps), so all that are read do        *)
(* (WriteKeeps), and the instance only logs behind them (WriterStable).    *)
(***************************************************************************)
EXTENDS ConsoleLog, FoldLemmas

-----------------------------------------------------------------------------
\* What is flattened with one sequence more has that one at its end.
LEMMA FlattenAppend ==
  ASSUME NEW A, NEW ss \in Seq(Seq(A)), NEW line \in Seq(A)
  PROVE  /\ FlattenSeq(ss) \in Seq(A)
         /\ FlattenSeq(Append(ss, line)) = FlattenSeq(ss) \o line
         /\ FlattenSeq(<<>>) = <<>>
<1> DEFINE N == Len(ss)
           more == Append(ss, line)
<1>1. /\ N \in Nat /\ more \in Seq(Seq(A)) /\ Len(more) = N + 1
      /\ \A i \in 1 .. N : more[i] = ss[i]
      /\ more[N + 1] = line
  OBVIOUS
<1>2. PICK g : IsFlat(g, A, ss)
  BY FlatExists
<1>3. FlattenSeq(ss) = g[N] /\ g[N] \in Seq(A)
  <2>1. FlattenSeq(ss) = g[N]
    BY <1>2, FlattenIsFlat
  <2> QED
    BY <1>1, <1>2, <2>1 DEF IsFlat
<1> DEFINE h == [n \in 0 .. N + 1 |-> IF n = N + 1 THEN g[N] \o line ELSE g[n]]
<1>4. h \in [0 .. N + 1 -> Seq(A)] /\ h[0] = <<>>
  <2>1. ASSUME NEW n \in 0 .. N + 1 PROVE (IF n = N + 1 THEN g[N] \o line ELSE g[n]) \in Seq(A)
    <3>1. g[N] \o line \in Seq(A)
      BY <1>3
    <3>2. ASSUME n # N + 1 PROVE g[n] \in Seq(A)
      <4>1. n \in 0 .. N
        BY <1>1, <3>2
      <4> QED
        BY <1>2, <4>1 DEF IsFlat
    <3> QED
      BY <3>1, <3>2
  <2>2. h[0] = g[0] /\ g[0] = <<>>
    BY <1>1, <1>2 DEF IsFlat
  <2> QED
    BY <2>1, <2>2
<1>5. ASSUME NEW n \in 0 .. (N + 1) - 1 PROVE h[n + 1] = h[n] \o more[n + 1]
  <2>1. n \in 0 .. N + 1 /\ n + 1 \in 0 .. N + 1 /\ n # N + 1
    BY <1>1
  <2>2. h[n] = g[n]
    BY <2>1
  <2>3. CASE n = N
    BY <1>1, <2>1, <2>2, <2>3
  <2>4. CASE n # N
    <3>1. n \in 0 .. N - 1 /\ n + 1 \in 1 .. N /\ n + 1 # N + 1
      BY <1>1, <2>4
    <3>2. h[n + 1] = g[n + 1] /\ more[n + 1] = ss[n + 1]
      BY <1>1, <2>1, <3>1
    <3>3. g[n + 1] = g[n] \o ss[n + 1]
      BY <1>2, <3>1 DEF IsFlat
    <3> QED
      BY <2>2, <3>2, <3>3
  <2> QED
    BY <2>3, <2>4
<1>6. IsFlat(h, A, more)
  <2> HIDE DEF h, more, N
  <2> QED
    BY <1>1, <1>4, <1>5 DEF IsFlat
<1>7. FlattenSeq(more) = h[N + 1]
  <2> HIDE DEF h
  <2>1. FlattenSeq(more) = h[Len(more)]
    <3> HIDE DEF more, N
    <3> QED
      BY <1>1, <1>6, FlattenIsFlat
  <2> QED
    BY <1>1, <2>1
<1>8. h[N + 1] = g[N] \o line
  BY <1>1
<1>9. FlattenSeq(<<>>) = <<>>
  BY DEF FlattenSeq
<1> QED
  BY <1>3, <1>7, <1>8, <1>9

-----------------------------------------------------------------------------
\* What a Writer is, and what it becomes with every byte of a sequence.
AWriter == [partial : Seq(Bytes), printed : Seq(Seq(Bytes))]

IsCutting(f, w, bytes) ==
  /\ f \in [0 .. Len(bytes) -> AWriter] /\ f[0] = w
  /\ \A n \in 0 .. Len(bytes) - 1 : f[n + 1] = Cut(f[n], bytes[n + 1])

\* A byte leaves a Writer.
LEMMA CutType ==
  ASSUME NEW w \in AWriter, NEW byte \in Bytes
  PROVE  Cut(w, byte) \in AWriter
<1>1. Append(w.partial, byte) \in Seq(Bytes) /\ <<>> \in Seq(Bytes)
  BY DEF AWriter
<1>2. Append(w.printed, Append(w.partial, byte)) \in Seq(Seq(Bytes))
  BY <1>1 DEF AWriter
<1> QED
  BY <1>1, <1>2 DEF AWriter, Cut

\* The fold that Write is.
LEMMA CutsFold ==
  ASSUME NEW w \in AWriter, NEW bytes \in Seq(Bytes)
  PROVE  \E f : IsCutting(f, w, bytes) /\ FoldLeft(Cut, w, bytes) = f[Len(bytes)]
<1> DEFINE N == Len(bytes)
           V == AWriter
           op == [i \in 1 .. N |-> [x \in V |-> Cut(x, bytes[i])]]
           Eq(g) == g = [s \in SUBSET DOMAIN bytes |->
                           IF s = {} THEN w ELSE Cut(g[s \ {Max(s)}], bytes[Max(s)])]
<1>1. N \in Nat /\ DOMAIN bytes = 1 .. N /\ w \in V /\ \A i \in 1 .. N : bytes[i] \in Bytes
  OBVIOUS
<1>2. op \in [1 .. N -> [V -> V]]
  <2>1. \A i \in 1 .. N : \A x \in V : Cut(x, bytes[i]) \in V
    BY <1>1, CutType
  <2> HIDE DEF V, N
  <2> QED
    BY <2>1
<1>3. \E g : Eq(g)
  <2>1. HasFold(N, V, w, op)
    <3> HIDE DEF N, V, op
    <3> QED
      BY <1>1, <1>2, FoldExists
  <2>2. PICK g \in [SUBSET (1 .. N) -> V] :
          \A s \in SUBSET (1 .. N) :
            g[s] = IF s = {} THEN w ELSE op[Max(s)][g[s \ {Max(s)}]]
    <3> HIDE DEF N, V, op
    <3> QED
      BY <2>1, Zenon DEF HasFold
  <2>3. ASSUME NEW s \in SUBSET (1 .. N), s # {}
        PROVE  g[s] = Cut(g[s \ {Max(s)}], bytes[Max(s)])
    <3>1. Max(s) \in 1 .. N
      <4>1. Max(s) \in s
        BY <1>1, <2>3, MaxIsMember
      <4> QED
        BY <4>1
    <3>2. g[s \ {Max(s)}] \in V
      <4> HIDE DEF V, N
      <4> QED
        BY <2>2
    <3>3. g[s] = op[Max(s)][g[s \ {Max(s)}]]
      <4> HIDE DEF V, N, op
      <4> QED
        BY <2>2, <2>3
    <3> HIDE DEF V, N
    <3> QED
      BY <3>1, <3>2, <3>3
  <2>4. g[{}] = w /\ g = [s \in SUBSET (1 .. N) |-> g[s]]
    <3> HIDE DEF N, V, op
    <3> QED
      BY <2>2
  <2>5. Eq(g)
    <3> HIDE DEF N, V, op
    <3> QED
      BY <1>1, <2>3, <2>4
  <2> HIDE DEF Eq
  <2> QED
    BY <2>5
<1>4. PICK g : Eq(g) /\ FoldLeft(Cut, w, bytes) = g[DOMAIN bytes]
  <2> DEFINE c == CHOOSE g : Eq(g)
  <2>1. FoldLeft(Cut, w, bytes) = c[DOMAIN bytes]
    BY DEF FoldLeft, MapThenFoldSet
  <2>2. Eq(c)
    <3> HIDE DEF Eq
    <3> QED
      BY <1>3
  <2> HIDE DEF c, Eq
  <2> QED
    BY <2>1, <2>2
<1>5. g[{}] = w
  BY <1>4
<1>6. ASSUME NEW n \in 0 .. N - 1, g[1 .. n] \in V
      PROVE  g[1 .. n + 1] = op[n + 1][g[1 .. n]]
  <2>1. Max(1 .. n + 1) = n + 1 /\ (1 .. n + 1) \ {n + 1} = 1 .. n
    <3>1. n \in Nat
      BY <1>1
    <3> QED
      BY <3>1, MaxOfInterval
  <2>2. 1 .. n + 1 \in SUBSET (1 .. N) /\ 1 .. n + 1 # {} /\ n + 1 \in 1 .. N
    BY <1>1, IntervalsGrow
  <2>3. g[1 .. n + 1] = Cut(g[1 .. n], bytes[n + 1])
    <3> DEFINE s == 1 .. n + 1
    <3>1. s \in SUBSET DOMAIN bytes /\ s # {}
      BY <1>1, <2>2
    <3> HIDE DEF s
    <3>2. g[s] = Cut(g[s \ {Max(s)}], bytes[Max(s)])
      BY <1>4, <3>1
    <3> QED
      BY <2>1, <3>2 DEF s
  <2> HIDE DEF V, N
  <2> QED
    BY <1>6, <2>2, <2>3
<1>7. PICK f : IsFold(f, N, w, V, op) /\ g[1 .. N] = f[N]
  <2> HIDE DEF N, V, op, Eq
  <2>1. Builds(g, N, w, V, op)
    BY <1>5, <1>6 DEF Builds
  <2>2. HasPrefixes(g, N, w, V, op)
    BY <1>1, <1>2, <2>1, FoldPrefixes
  <2> QED
    BY <2>2, Zenon DEF HasPrefixes
<1>8. ASSUME NEW n \in 0 .. N - 1 PROVE f[n + 1] = Cut(f[n], bytes[n + 1])
  <2>1. n \in 0 .. N /\ n + 1 \in 1 .. N
    BY <1>1
  <2>2. f[n] \in V /\ f[n + 1] = op[n + 1][f[n]]
    <3> HIDE DEF V, op
    <3> QED
      BY <1>7, <2>1 DEF IsFold
  <2> HIDE DEF V, N
  <2> QED
    BY <2>1, <2>2
<1>9. IsCutting(f, w, bytes)
  <2> HIDE DEF op
  <2> QED
    BY <1>7, <1>8 DEF IsCutting, IsFold
<1> HIDE DEF Eq
<1> QED
  BY <1>1, <1>4, <1>7, <1>9

-----------------------------------------------------------------------------
\* A line of the log, printed when it had k bytes, whole at its end, and at its beginning
\* unless the command began within it.
IsLine(line, k, n) ==
  \E c \in 0 .. k - 1 : \E d \in c + 1 .. k :
    /\ line = Slice(c, d)
    /\ \A x \in c + 1 .. d : x \in newlines[log] <=> x = d
    /\ n # 0 => c = 0 \/ c \in newlines[log]

\* With --tail n, a Writer that was given the log from s to k: the lines that are printed
\* reach to b, and what it has left is not a line.
WriterAt(part, lines, s, k, n) ==
  /\ \A i \in DOMAIN lines : IsLine(lines[i], k, n)
  /\ \E b \in s .. k :
       /\ FlattenSeq(lines) = Slice(s, b) /\ part = Slice(b, k)
       /\ \A x \in b + 1 .. k : x \notin newlines[log]
       /\ n # 0 => b = 0 \/ b \in newlines[log]

\* The Writer of the command, which has read the log since it began.
WriterFollows == WriterAt(partial, printed, since, lastOffset, tail)

\* The inductive invariant: the instance logs behind what was read, and as long as it is not
\* replaced, the Writer is where the command last read the log.
IInv ==
  /\ TypeOK
  /\ newlines[log] \subseteq 1 .. length /\ \A g \in log + 1 .. MaxLogs : newlines[g] = {}
  /\ followed <= log
  /\ pc \in {"idle", "first", "once"} =>
       since = 0 /\ lastOffset = 0 /\ partial = <<>> /\ printed = <<>>
  /\ Unreplaced =>
       /\ since <= lastOffset /\ lastOffset <= length
       /\ WriterFollows

\* Slices of the log, and how they grow and meet.
LEMMA Slices ==
  ASSUME log \in 1 .. MaxLogs, NEW a \in 0 .. MaxBytes, NEW b \in a .. MaxBytes
  PROVE  /\ Slice(a, b) \in Seq(Bytes) /\ Len(Slice(a, b)) = b - a
         /\ \A i \in 1 .. b - a : Slice(a, b)[i] = <<log, a + i>>
         /\ Slice(a, a) = <<>> /\ DOMAIN Slice(a, b) = 1 .. b - a
<1> USE ConsoleAssumption
<1>1. a \in Nat /\ b \in Nat /\ b - a \in Nat
  OBVIOUS
<1>2. \A i \in 1 .. b - a : <<log, a + i>> \in Bytes
  BY <1>1 DEF Bytes, Places
<1>3. Slice(a, b) \in Seq(Bytes) /\ Len(Slice(a, b)) = b - a
  BY <1>1, <1>2 DEF Slice
<1>4. 1 .. a - a = {}
  BY <1>1
<1>5. Slice(a, a) = <<>>
  BY <1>4 DEF Slice
<1> QED
  BY <1>1, <1>3, <1>5 DEF Slice

LEMMA SliceGrows ==
  ASSUME log \in 1 .. MaxLogs, NEW a \in 0 .. MaxBytes, NEW b \in a .. MaxBytes, b < MaxBytes
  PROVE  Append(Slice(a, b), <<log, b + 1>>) = Slice(a, b + 1)
<1> USE ConsoleAssumption
<1> DEFINE s == Slice(a, b)
           e == b + 1
           t == Slice(a, e)
           byte == <<log, e>>
<1>1. a \in Nat /\ b \in Nat /\ e \in a .. MaxBytes /\ e \in Nat /\ e \in Places
  BY DEF Places
<1>2. s \in Seq(Bytes) /\ Len(s) = b - a /\ \A i \in 1 .. b - a : s[i] = <<log, a + i>>
  BY Slices
<1>3. t \in Seq(Bytes) /\ Len(t) = e - a /\ \A i \in 1 .. e - a : t[i] = <<log, a + i>>
  <2> HIDE DEF e
  <2> QED
    BY <1>1, Slices
<1>4. byte \in Bytes
  BY <1>1 DEF Bytes
<1> HIDE DEF s, t, byte
<1>5. Append(s, byte) \in Seq(Bytes) /\ Len(Append(s, byte)) = Len(s) + 1
      /\ Append(s, byte)[Len(s) + 1] = byte
      /\ \A i \in 1 .. Len(s) : Append(s, byte)[i] = s[i]
  BY <1>2, <1>4, AppendProperties
<1>6. Len(s) + 1 = e - a
  BY <1>1, <1>2
<1>7. ASSUME NEW i \in 1 .. e - a PROVE Append(s, byte)[i] = t[i]
  <2>1. CASE i = e - a
    <3>1. a + i = e /\ i = Len(s) + 1
      BY <1>1, <1>6, <2>1
    <3>2. t[i] = <<log, e>>
      BY <1>3, <3>1
    <3> QED
      BY <1>5, <3>1, <3>2 DEF byte
  <2>2. CASE i # e - a
    <3>1. i \in 1 .. b - a
      BY <1>1, <2>2
    <3>2. Append(s, byte)[i] = s[i] /\ s[i] = <<log, a + i>>
      BY <1>2, <1>5, <3>1
    <3> QED
      BY <1>3, <3>2
  <2> QED
    BY <2>1, <2>2
<1>8. Append(s, byte) = t
  <2>1. \A i \in 1 .. Len(t) : Append(s, byte)[i] = t[i]
    BY <1>3, <1>7
  <2> HIDE DEF e
  <2> QED
    BY <1>3, <1>5, <1>6, <2>1, SeqEqual
<1> QED
  BY <1>8 DEF s, t, byte

LEMMA SlicesMeet ==
  ASSUME log \in 1 .. MaxLogs, NEW a \in 0 .. MaxBytes, NEW b \in a .. MaxBytes,
         NEW c \in b .. MaxBytes
  PROVE  Slice(a, b) \o Slice(b, c) = Slice(a, c)
<1> USE ConsoleAssumption
<1> DEFINE s == Slice(a, b)
           t == Slice(b, c)
           u == Slice(a, c)
<1>1. a \in Nat /\ b \in Nat /\ c \in Nat /\ b \in 0 .. MaxBytes /\ c \in a .. MaxBytes
  OBVIOUS
<1>2. s \in Seq(Bytes) /\ Len(s) = b - a /\ \A i \in 1 .. b - a : s[i] = <<log, a + i>>
  BY Slices
<1>3. t \in Seq(Bytes) /\ Len(t) = c - b /\ \A i \in 1 .. c - b : t[i] = <<log, b + i>>
  BY <1>1, Slices
<1>4. u \in Seq(Bytes) /\ Len(u) = c - a /\ \A i \in 1 .. c - a : u[i] = <<log, a + i>>
  BY <1>1, Slices
<1> HIDE DEF s, t, u
<1>5. /\ s \o t \in Seq(Bytes) /\ Len(s \o t) = c - a
      /\ \A i \in 1 .. c - a : (s \o t)[i] = IF i <= Len(s) THEN s[i] ELSE t[i - Len(s)]
  <2>1. /\ s \o t \in Seq(Bytes) /\ Len(s \o t) = Len(s) + Len(t)
        /\ \A i \in 1 .. Len(s) + Len(t) :
             (s \o t)[i] = IF i <= Len(s) THEN s[i] ELSE t[i - Len(s)]
    BY <1>2, <1>3, ConcatProperties
  <2>2. Len(s) + Len(t) = c - a
    BY <1>1, <1>2, <1>3
  <2> QED
    BY <2>1, <2>2
<1>6. ASSUME NEW i \in 1 .. c - a PROVE (s \o t)[i] = u[i]
  <2>1. CASE i <= b - a
    <3>1. i \in 1 .. b - a /\ i <= Len(s)
      BY <1>1, <1>2, <2>1
    <3>2. (s \o t)[i] = s[i]
      BY <1>5, <3>1
    <3>3. s[i] = <<log, a + i>> /\ u[i] = <<log, a + i>>
      BY <1>2, <1>4, <3>1
    <3> QED
      BY <3>2, <3>3
  <2>2. CASE ~(i <= b - a)
    <3>1. i - (b - a) \in 1 .. c - b /\ b + (i - (b - a)) = a + i
      BY <1>1, <2>2
    <3>2. (s \o t)[i] = t[i - (b - a)]
      BY <1>2, <1>5, <2>2
    <3> QED
      BY <1>3, <1>4, <3>1, <3>2
  <2> QED
    BY <2>1, <2>2
<1>7. s \o t = u
  BY <1>4, <1>5, <1>6, SeqEqual
<1> QED
  BY <1>7 DEF s, t, u

-----------------------------------------------------------------------------
\* A line stays one when the log goes on.
LEMMA LineLater ==
  ASSUME NEW line, NEW k \in Nat, NEW m \in Nat, k <= m, NEW n, IsLine(line, k, n)
  PROVE  IsLine(line, m, n)
<1>1. PICK c \in 0 .. k - 1 : \E d \in c + 1 .. k :
        /\ line = Slice(c, d)
        /\ \A x \in c + 1 .. d : x \in newlines[log] <=> x = d
        /\ n # 0 => c = 0 \/ c \in newlines[log]
  BY DEF IsLine
<1>2. PICK d \in c + 1 .. k :
        /\ line = Slice(c, d)
        /\ \A x \in c + 1 .. d : x \in newlines[log] <=> x = d
        /\ n # 0 => c = 0 \/ c \in newlines[log]
  BY <1>1
<1>3. c \in 0 .. m - 1 /\ d \in c + 1 .. m
  BY <1>2
<1> QED
  BY <1>2, <1>3 DEF IsLine

\* The next byte of the log leaves the Writer at the place after it.
LEMMA CutKeeps ==
  ASSUME log \in 1 .. MaxLogs, NEW w \in AWriter, NEW s \in 0 .. MaxBytes,
         NEW k \in s .. MaxBytes, k < MaxBytes, NEW n, WriterAt(w.partial, w.printed, s, k, n),
         NEW v, v = Cut(w, <<log, k + 1>>)
  PROVE  WriterAt(v.partial, v.printed, s, k + 1, n)
<1> USE ConsoleAssumption
<1> DEFINE byte == <<log, k + 1>>
           line == Append(w.partial, byte)
<1>1. PICK b \in s .. k :
        /\ FlattenSeq(w.printed) = Slice(s, b) /\ w.partial = Slice(b, k)
        /\ \A x \in b + 1 .. k : x \notin newlines[log]
        /\ n # 0 => b = 0 \/ b \in newlines[log]
  BY DEF WriterAt
<1>2. /\ s \in Nat /\ k \in Nat /\ b \in Nat /\ b \in 0 .. MaxBytes /\ b \in s .. MaxBytes
      /\ k \in b .. MaxBytes /\ k + 1 \in b .. MaxBytes /\ k + 1 \in 0 .. MaxBytes /\ k + 1 \in Nat
      /\ k + 1 \in s .. k + 1 /\ b \in s .. k + 1 /\ b \in 0 .. (k + 1) - 1
      /\ k + 1 \in b + 1 .. k + 1
  OBVIOUS
<1>3. line = Slice(b, k + 1)
  BY <1>1, <1>2, SliceGrows
<1>4. \A i \in DOMAIN w.printed : IsLine(w.printed[i], k + 1, n)
  <2>1. \A i \in DOMAIN w.printed : IsLine(w.printed[i], k, n)
    BY DEF WriterAt
  <2> QED
    BY <1>2, <2>1, LineLater
<1>5. Newline(byte) <=> k + 1 \in newlines[log]
  BY DEF Newline
<1>6. CASE ~Newline(byte)
  <2>1. v.partial = line /\ v.printed = w.printed
    BY <1>6 DEF Cut
  <2>2. \A x \in b + 1 .. k + 1 : x \notin newlines[log]
    <3>1. \A x \in b + 1 .. k + 1 : x = k + 1 \/ x \in b + 1 .. k
      BY <1>2
    <3> QED
      BY <1>1, <1>5, <1>6, <3>1
  <2> HIDE DEF line
  <2> QED
    BY <1>1, <1>2, <1>3, <1>4, <2>1, <2>2 DEF WriterAt
<1>7. CASE Newline(byte)
  <2>1. v.partial = <<>> /\ v.printed = Append(w.printed, line)
    BY <1>7 DEF Cut
  <2>2. line \in Seq(Bytes) /\ w.printed \in Seq(Seq(Bytes))
    <3>1. Slice(b, k + 1) \in Seq(Bytes)
      BY <1>2, Slices
    <3> QED
      BY <1>3, <3>1 DEF AWriter
  <2>3. FlattenSeq(v.printed) = Slice(s, k + 1)
    <3>1. FlattenSeq(v.printed) = FlattenSeq(w.printed) \o line
      <4> HIDE DEF line
      <4> QED
        BY <2>1, <2>2, FlattenAppend
    <3>2. Slice(s, b) \o Slice(b, k + 1) = Slice(s, k + 1)
      BY <1>2, SlicesMeet
    <3> HIDE DEF line
    <3> QED
      BY <1>1, <1>3, <3>1, <3>2
  <2>4. v.partial = Slice(k + 1, k + 1)
    <3>1. k + 1 \in k + 1 .. MaxBytes
      BY <1>2
    <3>2. Slice(k + 1, k + 1) = <<>>
      BY <1>2, <3>1, Slices
    <3> QED
      BY <2>1, <3>2
  <2>5. IsLine(line, k + 1, n)
    <3>1. \A x \in b + 1 .. k + 1 : x \in newlines[log] <=> x = k + 1
      <4>1. \A x \in b + 1 .. k + 1 : x = k + 1 \/ x \in b + 1 .. k
        BY <1>2
      <4>2. \A x \in b + 1 .. k : x # k + 1
        BY <1>2
      <4> QED
        BY <1>1, <1>5, <1>7, <4>1, <4>2
    <3> HIDE DEF line
    <3> QED
      BY <1>1, <1>2, <1>3, <3>1 DEF IsLine
  <2>6. \A i \in DOMAIN v.printed : IsLine(v.printed[i], k + 1, n)
    <3> HIDE DEF line
    <3>1. /\ DOMAIN v.printed = 1 .. Len(w.printed) + 1
          /\ v.printed[Len(w.printed) + 1] = line
          /\ \A i \in 1 .. Len(w.printed) : v.printed[i] = w.printed[i]
          /\ Len(w.printed) \in Nat /\ DOMAIN w.printed = 1 .. Len(w.printed)
      <4> DEFINE S == Seq(Bytes)
                 lines == w.printed
      <4>1. lines \in Seq(S) /\ line \in S /\ v.printed = Append(lines, line)
        BY <2>1, <2>2
      <4> HIDE DEF S, lines
      <4>2. /\ DOMAIN v.printed = 1 .. Len(lines) + 1
            /\ v.printed[Len(lines) + 1] = line
            /\ \A i \in 1 .. Len(lines) : v.printed[i] = lines[i]
            /\ Len(lines) \in Nat /\ DOMAIN lines = 1 .. Len(lines)
        <5> DEFINE more == Append(lines, line)
        <5>1. /\ more \in Seq(S) /\ Len(more) = Len(lines) + 1 /\ more[Len(lines) + 1] = line
              /\ \A i \in 1 .. Len(lines) : more[i] = lines[i]
          BY <4>1, AppendProperties
        <5> HIDE DEF more
        <5>2. DOMAIN more = 1 .. Len(lines) + 1
          BY <5>1
        <5>3. Len(lines) \in Nat /\ DOMAIN lines = 1 .. Len(lines)
          BY <4>1
        <5> QED
          BY <4>1, <5>1, <5>2, <5>3 DEF more
      <4> QED
        BY <4>2 DEF lines
    <3>2. \A i \in 1 .. Len(w.printed) + 1 : i = Len(w.printed) + 1 \/ i \in 1 .. Len(w.printed)
      BY <3>1
    <3> QED
      BY <1>4, <2>5, <3>1, <3>2
  <2>7. \A x \in (k + 1) + 1 .. k + 1 : x \notin newlines[log]
    BY <1>2
  <2>8. k + 1 \in newlines[log]
    BY <1>5, <1>7
  <2> QED
    BY <1>2, <2>3, <2>4, <2>6, <2>7, <2>8 DEF WriterAt
<1> QED
  BY <1>6, <1>7

\* So do all of a slice, one after the other.
LEMMA WriteKeeps ==
  ASSUME log \in 1 .. MaxLogs, partial \in Seq(Bytes), printed \in Seq(Seq(Bytes)),
         NEW k \in 0 .. MaxBytes, NEW m \in k .. MaxBytes, Write(Slice(k, m))
  PROVE  /\ partial' \in Seq(Bytes) /\ printed' \in Seq(Seq(Bytes))
         /\ \A s \in 0 .. k : \A n :
              WriterAt(partial, printed, s, k, n) => WriterAt(partial', printed', s, m, n)
<1> USE ConsoleAssumption
<1> DEFINE w == [partial |-> partial, printed |-> printed]
           bytes == Slice(k, m)
<1>1. k \in Nat /\ m \in Nat /\ m - k \in Nat /\ k + (m - k) = m
  OBVIOUS
<1>2. bytes \in Seq(Bytes) /\ Len(bytes) = m - k /\ \A i \in 1 .. m - k : bytes[i] = <<log, k + i>>
  BY Slices
<1>3. w \in AWriter
  BY DEF AWriter
<1> HIDE DEF bytes
<1>4. PICK f : IsCutting(f, w, bytes) /\ FoldLeft(Cut, w, bytes) = f[Len(bytes)]
  <2> HIDE DEF w
  <2> QED
    BY <1>2, <1>3, CutsFold
<1>5. partial' = f[m - k].partial /\ printed' = f[m - k].printed
  BY <1>2, <1>4 DEF Write, bytes
<1>6. \A i \in 0 .. m - k : f[i] \in AWriter
  BY <1>1, <1>2, <1>4 DEF IsCutting
<1>7. f[0] = w /\ \A i \in 0 .. m - k - 1 : f[i + 1] = Cut(f[i], bytes[i + 1])
  BY <1>1, <1>2, <1>4 DEF IsCutting
<1>8. ASSUME NEW s \in 0 .. k, NEW n, WriterAt(partial, printed, s, k, n)
      PROVE  WriterAt(partial', printed', s, m, n)
  <2> DEFINE At(i) == WriterAt(f[i].partial, f[i].printed, s, k + i, n)
             T == {i \in Nat : i <= m - k => At(i)}
  <2>1. 0 \in T /\ T \in SUBSET Nat
    <3>1. f[0].partial = partial /\ f[0].printed = printed /\ k + 0 = k
      BY <1>1, <1>7
    <3> QED
      BY <1>8, <3>1
  <2>2. ASSUME NEW i \in T PROVE i + 1 \in T
    <3>1. ASSUME i + 1 <= m - k PROVE At(i + 1)
      <4>1. i \in Nat /\ At(i)
        BY <1>1, <3>1
      <4> HIDE DEF T
      <4>2. /\ i \in 0 .. m - k /\ i \in 0 .. m - k - 1 /\ i + 1 \in 1 .. m - k
            /\ k + i \in s .. MaxBytes /\ k + i < MaxBytes /\ (k + i) + 1 = k + (i + 1)
            /\ s \in 0 .. MaxBytes
        BY <1>1, <3>1, <4>1
      <4>3. f[i + 1] = Cut(f[i], <<log, (k + i) + 1>>)
        BY <1>2, <1>7, <4>2
      <4>4. f[i] \in AWriter
        BY <1>6, <4>2
      <4> DEFINE j == k + i
      <4>5. WriterAt(f[i + 1].partial, f[i + 1].printed, s, j + 1, n)
        <5>1. j \in s .. MaxBytes /\ j < MaxBytes /\ f[i + 1] = Cut(f[i], <<log, j + 1>>)
              /\ WriterAt(f[i].partial, f[i].printed, s, j, n)
          BY <4>1, <4>2, <4>3
        <5> HIDE DEF j, At
        <5> QED
          BY <4>2, <4>4, <5>1, CutKeeps
      <4> QED
        BY <4>2, <4>5
    <3> HIDE DEF At
    <3> QED
      BY <3>1
  <2>3. T = Nat
    <3> HIDE DEF T
    <3> QED
      BY <2>1, <2>2, SetInduction
  <2>4. At(m - k)
    <3>1. m - k \in T
      BY <1>1, <2>3
    <3> HIDE DEF At
    <3> QED
      BY <1>1, <3>1
  <2> QED
    BY <1>1, <1>5, <2>4
<1>9. partial' \in Seq(Bytes) /\ printed' \in Seq(Seq(Bytes))
  <2>1. f[m - k] \in AWriter
    BY <1>1, <1>6
  <2> QED
    BY <1>5, <2>1 DEF AWriter
<1> QED
  BY <1>8, <1>9

\* What the Writer holds is of the log as it was: it does not change when a byte is logged.
LEMMA WriterStable ==
  ASSUME lastOffset \in Nat, since \in Nat, WriterFollows,
         UNCHANGED <<log, since, lastOffset, tail, partial, printed>>,
         \A x \in Nat : x <= lastOffset => (x \in newlines'[log] <=> x \in newlines[log])
  PROVE  WriterFollows'
<1> USE DEF WriterFollows
<1>2. ASSUME NEW i \in DOMAIN printed PROVE IsLine(printed[i], lastOffset, tail)'
  <2>1. PICK c \in 0 .. lastOffset - 1 : \E d \in c + 1 .. lastOffset :
          /\ printed[i] = Slice(c, d)
          /\ \A x \in c + 1 .. d : x \in newlines[log] <=> x = d
          /\ tail # 0 => c = 0 \/ c \in newlines[log]
    BY DEF WriterAt, IsLine
  <2>2. PICK d \in c + 1 .. lastOffset :
          /\ printed[i] = Slice(c, d)
          /\ \A x \in c + 1 .. d : x \in newlines[log] <=> x = d
          /\ tail # 0 => c = 0 \/ c \in newlines[log]
    BY <2>1
  <2>3. c \in Nat /\ c <= lastOffset /\ \A x \in c + 1 .. d : x \in Nat /\ x <= lastOffset
    OBVIOUS
  <2>4. printed'[i] = [j \in 1 .. d - c |-> <<log', c + j>>]
    BY <2>2 DEF Slice
  <2>5. \A x \in c + 1 .. d : x \in newlines'[log'] <=> x = d
    BY <2>2, <2>3
  <2>6. tail' # 0 => c = 0 \/ c \in newlines'[log']
    BY <2>2, <2>3
  <2>7. c \in 0 .. lastOffset' - 1 /\ d \in c + 1 .. lastOffset'
    OBVIOUS
  <2> QED
    BY <2>4, <2>5, <2>6, <2>7 DEF IsLine, Slice
<1>3. PICK b \in since .. lastOffset :
        /\ FlattenSeq(printed) = Slice(since, b) /\ partial = Slice(b, lastOffset)
        /\ \A x \in b + 1 .. lastOffset : x \notin newlines[log]
        /\ tail # 0 => b = 0 \/ b \in newlines[log]
  BY DEF WriterAt
<1>4. b \in Nat /\ b <= lastOffset /\ \A x \in b + 1 .. lastOffset : x \in Nat /\ x <= lastOffset
  OBVIOUS
<1>5. /\ \A x \in b + 1 .. lastOffset' : x \notin newlines'[log']
      /\ tail' # 0 => b = 0 \/ b \in newlines'[log']
  BY <1>3, <1>4
<1>6. /\ FlattenSeq(printed') = [j \in 1 .. b - since' |-> <<log', since' + j>>]
      /\ partial' = [j \in 1 .. lastOffset' - b |-> <<log', b + j>>]
  BY <1>3 DEF Slice
<1>7. b \in since' .. lastOffset' /\ DOMAIN printed' = DOMAIN printed
  OBVIOUS
<1> QED
  BY <1>2, <1>5, <1>6, <1>7 DEF WriterAt, Slice

\* A Writer that was given nothing.
LEMMA WriterEmpty ==
  ASSUME log \in 1 .. MaxLogs, NEW s \in 0 .. MaxBytes, NEW n,
         n # 0 => s = 0 \/ s \in newlines[log]
  PROVE  WriterAt(<<>>, <<>>, s, s, n)
<1> USE ConsoleAssumption
<1>1. s \in s .. s /\ s \in s .. MaxBytes /\ s \in Nat
  OBVIOUS
<1>2. Slice(s, s) = <<>>
  BY <1>1, Slices
<1>3. FlattenSeq(<<>>) = <<>>
  BY DEF FlattenSeq
<1>4. \A x \in s + 1 .. s : x \notin newlines[log]
  BY <1>1
<1> QED
  BY <1>1, <1>2, <1>3, <1>4 DEF WriterAt

\* The tail begins at the beginning of the log or after a newline.
LEMMA TailIsLine ==
  ASSUME TypeOK, NEW n
  PROVE  TailFrom(n) \in 0 .. length /\ (TailFrom(n) = 0 \/ TailFrom(n) \in newlines[log])
<1> USE ConsoleAssumption
<1> DEFINE E == {e \in newlines[log] \cap 1 .. length :
                   Cardinality({x \in newlines[log] \cap 1 .. length : x >= e}) >= n}
<1>1. length \in Nat
  BY DEF TypeOK
<1>2. TailFrom(n) = Max({0} \cup E)
  BY DEF TailFrom
<1>3. E \subseteq newlines[log] \cap 1 .. length
  OBVIOUS
<1> HIDE DEF E
<1> DEFINE U == {0} \cup E
<1>4. U \in SUBSET (0 .. length) /\ U # {}
  BY <1>1, <1>3
<1> HIDE DEF U
<1>5. \E x \in U : \A y \in U : x >= y
  <2> DEFINE T == {length - x : x \in U}
  <2>1. T \in SUBSET Nat /\ T # {}
    <3>1. \A x \in U : length - x \in Nat
      BY <1>1, <1>4
    <3> QED
      BY <1>4, <3>1
  <2>2. PICK t \in T : \A r \in T : t <= r
    <3> HIDE DEF T
    <3> QED
      BY <2>1, LeastNat
  <2>3. PICK x \in U : t = length - x
    BY <2>2
  <2>4. \A y \in U : length - x <= length - y
    BY <2>2, <2>3
  <2>5. x \in Nat /\ \A y \in U : y \in Nat
    BY <1>4
  <2> QED
    BY <1>1, <2>4, <2>5
<1>6. Max(U) \in U
  BY <1>5 DEF Max
<1>7. Max(U) \in 0 .. length
  BY <1>4, <1>6
<1> QED
  BY <1>2, <1>3, <1>6, <1>7 DEF U

\* What is written first.
LEMMA FirstFromIsLine ==
  ASSUME TypeOK
  PROVE  /\ FirstFrom \in 0 .. length
         /\ OnceFrom \in 0 .. length
         /\ tail # 0 => FirstFrom = 0 \/ FirstFrom \in newlines[log]
         /\ tail # 0 => OnceFrom = 0 \/ OnceFrom \in newlines[log]
<1> USE ConsoleAssumption
<1>1. length \in Nat /\ 0 \in 0 .. length /\ length \in 0 .. length
  BY DEF TypeOK
<1>2. \A n : TailFrom(n) \in 0 .. length /\ (TailFrom(n) = 0 \/ TailFrom(n) \in newlines[log])
  BY TailIsLine
<1> QED
  BY <1>1, <1>2 DEF FirstFrom, OnceFrom

-----------------------------------------------------------------------------
\* At first there is no log, and the command has not begun.
LEMMA InitIInv == Init => IInv
<1> USE ConsoleAssumption
<1> SUFFICES ASSUME Init PROVE IInv
  OBVIOUS
<1>1. TypeOK
  BY DEF Init, TypeOK
<1>2. log \in 1 .. MaxLogs /\ newlines[log] = {} /\ \A g \in log + 1 .. MaxLogs : newlines[g] = {}
  BY DEF Init
<1>3. WriterFollows
  <2>1. WriterAt(<<>>, <<>>, 0, 0, tail)
    <3>1. 0 \in 0 .. MaxBytes
      OBVIOUS
    <3> QED
      BY <1>2, <3>1, WriterEmpty
  <2> QED
    BY <2>1 DEF Init, WriterFollows
<1> QED
  BY <1>1, <1>2, <1>3 DEF Init, IInv

\* The instance logs a byte, beyond what has been read, goes, or is replaced.
LEMMA InstanceKeeps == IInv /\ (LogByte \/ Gone \/ Replaced) => IInv'
<1> USE ConsoleAssumption DEF writerVars
<1> SUFFICES ASSUME IInv, LogByte \/ Gone \/ Replaced PROVE IInv'
  OBVIOUS
<1>0. /\ TypeOK /\ log \in 1 .. MaxLogs /\ length \in 0 .. MaxBytes /\ length \in Nat
      /\ newlines \in [1 .. MaxLogs -> SUBSET Places]
      /\ since \in Nat /\ lastOffset \in Nat /\ followed \in Nat
  BY DEF IInv, TypeOK
<1>1. CASE LogByte
  <2>1. PICK new \in SUBSET {length + 1} : newlines' = [newlines EXCEPT ![log] = @ \cup new]
    BY <1>1 DEF LogByte
  <2>2. /\ length' = length + 1 /\ length' \in 0 .. MaxBytes /\ length + 1 \in Places
        /\ UNCHANGED <<up, log, pc, tail, lastOffset, since, followed, partial, printed>>
    BY <1>0, <1>1 DEF LogByte, Places
  <2>3. /\ newlines'[log] = newlines[log] \cup new
        /\ \A g \in 1 .. MaxLogs : g # log => newlines'[g] = newlines[g]
        /\ newlines' \in [1 .. MaxLogs -> SUBSET Places]
    BY <1>0, <2>1, <2>2
  <2>4. TypeOK'
    BY <1>0, <2>2, <2>3 DEF TypeOK
  <2>5. newlines'[log'] \subseteq 1 .. length' /\ \A g \in log' + 1 .. MaxLogs : newlines'[g] = {}
    <3>1. newlines[log] \subseteq 1 .. length /\ \A g \in log + 1 .. MaxLogs : newlines[g] = {}
      BY DEF IInv
    <3>2. \A g \in log + 1 .. MaxLogs : g \in 1 .. MaxLogs /\ g # log
      BY <1>0
    <3>3. \A x \in 1 .. length : x \in 1 .. length + 1
      BY <1>0
    <3>4. length + 1 \in 1 .. length + 1
      BY <1>0
    <3>5. newlines'[log] \subseteq 1 .. length + 1
      BY <2>1, <2>3, <3>1, <3>3, <3>4
    <3>6. \A g \in log + 1 .. MaxLogs : newlines'[g] = {}
      BY <2>3, <3>1, <3>2
    <3> QED
      BY <2>2, <3>5, <3>6
  <2>6. ASSUME Unreplaced'
        PROVE  /\ since' <= lastOffset' /\ lastOffset' <= length'
               /\ WriterFollows'
    <3>1. /\ since <= lastOffset /\ lastOffset <= length
          /\ WriterFollows
      BY <2>2, <2>6 DEF IInv, Unreplaced
    <3>2. \A x \in Nat : x <= lastOffset => (x \in newlines'[log] <=> x \in newlines[log])
      BY <1>0, <2>1, <2>3, <3>1
    <3>3. WriterFollows'
      BY <1>0, <2>2, <3>1, <3>2, WriterStable
    <3> QED
      BY <1>0, <2>2, <3>1, <3>3
  <2> QED
    BY <2>2, <2>4, <2>5, <2>6 DEF IInv
<1>2. CASE Gone
  <2>1. UNCHANGED <<log, length, newlines, pc, tail, lastOffset, since, followed, partial, printed>>
    BY <1>2 DEF Gone
  <2>2. TypeOK'
    BY <1>0, <1>2, <2>1 DEF TypeOK, Gone
  <2>3. Unreplaced' => WriterFollows'
    <3>1. ASSUME Unreplaced' PROVE WriterFollows
      BY <2>1, <3>1 DEF IInv, Unreplaced
    <3> QED
      BY <1>0, <2>1, <3>1, WriterStable
  <2> QED
    BY <2>1, <2>2, <2>3 DEF IInv, Unreplaced
<1>3. CASE Replaced
  <2>1. /\ UNCHANGED <<newlines, pc, tail, lastOffset, since, followed, partial, printed>>
        /\ log' = log + 1 /\ log' \in 1 .. MaxLogs /\ length' = 0
    BY <1>0, <1>3 DEF Replaced
  <2>2. TypeOK'
    BY <1>0, <1>3, <2>1 DEF TypeOK, Replaced
  <2>3. newlines'[log'] = {} /\ \A g \in log' + 1 .. MaxLogs : newlines'[g] = {}
    <3>1. log' \in log + 1 .. MaxLogs /\ \A g \in log' + 1 .. MaxLogs : g \in log + 1 .. MaxLogs
      BY <1>0, <2>1
    <3> QED
      BY <2>1, <3>1 DEF IInv
  <2>4. followed' <= log' /\ ~Unreplaced'
    BY <1>0, <2>1 DEF IInv, Unreplaced
  <2> QED
    BY <2>1, <2>2, <2>3, <2>4 DEF IInv
<1> QED
  BY <1>1, <1>2, <1>3

\* The command begins, and has read nothing; or it ends, and nothing is read any more.
LEMMA CommandKeeps == IInv /\ (Begin \/ End) => IInv'
<1> USE ConsoleAssumption DEF writerVars, instanceVars
<1> SUFFICES ASSUME IInv, Begin \/ End PROVE IInv'
  OBVIOUS
<1>0. TypeOK
  BY DEF IInv
<1>1. UNCHANGED <<up, log, length, newlines, lastOffset, since, followed, partial, printed>>
  BY DEF Begin, End
<1>2. CASE Begin
  <2>1. tail' \in Tails /\ pc' \in {"first", "once", "done"} /\ pc = "idle"
    BY <1>2 DEF Begin, LogsAction
  <2>2. since = 0 /\ lastOffset = 0 /\ partial = <<>> /\ printed = <<>>
    BY <2>1 DEF IInv
  <2>3. WriterFollows'
    <3>1. log' \in 1 .. MaxLogs /\ 0 \in 0 .. MaxBytes
      BY <1>0, <1>1 DEF TypeOK
    <3>2. WriterAt(<<>>, <<>>, 0, 0, tail)'
      <4>1. \A n : WriterAt(<<>>, <<>>, 0, 0, n)
        BY <1>0, <3>1, WriterEmpty DEF TypeOK
      <4> QED
        BY <1>1, <4>1 DEF WriterAt, Slice
    <3> QED
      BY <1>1, <2>2, <3>2 DEF WriterFollows
  <2>4. TypeOK'
    BY <1>0, <1>1, <2>1 DEF TypeOK
  <2> QED
    BY <1>1, <2>2, <2>3, <2>4 DEF IInv, Unreplaced
<1>3. CASE End
  <2>1. tail' = tail /\ pc' = "done"
    BY <1>3 DEF End
  <2>2. TypeOK'
    BY <1>0, <1>1, <2>1 DEF TypeOK
  <2>3. Unreplaced' => WriterFollows'
    <3>1. ASSUME Unreplaced' PROVE WriterFollows
      BY <1>1, <3>1 DEF IInv, Unreplaced
    <3> QED
      BY <1>0, <1>1, <2>1, <3>1, WriterStable DEF TypeOK
  <2> QED
    BY <1>1, <2>1, <2>2, <2>3 DEF IInv, Unreplaced
<1> QED
  BY <1>2, <1>3

\* What WriterAt says, when the log stays the same, of the Writer in the next state.
LEMMA WriterMoves ==
  ASSUME UNCHANGED <<log, newlines>>, WriterAt(partial', printed', since', lastOffset', tail')
  PROVE  WriterFollows'
<1>1. ASSUME NEW i \in DOMAIN printed' PROVE IsLine(printed[i], lastOffset, tail)'
  <2> DEFINE Same(c, d) == /\ printed'[i] = Slice(c, d)
                           /\ \A x \in c + 1 .. d : x \in newlines[log] <=> x = d
                           /\ tail' # 0 => c = 0 \/ c \in newlines[log]
  <2>1. IsLine(printed'[i], lastOffset', tail')
    BY DEF WriterAt
  <2>2. PICK c \in 0 .. lastOffset' - 1 : \E d \in c + 1 .. lastOffset' : Same(c, d)
    BY <2>1 DEF IsLine
  <2>3. PICK d \in c + 1 .. lastOffset' : Same(c, d)
    BY <2>2
  <2>4. printed'[i] = [j \in 1 .. d - c |-> <<log', c + j>>]
    BY <2>3 DEF Slice
  <2>5. /\ \A x \in c + 1 .. d : x \in newlines'[log'] <=> x = d
        /\ tail' # 0 => c = 0 \/ c \in newlines'[log']
    BY <2>3
  <2> QED
    BY <2>4, <2>5 DEF IsLine, Slice
<1>2. \E b \in since' .. lastOffset' :
        /\ FlattenSeq(printed') = [i \in 1 .. b - since' |-> <<log', since' + i>>]
        /\ partial' = [i \in 1 .. lastOffset' - b |-> <<log', b + i>>]
        /\ \A x \in b + 1 .. lastOffset' : x \notin newlines'[log']
        /\ tail' # 0 => b = 0 \/ b \in newlines'[log']
  BY DEF WriterAt, Slice
<1> QED
  BY <1>1, <1>2 DEF WriterFollows, WriterAt, Slice

\* The first read writes what --tail asks for, and the Writer follows the log from there.
LEMMA ReadKeeps ==
  ASSUME IInv, pc \in {"first", "once"}, NEW from \in 0 .. length, NEW next \in {"follow", "done"},
         tail # 0 => from = 0 \/ from \in newlines[log], Read(from, next)
  PROVE  IInv'
<1> USE ConsoleAssumption DEF instanceVars
<1>0. /\ TypeOK /\ log \in 1 .. MaxLogs /\ length \in 0 .. MaxBytes
      /\ from \in 0 .. MaxBytes /\ length \in from .. MaxBytes /\ from \in 0 .. from
      /\ from <= length /\ from \in Nat
  BY DEF IInv, TypeOK
<1>1. /\ UNCHANGED <<up, log, length, newlines, tail>> /\ Write(Slice(from, length))
      /\ since' = from /\ followed' = log /\ lastOffset' = length /\ pc' = next
  BY DEF Read
<1>2. partial = <<>> /\ printed = <<>>
  BY DEF IInv
<1>3. /\ partial' \in Seq(Bytes) /\ printed' \in Seq(Seq(Bytes))
      /\ WriterAt(partial, printed, from, from, tail)
           => WriterAt(partial', printed', from, length, tail)
  <2>1. partial \in Seq(Bytes) /\ printed \in Seq(Seq(Bytes))
    BY <1>0 DEF TypeOK
  <2> QED
    BY <1>0, <1>1, <2>1, WriteKeeps
<1>4. WriterAt(partial, printed, from, from, tail)
  BY <1>0, <1>2, WriterEmpty
<1>5. WriterFollows'
  BY <1>1, <1>3, <1>4, WriterMoves
<1>6. TypeOK'
  BY <1>0, <1>1, <1>3 DEF TypeOK
<1> QED
  BY <1>0, <1>1, <1>5, <1>6 DEF IInv, Unreplaced

\* A poll writes what the log has got since.
LEMMA PollKeeps == IInv /\ Poll => IInv'
<1> USE ConsoleAssumption DEF instanceVars
<1> SUFFICES ASSUME IInv, Poll PROVE IInv'
  OBVIOUS
<1>0. /\ TypeOK /\ log \in 1 .. MaxLogs /\ length \in 0 .. MaxBytes
      /\ lastOffset \in 0 .. MaxBytes /\ length \in lastOffset .. MaxBytes /\ since \in Nat
      /\ since \in 0 .. MaxBytes
  BY DEF IInv, TypeOK, Poll
<1>1. /\ UNCHANGED <<up, log, length, newlines, pc, tail, since, followed>>
      /\ Write(Slice(lastOffset, length)) /\ lastOffset' = length /\ pc = "follow"
  BY DEF Poll
<1>2. /\ partial' \in Seq(Bytes) /\ printed' \in Seq(Seq(Bytes))
      /\ \A s \in 0 .. lastOffset : \A n :
           WriterAt(partial, printed, s, lastOffset, n)
             => WriterAt(partial', printed', s, length, n)
  <2>1. partial \in Seq(Bytes) /\ printed \in Seq(Seq(Bytes))
    BY <1>0 DEF TypeOK
  <2> QED
    BY <1>0, <1>1, <2>1, WriteKeeps
<1>3. TypeOK'
  BY <1>0, <1>1, <1>2 DEF TypeOK
<1>4. ASSUME Unreplaced' PROVE WriterFollows' /\ since' <= lastOffset'
  <2>1. since <= lastOffset /\ lastOffset <= length /\ WriterFollows
    BY <1>1, <1>4 DEF IInv, Unreplaced
  <2>2. since \in 0 .. lastOffset /\ since <= length
    BY <1>0, <2>1
  <2>3. WriterAt(partial', printed', since, length, tail)
    BY <1>2, <2>1, <2>2 DEF WriterFollows
  <2> QED
    BY <1>1, <2>2, <2>3, WriterMoves
<1>5. length' >= lastOffset'
  BY <1>0, <1>1
<1> QED
  BY <1>0, <1>1, <1>3, <1>4, <1>5 DEF IInv, Unreplaced

\* Every step keeps the invariant.
LEMMA NextIInv == IInv /\ [Next]_vars => IInv'
<1> SUFFICES ASSUME IInv, [Next]_vars PROVE IInv'
  OBVIOUS
<1>0. TypeOK
  BY DEF IInv
<1>1. CASE FirstRead
  <2>1. pc = "first" /\ Read(FirstFrom, "follow")
    BY <1>1 DEF FirstRead
  <2>2. FirstFrom \in 0 .. length /\ (tail # 0 => FirstFrom = 0 \/ FirstFrom \in newlines[log])
    BY <1>0, FirstFromIsLine
  <2> QED
    BY <2>1, <2>2, ReadKeeps
<1>2. CASE ReadOnce
  <2>1. pc = "once" /\ Read(OnceFrom, "done")
    BY <1>2 DEF ReadOnce
  <2>2. OnceFrom \in 0 .. length /\ (tail # 0 => OnceFrom = 0 \/ OnceFrom \in newlines[log])
    BY <1>0, FirstFromIsLine
  <2> QED
    BY <2>1, <2>2, ReadKeeps
<1>3. CASE UNCHANGED vars
  <2>1. /\ UNCHANGED <<up, log, length, newlines, pc, tail, lastOffset, since, followed>>
        /\ UNCHANGED <<partial, printed>>
    BY <1>3 DEF vars, instanceVars, writerVars
  <2>2. TypeOK'
    BY <1>0, <2>1 DEF TypeOK
  <2>3. Unreplaced' => WriterFollows'
    <3>1. ASSUME Unreplaced' PROVE WriterFollows
      BY <2>1, <3>1 DEF IInv, Unreplaced
    <3> QED
      BY <1>0, <2>1, <3>1, WriterStable, ConsoleAssumption DEF TypeOK
  <2> QED
    BY <2>1, <2>2, <2>3 DEF IInv, Unreplaced
<1> QED
  BY <1>1, <1>2, <1>3, InstanceKeeps, CommandKeeps, PollKeeps DEF Next

-----------------------------------------------------------------------------
\* In every state, the command has printed and kept what the log has from where it began.
THEOREM Invariance == Spec => []IInv
BY InitIInv, NextIInv, PTL DEF Spec

\* The variables have their types.
THEOREM TypeCorrect == Spec => []TypeOK
<1>1. IInv => TypeOK
  BY DEF IInv
<1> QED
  BY <1>1, Invariance, PTL

\* A line that was printed is whole.
LEMMA LinesAreWhole ==
  ASSUME TypeOK, NEW line, NEW k \in 0 .. MaxBytes, NEW n, n # 0, IsLine(line, k, n)
  PROVE  WholeLine(line)
<1> USE ConsoleAssumption
<1>1. PICK c \in 0 .. k - 1 : \E d \in c + 1 .. k :
        /\ line = Slice(c, d)
        /\ \A x \in c + 1 .. d : x \in newlines[log] <=> x = d
        /\ n # 0 => c = 0 \/ c \in newlines[log]
  BY DEF IsLine
<1>2. PICK d \in c + 1 .. k :
        /\ line = Slice(c, d)
        /\ \A x \in c + 1 .. d : x \in newlines[log] <=> x = d
        /\ c = 0 \/ c \in newlines[log]
  BY <1>1
<1>3. c \in Nat /\ d \in Nat /\ c \in 0 .. MaxBytes /\ d \in c .. MaxBytes /\ d - c \in Nat
      /\ 1 \in 1 .. d - c
  BY <1>2
<1>4. /\ Len(line) = d - c /\ DOMAIN line = 1 .. d - c
      /\ \A i \in 1 .. d - c : line[i] = <<log, c + i>>
  BY <1>2, <1>3, Slices DEF TypeOK
<1>5. line[1] = <<log, c + 1>>
  BY <1>3, <1>4
<1>6. line[1][2] = 1 \/ line[1][2] - 1 \in newlines[line[1][1]]
  <2>1. line[1][1] = log /\ line[1][2] = c + 1 /\ (c + 1) - 1 = c
    BY <1>3, <1>5
  <2> QED
    BY <1>2, <1>3, <2>1
<1>7. ASSUME NEW i \in DOMAIN line PROVE Newline(line[i]) <=> i = Len(line)
  <2>1. line[i] = <<log, c + i>> /\ c + i \in c + 1 .. d /\ i \in Nat
    BY <1>3, <1>4
  <2>2. Newline(line[i]) <=> c + i \in newlines[log]
    BY <2>1 DEF Newline
  <2>3. c + i \in newlines[log] <=> c + i = d
    BY <1>2, <2>1
  <2> QED
    BY <1>3, <1>4, <2>1, <2>2, <2>3
<1> QED
  BY <1>6, <1>7 DEF WholeLine

\* What is written is the log from where the command began, whatever is logged between two
\* polls and however it is cut: no byte is missing, twice or out of place, and the lines
\* that are printed are whole.
THEOREM LogIsFollowed == Spec => []FollowsLog
<1>1. ASSUME IInv PROVE FollowsLog
  <2> SUFFICES ASSUME Unreplaced
               PROVE  /\ Written = Slice(since, lastOffset)
                      /\ tail # 0 => \A i \in DOMAIN printed : WholeLine(printed[i])
    BY DEF FollowsLog
  <2>1. /\ TypeOK /\ WriterFollows /\ log \in 1 .. MaxLogs
        /\ since \in 0 .. MaxBytes /\ lastOffset \in 0 .. MaxBytes
    BY <1>1 DEF IInv, TypeOK
  <2>2. PICK b \in since .. lastOffset :
          FlattenSeq(printed) = Slice(since, b) /\ partial = Slice(b, lastOffset)
    BY <2>1 DEF WriterFollows, WriterAt
  <2>3. b \in since .. MaxBytes /\ lastOffset \in b .. MaxBytes
    BY <2>1, ConsoleAssumption
  <2>4. Written = Slice(since, lastOffset)
    BY <2>1, <2>2, <2>3, SlicesMeet DEF Written
  <2>5. tail # 0 => \A i \in DOMAIN printed : WholeLine(printed[i])
    BY <2>1, LinesAreWhole DEF WriterFollows, WriterAt
  <2> QED
    BY <2>4, <2>5
<1> QED
  BY <1>1, Invariance, PTL
===============================================================================
