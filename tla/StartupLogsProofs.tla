------------------------- MODULE StartupLogsProofs -------------------------
(***************************************************************************)
(* The safety of StartupLogs, for every size of the buffer, every log and  *)
(* every way it is cut into chunks.                                        *)
(***************************************************************************)
EXTENDS StartupLogs, TLAPS

\* What was taken out of a writer's buffer ends where a line ends.
AtLineEnd(n) == n = 0 \/ n \in ends

\* How far the goroutine and its two writers are.
Progress ==
  /\ taken <= written /\ written <= received /\ uiTaken <= received
  /\ AtLineEnd(taken) /\ AtLineEnd(uiTaken)
  /\ mu # "free" => follower = "keep" /\ written = received
  /\ mu = "free" => NoLine(taken, written)
  /\ mu = "append" => ~NoLine(taken, written)
  /\ follower \in {"read", "done"} => written = received
  /\ follower # "show" => NoLine(uiTaken, received)

\* The buffer, also while its mutex is held: after the shift there is room for a line.
BufferInv == LastLines(lines, taken, IF mu = "append" THEN MaxLines - 1 ELSE MaxLines)

\* The buffer never gets shorter, but for the moment between shift and append.
HeaderInv == main = "lines" => header <= Len(lines) + (IF mu = "append" THEN 1 ELSE 0)

IInv ==
  /\ TypeOK
  /\ Progress
  /\ BufferInv
  /\ HeaderInv
  /\ ReportFaithful
  /\ ShownIsMain

-----------------------------------------------------------------------------
\* Sequences of lines.

\* What addLine appends is the last line.
LEMMA AppendFacts ==
  ASSUME NEW ls \in Seq(Line), NEW line \in Line
  PROVE  /\ Append(ls, line) \in Seq(Line)
         /\ Len(ls) \in Nat
         /\ Len(Append(ls, line)) = Len(ls) + 1
         /\ \A i \in 1 .. Len(ls) : Append(ls, line)[i] = ls[i]
         /\ Append(ls, line)[Len(ls) + 1] = line
         /\ Append(ls, line) # <<>>
OBVIOUS

\* What addLine shifts out is the first line.
LEMMA ShiftFacts ==
  ASSUME NEW ls \in Seq(Line), NEW n \in Nat \ {0}, Len(ls) = n
  PROVE  /\ SubSeq(ls, 2, n) \in Seq(Line)
         /\ Len(SubSeq(ls, 2, n)) = n - 1
         /\ \A i \in 1 .. n - 1 : SubSeq(ls, 2, n)[i] = ls[i + 1]
OBVIOUS

-----------------------------------------------------------------------------
\* Lines of the stream.

\* A line is known by its bounds.
LEMMA SameLine ==
  ASSUME NEW a \in Line, NEW b \in Line, a.from = b.from, a.to = b.to
  PROVE  a = b
BY DEF Line

\* An interval between two bytes of the log is of the type of a line.
LEMMA Interval ==
  \A S, T : S \subseteq Nat /\ T \subseteq Nat => [from : S, to : T] \subseteq Line
BY DEF Line

\* A line taken from the head of what is left is a line, and the next one.
LEMMA NextLine ==
  ASSUME TypeOK, NEW n \in Nat, NEW m \in Nat, AtLineEnd(n),
         NEW line \in Line, FirstLine(n, m, line)
  PROVE  /\ IsLine(line)
         /\ \A other \in Line :
              IsLine(other) /\ n < other.to /\ other.to <= line.to => other = line
<1>0. /\ line.from = n + 1
      /\ line.to \in Nat /\ line.to \in ends /\ line.from <= line.to
      /\ \A i \in n + 1 .. line.to - 1 : i \notin ends
  BY DEF FirstLine, Line
<1>1. IsLine(line)
  BY <1>0 DEF IsLine, AtLineEnd
<1>2. ASSUME NEW other \in Line, IsLine(other), n < other.to, other.to <= line.to
      PROVE  other = line
  <2>0. /\ other.from \in Nat /\ other.to \in Nat
        /\ other.to \in ends
        /\ other.from = 1 \/ other.from - 1 \in ends
        /\ other.from <= other.to
        /\ \A i \in other.from .. other.to - 1 : i \notin ends
    BY <1>2 DEF IsLine, Line
  <2>1. other.to = line.to
    <3>1. other.to \notin n + 1 .. line.to - 1
      BY <1>0, <2>0
    <3> QED
      BY <1>0, <1>2, <2>0, <3>1
  <2>2. other.from <= n + 1
    <3>1. other.from - 1 \notin n + 1 .. line.to - 1 \/ other.from = 1
      BY <1>0, <2>0
    <3> QED
      BY <1>0, <2>0, <2>1, <3>1
  <2>3. other.from >= n + 1
    <3>1. n \in other.from .. other.to - 1 => n \notin ends
      BY <2>0
    <3>2. CASE n = 0
      BY <2>0, <3>2 DEF TypeOK
    <3>3. CASE n \in ends
      BY <1>2, <2>0, <3>1, <3>3
    <3> QED
      BY <3>2, <3>3 DEF AtLineEnd
  <2> QED
    BY <1>0, <2>0, <2>1, <2>2, <2>3, SameLine
<1> QED
  BY <1>1, <1>2

\* What arrives does not change the lines that were there.
Grows == ends \subseteq ends' /\ \A i \in ends' \ ends : i > received

LEMMA LineStable ==
  ASSUME TypeOK, Grows
  PROVE  \A line \in Line : line.to <= received => (IsLine(line)' <=> IsLine(line))
<1> TAKE line \in Line
<1> HAVE line.to <= received
<1>1. /\ line.from \in Nat /\ line.to \in Nat /\ received \in Nat
      /\ \A i \in Int : i <= received => (i \in ends' <=> i \in ends)
  BY DEF Line, TypeOK, Grows
<1>2. line.to \in ends' <=> line.to \in ends
  BY <1>1
<1>3. line.from <= line.to => (line.from - 1 \in ends' <=> line.from - 1 \in ends)
  BY <1>1
<1>4. \A i \in line.from .. line.to - 1 : i \in ends' <=> i \in ends
  BY <1>1
<1> QED
  BY <1>2, <1>3, <1>4 DEF IsLine

LEMMA LastLinesStable ==
  ASSUME TypeOK, Grows
  PROVE  \A ls \in Seq(Line), n \in Nat, room \in Nat :
           LastLines(ls, n, room) => LastLines(ls, n, room)'
<1> TAKE ls \in Seq(Line), n \in Nat, room \in Nat
<1> HAVE LastLines(ls, n, room)
<1>1. \A i \in ends : i <= received
  BY BoundsAssumption DEF TypeOK
<1>2. ASSUME NEW i \in 1 .. Len(ls) PROVE IsLine(ls[i])'
  <2>1. ls[i] \in Line
    OBVIOUS
  <2>2. IsLine(ls[i]) /\ ls[i].to \in ends
    BY DEF LastLines, IsLine
  <2> QED
    BY <1>1, <2>1, <2>2, LineStable
<1> QED
  BY <1>2 DEF LastLines

\* The shift makes room.
LEMMA ShiftKeeps ==
  ASSUME TypeOK, LastLines(lines, taken, MaxLines)
  PROVE  LastLines(IF Len(lines) >= MaxLines THEN SubSeq(lines, 2, MaxLines) ELSE lines,
                   taken, MaxLines - 1)
<1> USE MaxLinesAssumption DEF TypeOK
<1>1. CASE Len(lines) >= MaxLines
  <2>1. Len(lines) = MaxLines
    BY <1>1 DEF LastLines
  <2> DEFINE s == SubSeq(lines, 2, MaxLines)
  <2>2. /\ s \in Seq(Line)
        /\ Len(s) = MaxLines - 1
        /\ \A i \in 1 .. MaxLines - 1 : s[i] = lines[i + 1]
    BY <2>1, ShiftFacts
  <2> HIDE DEF s
  <2>3. \A i \in 1 .. Len(s) : IsLine(s[i])
    BY <2>1, <2>2 DEF LastLines
  <2>4. \A i \in 1 .. Len(s) - 1 : s[i + 1].from = s[i].to + 1
    BY <2>1, <2>2 DEF LastLines
  <2>5. s # <<>> => s[Len(s)].to = taken
    BY <2>1, <2>2 DEF LastLines
  <2> QED
    BY <1>1, <2>2, <2>3, <2>4, <2>5 DEF LastLines, s
<1>2. CASE ~(Len(lines) >= MaxLines)
  BY <1>2 DEF LastLines
<1> QED
  BY <1>1, <1>2

\* The next line goes to the end.
LEMMA AppendKeeps ==
  ASSUME TypeOK, LastLines(lines, taken, MaxLines - 1), AtLineEnd(taken),
         NEW line \in Line, FirstLine(taken, written, line)
  PROVE  LastLines(Append(lines, line), line.to, MaxLines)
<1> DEFINE s == Append(lines, line)
<1>0. lines \in Seq(Line) /\ taken \in Nat /\ written \in Nat /\ MaxLines \in Nat \ {0}
  BY MaxLinesAssumption DEF TypeOK
<1>1. /\ s \in Seq(Line)
      /\ Len(lines) \in Nat
      /\ Len(s) = Len(lines) + 1
      /\ \A i \in 1 .. Len(lines) : s[i] = lines[i]
      /\ s[Len(lines) + 1] = line
      /\ s # <<>>
  BY <1>0, AppendFacts
<1> HIDE DEF s
<1>2. \A i \in 1 .. Len(s) : IsLine(s[i])
  <2>1. IsLine(line)
    BY <1>0, NextLine
  <2> QED
    BY <1>0, <1>1, <2>1 DEF LastLines
<1>3. \A i \in 1 .. Len(s) - 1 : s[i + 1].from = s[i].to + 1
  <2>1. Len(lines) # 0 => lines # <<>> /\ s[Len(lines)].to = taken
    BY <1>0, <1>1 DEF LastLines
  <2>2. line.from = taken + 1
    BY DEF FirstLine
  <2>3. ASSUME NEW i \in 1 .. Len(lines) - 1
        PROVE  s[i + 1].from = s[i].to + 1
    <3>1. lines[i + 1].from = lines[i].to + 1
      BY DEF LastLines
    <3>2. i \in 1 .. Len(lines) /\ i + 1 \in 1 .. Len(lines)
      BY <1>1
    <3> QED
      BY <1>1, <3>1, <3>2
  <2>4. Len(s) - 1 = Len(lines)
    BY <1>1
  <2>5. ASSUME Len(lines) # 0
        PROVE  s[Len(lines) + 1].from = s[Len(lines)].to + 1
    BY <1>1, <2>1, <2>2, <2>5
  <2>6. \A i \in 1 .. Len(lines) : i = Len(lines) \/ i \in 1 .. Len(lines) - 1
    BY <1>1
  <2> QED
    BY <2>3, <2>4, <2>5, <2>6
<1>4. Len(s) < MaxLines => s[1].from = 1
  <2>1. lines = <<>> <=> Len(lines) = 0
    BY <1>0
  <2> QED
    BY <1>0, <1>1, <2>1 DEF LastLines, FirstLine
<1>5. Len(s) <= MaxLines
  BY <1>0, <1>1 DEF LastLines
<1>6. s[Len(s)].to = line.to
  BY <1>1
<1> QED
  BY <1>0, <1>1, <1>2, <1>3, <1>4, <1>5, <1>6 DEF LastLines, s

-----------------------------------------------------------------------------
\* The invariant.

\* Nothing is written, shown or printed at first.
LEMMA InitIInv == Init => IInv
BY BoundsAssumption, MaxLinesAssumption
   DEF Init, InitBuffer, IInv, TypeOK, Progress, AtLineEnd, NoLine, BufferInv, LastLines,
       HeaderInv, ReportFaithful, ShownIsMain, IsMainLine, IsLine

\* The log only grows.
LEMMA GrowsStep == TypeOK /\ [Next]_vars => Grows
<1> SUFFICES ASSUME TypeOK, [Next]_vars PROVE Grows
  OBVIOUS
<1> USE BoundsAssumption DEF TypeOK, Grows
<1>1. ASSUME NEW n \in 1 .. MaxChunk, Receive(n) PROVE Grows
  BY <1>1 DEF Receive
<1>2. CASE UNCHANGED ends
  BY <1>2
<1> QED
  BY <1>1, <1>2
     DEF Next, vars, logVars, EndOfStream, Follower, ShowLine, Shown, KeepBegin, KeepLine,
         KeepEnd, Start, Ready, NotReady, PrintHeader, PrintLines

\* A line that is taken from the head of a writer's buffer.
LEMMA TakenLine ==
  ASSUME TypeOK, NEW n \in Nat, NEW m \in Nat,
         NEW line \in [from : {n + 1}, to : ends], FirstLine(n, m, line)
  PROVE  /\ line \in Line
         /\ n < line.to /\ line.to <= m /\ line.to \in ends
BY DEF FirstLine, Line, TypeOK

\* Every step keeps the types: what is taken out of a buffer is a line.
LEMMA TypeStep == IInv /\ [Next]_vars => TypeOK'
<1> SUFFICES ASSUME IInv, [Next]_vars PROVE TypeOK'
  OBVIOUS
<1> USE BoundsAssumption, MaxLinesAssumption DEF IInv, TypeOK, bufferVars, logVars, showVars, reportVars
<1>1. ASSUME NEW n \in 1 .. MaxChunk, Receive(n) PROVE TypeOK'
  <2>1. received' = received + n /\ received + n \in 0 .. MaxBytes
    BY <1>1 DEF Receive
  <2>2. ends' \subseteq 1 .. received'
    BY <1>1, <2>1 DEF Receive
  <2>3. kind' \in [1 .. received' -> Kinds \cup {"rest"}]
    <3> DEFINE Begins(i) == i = 1 \/ i - 1 \in ends'
               Beginnings == {i \in received + 1 .. received + n : Begins(i)}
    <3>1. PICK k \in [Beginnings -> Kinds] :
            kind' = [i \in 1 .. received + n |->
                       IF i <= received THEN kind[i] ELSE IF Begins(i) THEN k[i] ELSE "rest"]
      BY <1>1 DEF Receive
    <3>2. ASSUME NEW i \in 1 .. received + n, ~(i <= received), Begins(i)
          PROVE  k[i] \in Kinds
      <4>1. i \in received + 1 .. received + n
        BY <2>1, <3>2
      <4>2. i \in Beginnings
        BY <3>2, <4>1
      <4> QED
        BY <3>1, <4>2
    <3>3. \A i \in 1 .. received + n : i <= received => kind[i] \in Kinds \cup {"rest"}
      BY <2>1
    <3> QED
      BY <2>1, <3>1, <3>2, <3>3
  <2> QED
    BY <1>1, <2>1, <2>2, <2>3 DEF Receive
<1>2. CASE EndOfStream
  BY <1>2 DEF EndOfStream
<1>3. CASE ShowLine
  <2>1. PICK line \in [from : {uiTaken + 1}, to : ends] :
          /\ FirstLine(uiTaken, received, line)
          /\ uiTaken' = line.to
          /\ shown' \in {Append(shown, line), shown}
    BY <1>3 DEF ShowLine
  <2>2. line \in Line /\ line.to \in Nat
    BY <2>1, TakenLine DEF Line
  <2> QED
    BY <1>3, <2>1, <2>2, AppendFacts DEF ShowLine
<1>4. CASE Shown
  BY <1>4 DEF Shown
<1>5. CASE KeepBegin
  BY <1>5 DEF KeepBegin, BeginWrite
<1>6. CASE KeepLine /\ Evict
  <2>1. Len(lines) >= MaxLines => Len(lines) = MaxLines
    BY <1>6 DEF BufferInv, LastLines, Evict
  <2> QED
    BY <1>6, <2>1, ShiftFacts DEF KeepLine, Evict
<1>7. CASE KeepLine /\ AddLine
  <2>1. PICK line \in [from : {taken + 1}, to : ends] :
          FirstLine(taken, written, line) /\ lines' = Append(lines, line) /\ taken' = line.to
    BY <1>7 DEF AddLine
  <2>2. line \in Line /\ line.to \in Nat
    BY <2>1, TakenLine DEF Line
  <2> QED
    BY <1>7, <2>1, <2>2, AppendFacts DEF KeepLine, AddLine
<1>8. CASE KeepEnd
  BY <1>8 DEF KeepEnd, EndWrite
<1>9. CASE Ready \/ NotReady
  BY <1>9 DEF Ready, NotReady
<1>10. CASE PrintHeader
  BY <1>10 DEF PrintHeader
<1>11. CASE PrintLines
  BY <1>11 DEF PrintLines
<1>12. CASE UNCHANGED vars
  BY <1>12 DEF vars
<1> QED
  BY <1>1, <1>2, <1>3, <1>4, <1>5, <1>6, <1>7, <1>8, <1>9, <1>10, <1>11, <1>12
     DEF Next, Follower, Start, KeepLine

\* The goroutine gives each chunk to one writer, then to the other.
LEMMA ProgressStep == IInv /\ [Next]_vars => Progress'
<1> SUFFICES ASSUME IInv, [Next]_vars PROVE Progress'
  OBVIOUS
<1> USE BoundsAssumption DEF IInv, TypeOK, Progress, AtLineEnd, NoLine, bufferVars, logVars, showVars, reportVars
<1>1. ASSUME NEW n \in 1 .. MaxChunk, Receive(n) PROVE Progress'
  <2>1. Grows
    BY GrowsStep
  <2>2. received' = received + n
    BY <1>1 DEF Receive
  <2> QED
    BY <1>1, <2>1, <2>2 DEF Receive, Grows
<1>2. CASE EndOfStream
  BY <1>2 DEF EndOfStream
<1>3. CASE ShowLine
  <2>1. PICK line \in [from : {uiTaken + 1}, to : ends] :
          FirstLine(uiTaken, received, line) /\ uiTaken' = line.to
    BY <1>3 DEF ShowLine
  <2>2. uiTaken' \in ends /\ uiTaken' <= received
    BY <2>1, TakenLine
  <2> QED
    BY <1>3, <2>2 DEF ShowLine
<1>4. CASE Shown
  BY <1>4 DEF Shown
<1>5. CASE KeepBegin
  BY <1>5 DEF KeepBegin, BeginWrite
<1>6. CASE KeepLine /\ Evict
  BY <1>6 DEF KeepLine, Evict
<1>7. CASE KeepLine /\ AddLine
  <2>1. PICK line \in [from : {taken + 1}, to : ends] :
          FirstLine(taken, written, line) /\ taken' = line.to
    BY <1>7 DEF AddLine
  <2>2. taken' \in ends /\ taken' <= written
    BY <2>1, TakenLine
  <2> QED
    BY <1>7, <2>2 DEF KeepLine, AddLine
<1>8. CASE KeepEnd
  BY <1>8 DEF KeepEnd, EndWrite
<1>9. CASE Ready \/ NotReady \/ PrintHeader \/ PrintLines
  BY <1>9 DEF Ready, NotReady, PrintHeader, PrintLines
<1>10. CASE UNCHANGED vars
  BY <1>10 DEF vars
<1> QED
  BY <1>1, <1>2, <1>3, <1>4, <1>5, <1>6, <1>7, <1>8, <1>9, <1>10
     DEF Next, Follower, Start, KeepLine

\* The buffer changes under the mutex only.
LEMMA BufferStep == IInv /\ [Next]_vars => BufferInv' /\ HeaderInv'
<1> SUFFICES ASSUME IInv, [Next]_vars PROVE BufferInv' /\ HeaderInv'
  OBVIOUS
<1>0. /\ TypeOK /\ Progress /\ BufferInv /\ HeaderInv
      /\ lines \in Seq(Line) /\ taken \in Nat /\ written \in Nat /\ header \in Nat
      /\ MaxLines \in Nat \ {0}
  BY MaxLinesAssumption DEF IInv, TypeOK
<1>1. Grows
  BY <1>0, GrowsStep
<1>2. ASSUME UNCHANGED <<lines, taken>>, (mu = "append") = (mu' = "append")
      PROVE  BufferInv'
  BY <1>0, <1>1, <1>2, LastLinesStable DEF BufferInv
<1>3. ASSUME UNCHANGED <<lines, taken, header, main>>, (mu = "append") = (mu' = "append")
      PROVE  BufferInv' /\ HeaderInv'
  BY <1>0, <1>2, <1>3 DEF HeaderInv
<1> USE DEF bufferVars, logVars, showVars, reportVars
<1>4. ASSUME NEW n \in 1 .. MaxChunk, Receive(n) PROVE BufferInv' /\ HeaderInv'
  BY <1>3, <1>4 DEF Receive
<1>5. CASE EndOfStream \/ ShowLine \/ Shown
  BY <1>3, <1>5 DEF EndOfStream, ShowLine, Shown
<1>6. CASE KeepBegin \/ KeepEnd
  BY <1>3, <1>6 DEF KeepBegin, BeginWrite, KeepEnd, EndWrite
<1>7. CASE KeepLine /\ Evict
  <2>1. LastLines(lines, taken, MaxLines) /\ mu = "scan" /\ mu' = "append"
    BY <1>0, <1>7 DEF BufferInv, Evict
  <2>2. LastLines(lines', taken, MaxLines - 1)
    BY <1>0, <1>7, <2>1, ShiftKeeps DEF Evict
  <2>3. UNCHANGED <<ends, taken, header, main>>
    BY <1>7 DEF KeepLine, Evict
  <2>4. Len(lines) <= Len(lines') + 1
    <3>1. Len(lines) >= MaxLines => Len(lines) = MaxLines
      BY <1>0, <2>1 DEF LastLines
    <3> QED
      BY <1>0, <1>7, <3>1, ShiftFacts DEF Evict
  <2>5. lines' \in Seq(Line)
    BY TypeStep DEF TypeOK
  <2> QED
    BY <1>0, <2>1, <2>2, <2>3, <2>4, <2>5 DEF BufferInv, HeaderInv, LastLines, IsLine
<1>8. CASE KeepLine /\ AddLine
  <2>1. PICK line \in [from : {taken + 1}, to : ends] :
          FirstLine(taken, written, line) /\ lines' = Append(lines, line) /\ taken' = line.to
    BY <1>8 DEF AddLine
  <2>2. line \in Line
    BY <1>0, <2>1, TakenLine
  <2>3. LastLines(lines, taken, MaxLines - 1) /\ mu = "append" /\ mu' = "scan"
    BY <1>0, <1>8 DEF BufferInv, AddLine
  <2>4. LastLines(lines', taken', MaxLines)
    BY <1>0, <2>1, <2>2, <2>3, AppendKeeps DEF Progress
  <2>5. Len(lines') = Len(lines) + 1 /\ Len(lines) \in Nat
    BY <1>0, <2>1, <2>2, AppendFacts
  <2>6. UNCHANGED <<ends, header, main>>
    BY <1>8 DEF KeepLine, AddLine
  <2> QED
    BY <1>0, <2>3, <2>4, <2>5, <2>6 DEF BufferInv, HeaderInv, LastLines, IsLine
<1>9. CASE Ready \/ NotReady
  BY <1>2, <1>9 DEF Ready, NotReady, HeaderInv
<1>10. CASE PrintHeader
  <2>1. HeaderInv'
    BY <1>0, <1>10 DEF PrintHeader, Readable, HeaderInv
  <2> QED
    BY <1>2, <1>10, <2>1 DEF PrintHeader
<1>11. CASE PrintLines
  BY <1>2, <1>11 DEF PrintLines, HeaderInv
<1>12. CASE UNCHANGED vars
  BY <1>3, <1>12 DEF vars
<1> QED
  BY <1>4, <1>5, <1>6, <1>7, <1>8, <1>9, <1>10, <1>11, <1>12
     DEF Next, Follower, Start, KeepLine

\* The report is copied while the mutex is free, and the log only grows after it.
LEMMA ReportStep == IInv /\ [Next]_vars => ReportFaithful'
<1> SUFFICES ASSUME IInv, [Next]_vars PROVE ReportFaithful'
  OBVIOUS
<1>0. /\ TypeOK /\ BufferInv /\ HeaderInv /\ ReportFaithful
      /\ lines \in Seq(Line) /\ taken \in Nat /\ header \in Nat /\ MaxLines \in Nat
      /\ printed \in Seq(Line) /\ printedAt \in Nat
  BY MaxLinesAssumption DEF IInv, TypeOK
<1>1. Grows
  BY <1>0, GrowsStep
<1>2. ASSUME UNCHANGED <<main, header, printed, printedAt>> PROVE ReportFaithful'
  BY <1>0, <1>1, <1>2, LastLinesStable DEF ReportFaithful
<1> USE DEF bufferVars, logVars, showVars, reportVars
<1>3. ASSUME NEW n \in 1 .. MaxChunk, Receive(n) PROVE ReportFaithful'
  BY <1>2, <1>3 DEF Receive
<1>4. CASE EndOfStream \/ Follower
  BY <1>2, <1>4
     DEF EndOfStream, Follower, ShowLine, Shown, KeepBegin, KeepLine, KeepEnd
<1>5. CASE Ready \/ NotReady \/ PrintHeader
  BY <1>5 DEF Ready, NotReady, PrintHeader, ReportFaithful
<1>6. CASE PrintLines
  <2>1. /\ mu = "free" /\ main = "lines"
        /\ printed' = lines /\ printedAt' = taken
        /\ UNCHANGED <<ends, header, lines, taken>>
    BY <1>6 DEF PrintLines, Readable
  <2>2. LastLines(lines, taken, MaxLines) /\ header <= Len(lines)
    BY <1>0, <2>1 DEF BufferInv, HeaderInv
  <2>3. LastLines(lines, taken, MaxLines)'
    BY <1>0, <1>1, <2>1, <2>2, LastLinesStable
  <2> QED
    BY <2>1, <2>2, <2>3 DEF ReportFaithful
<1>7. CASE UNCHANGED vars
  BY <1>2, <1>7 DEF vars
<1> QED
  BY <1>3, <1>4, <1>5, <1>6, <1>7 DEF Next, Start

\* A chunk changes nothing in the lines that were shown or skipped.
LEMMA ShownReceive ==
  ASSUME IInv, NEW n \in 1 .. MaxChunk, Receive(n), Grows
  PROVE  ShownIsMain'
<1> USE BoundsAssumption DEF showVars
<1>0. /\ TypeOK /\ Progress /\ ShownIsMain
      /\ shown \in Seq(Line) /\ ends \subseteq 1 .. received
      /\ uiTaken \in Nat /\ received \in Nat /\ uiTaken <= received
      /\ shown' = shown /\ uiTaken' = uiTaken /\ received' = received + n
  BY DEF IInv, TypeOK, Progress, Receive
<1>1. \A i \in 1 .. received : kind'[i] = kind[i]
  BY <1>0 DEF Receive
<1>2. ASSUME NEW line \in Line
      PROVE  IsMainLine(line)' <=> IsMainLine(line)
  <2>1. CASE line.to <= uiTaken
    <3>1. IsLine(line)' <=> IsLine(line)
      BY <1>0, <2>1, LineStable DEF Line
    <3>2. IsLine(line) => line.from \in 1 .. received
      BY <1>0, <2>1 DEF IsLine, Line
    <3> QED
      BY <1>0, <1>1, <3>1, <3>2 DEF IsMainLine
  <2>2. CASE ~(line.to <= uiTaken)
    BY <1>0, <2>2 DEF IsMainLine
  <2> QED
    BY <2>1, <2>2
<1>3. \A i \in 1 .. Len(shown) : IsMainLine(shown[i])'
  BY <1>0, <1>2 DEF ShownIsMain
<1>4. ASSUME NEW line \in [from : 1 .. received', to : ends'], IsMainLine(line)'
      PROVE  \E i \in 1 .. Len(shown) : shown[i] = line
  <2>1. line \in Line /\ line.to <= received
    <3>1. ends' \subseteq Nat /\ 1 .. received' \subseteq Nat
      BY <1>0, TypeStep DEF TypeOK, Grows, Receive
    <3>2. line \in Line
      BY <3>1, Interval
    <3>3. line.to <= uiTaken /\ line.to \in Nat
      BY <1>0, <1>4, <3>2 DEF Line, IsMainLine
    <3> QED
      BY <1>0, <3>2, <3>3
  <2>2. IsMainLine(line)
    BY <1>2, <1>4, <2>1
  <2>3. line.from \in 1 .. received /\ line.to \in ends
    BY <1>0, <2>1, <2>2 DEF IsMainLine, IsLine, Line
  <2>4. line \in [from : 1 .. received, to : ends]
    BY <2>3
  <2> QED
    BY <1>0, <2>2, <2>4 DEF ShownIsMain
<1> QED
  BY <1>0, <1>3, <1>4 DEF ShownIsMain

\* One more line is shown or skipped.
LEMMA ShownShow ==
  ASSUME IInv, ShowLine
  PROVE  ShownIsMain'
<1>0. /\ TypeOK /\ Progress /\ ShownIsMain
      /\ shown \in Seq(Line) /\ Len(shown) \in Nat /\ ends \subseteq 1 .. received
      /\ uiTaken \in Nat /\ received \in Nat
      /\ UNCHANGED <<ends, kind, received>>
  BY BoundsAssumption DEF IInv, TypeOK, ShowLine, logVars
<1>1. PICK line \in [from : {uiTaken + 1}, to : ends] :
        /\ FirstLine(uiTaken, received, line)
        /\ uiTaken' = line.to
        /\ shown' = IF Passes(kind[line.from]) /\ HasMessage(kind[line.from])
                      THEN Append(shown, line) ELSE shown
  BY DEF ShowLine
<1>2. /\ line \in Line /\ line.from \in Nat /\ line.to \in Nat
      /\ line.from = uiTaken + 1 /\ uiTaken < line.to /\ line.to <= received
  BY <1>0, <1>1, TakenLine DEF Line
<1>3. /\ IsLine(line)
      /\ \A other \in Line :
           IsLine(other) /\ uiTaken < other.to /\ other.to <= line.to => other = line
  BY <1>0, <1>1, <1>2, NextLine DEF Progress
<1>4. /\ kind[line.from] = "main" => shown' = Append(shown, line)
      /\ kind[line.from] # "main" => shown' = shown
  BY <1>1 DEF Passes, HasMessage
<1> DEFINE Main(l) == IsLine(l) /\ l.to <= line.to /\ kind[l.from] = "main"
<1>5. ASSUME NEW other \in Line
      PROVE  Main(other) <=> IsMainLine(other) \/ (other = line /\ kind[line.from] = "main")
  <2>1. other.to \in Nat
    BY DEF Line
  <2>2. other.to <= uiTaken => other.to <= line.to
    BY <1>0, <1>2, <2>1
  <2>3. IsLine(other) /\ other.to <= line.to => other = line \/ other.to <= uiTaken
    BY <1>0, <1>2, <1>3, <2>1
  <2>4. line.to <= line.to
    BY <1>2
  <2> QED
    BY <1>3, <2>2, <2>3, <2>4 DEF IsMainLine
<1>6. /\ \A i \in 1 .. Len(shown') : Main(shown'[i])
      /\ \A i \in 1 .. Len(shown') - 1 : shown'[i].to < shown'[i + 1].from
      /\ \A other \in [from : 1 .. received, to : ends] :
           Main(other) => \E i \in 1 .. Len(shown') : shown'[i] = other
      => ShownIsMain'
  BY <1>0, <1>1 DEF ShownIsMain, IsMainLine, IsLine
<1> HIDE DEF Main
<1>7. \A other \in [from : 1 .. received, to : ends] : other \in Line
  <2>1. ends \subseteq Nat /\ 1 .. received \subseteq Nat
    BY <1>0
  <2> QED
    BY <2>1, Interval
<1>8. \A i \in 1 .. Len(shown) : shown[i] \in Line
  BY <1>0
<1>9. CASE kind[line.from] = "main"
  <2>1. /\ Len(shown') = Len(shown) + 1
        /\ \A i \in 1 .. Len(shown) : shown'[i] = shown[i]
        /\ shown'[Len(shown) + 1] = line
    BY <1>0, <1>2, <1>4, <1>9, AppendFacts
  <2>2. \A i \in 1 .. Len(shown) + 1 : i \in 1 .. Len(shown) \/ i = Len(shown) + 1
    BY <1>0
  <2>3. \A i \in 1 .. Len(shown') : Main(shown'[i])
    BY <1>2, <1>5, <1>8, <1>9, <1>0, <2>1, <2>2 DEF ShownIsMain
  <2>4. ASSUME NEW i \in 1 .. Len(shown') - 1 PROVE shown'[i].to < shown'[i + 1].from
    <3>1. CASE i = Len(shown)
      <4>1. i \in 1 .. Len(shown) /\ i + 1 = Len(shown) + 1
        BY <1>0, <2>1, <3>1
      <4>2. shown[i].to <= uiTaken /\ shown[i].to \in Nat
        BY <1>0, <1>8, <4>1 DEF ShownIsMain, IsMainLine, Line
      <4>3. shown'[i] = shown[i] /\ shown'[i + 1] = line
        BY <2>1, <3>1, <4>1
      <4> QED
        BY <1>0, <1>2, <4>2, <4>3
    <3>2. CASE i # Len(shown)
      <4>1. i \in 1 .. Len(shown) - 1
        BY <1>0, <2>1, <3>2
      <4>2. i \in 1 .. Len(shown) /\ i + 1 \in 1 .. Len(shown)
        BY <1>0, <4>1
      <4> QED
        BY <1>0, <2>1, <4>1, <4>2 DEF ShownIsMain
    <3> QED
      BY <3>1, <3>2
  <2>5. ASSUME NEW other \in [from : 1 .. received, to : ends], Main(other)
        PROVE  \E i \in 1 .. Len(shown') : shown'[i] = other
    <3>1. CASE other = line
      BY <1>0, <2>1, <3>1
    <3>2. CASE IsMainLine(other)
      <4>1. PICK i \in 1 .. Len(shown) : shown[i] = other
        BY <1>0, <3>2 DEF ShownIsMain
      <4>2. i \in 1 .. Len(shown') /\ shown'[i] = other
        BY <1>0, <2>1, <4>1
      <4> QED
        BY <4>2
    <3> QED
      BY <1>5, <1>7, <2>5, <3>1, <3>2
  <2> QED
    BY <1>6, <2>3, <2>4, <2>5
<1>10. CASE kind[line.from] # "main"
  <2>1. shown' = shown
    BY <1>4, <1>10
  <2>2. \A other \in Line : Main(other) <=> IsMainLine(other)
    BY <1>5, <1>10
  <2> QED
    BY <1>0, <1>6, <1>7, <1>8, <2>1, <2>2 DEF ShownIsMain
<1> QED
  BY <1>9, <1>10

\* Only the goroutine shows lines.
LEMMA ShownStep == IInv /\ [Next]_vars => ShownIsMain'
<1> SUFFICES ASSUME IInv, [Next]_vars PROVE ShownIsMain'
  OBVIOUS
<1>1. ASSUME NEW n \in 1 .. MaxChunk, Receive(n) PROVE ShownIsMain'
  BY <1>1, GrowsStep, ShownReceive DEF IInv
<1>2. CASE ShowLine
  BY <1>2, ShownShow
<1>3. CASE UNCHANGED <<ends, kind, received, uiTaken, shown>>
  BY <1>3 DEF IInv, ShownIsMain, IsMainLine, IsLine
<1> QED
  BY <1>1, <1>2, <1>3
     DEF Next, vars, logVars, showVars, EndOfStream, Follower, Shown, KeepBegin, KeepLine,
         KeepEnd, Start, Ready, NotReady, PrintHeader, PrintLines

-----------------------------------------------------------------------------

\* Every step of either goroutine keeps the invariant.
THEOREM Invariance == Spec => []IInv
<1>1. IInv /\ [Next]_vars => IInv'
  BY TypeStep, ProgressStep, BufferStep, ReportStep, ShownStep DEF IInv
<1> QED
  BY <1>1, InitIInv, PTL DEF Spec

\* Every variable keeps its type, in whatever order the two goroutines run.
THEOREM TypeCorrect == Spec => []TypeOK
<1>1. IInv => TypeOK
  BY DEF IInv
<1> QED
  BY <1>1, Invariance, PTL

\* The buffer (buffer.go) holds the last lines of what was written to it, however it
\* was cut into chunks, for every size of the buffer.
THEOREM BufferStaysFaithful == Spec => []BufferFaithful
<1>1. IInv => BufferFaithful
  BY DEF IInv, Progress, BufferInv, BufferFaithful, Readable
<1> QED
  BY <1>1, Invariance, PTL

\* The user sees the messages of main (writer.go), each once and in order, and no others.
THEOREM ShowsOnlyMain == Spec => []ShownIsMain
<1>1. IInv => ShownIsMain
  BY DEF IInv
<1> QED
  BY <1>1, Invariance, PTL

\* The report of a failed start (start.go:159-172) is a true end of the log, and its
\* header promises no more lines than it has.
THEOREM ReportsFaithful == Spec => []ReportFaithful
<1>1. IInv => ReportFaithful
  BY DEF IInv
<1> QED
  BY <1>1, Invariance, PTL

\* A report printed between two chunks misses no line that was received.
THEOREM ReportsComplete == Spec => ReportComplete
<1>1. IInv /\ [Next]_vars =>
        [main' # main /\ main' = "reported" /\ follower \in {"read", "done"}
           => NoLine(printedAt', received)]_vars
  <2> SUFFICES ASSUME IInv, [Next]_vars, main' # main, main' = "reported",
                      follower \in {"read", "done"}
               PROVE  NoLine(printedAt', received)
    OBVIOUS
  <2>1. mu = "free" /\ printedAt' = taken
    BY DEF Next, vars, bufferVars, logVars, showVars, reportVars, Receive, EndOfStream, Follower, ShowLine, Shown,
           KeepBegin, KeepLine, KeepEnd, Start, Ready, NotReady, PrintHeader, PrintLines,
           Readable
  <2>2. NoLine(taken, written) /\ written = received
    BY <2>1 DEF IInv, Progress
  <2> QED
    BY <2>1, <2>2
<1> QED
  BY <1>1, Invariance, PTL DEF Spec, ReportComplete
=============================================================================
