------------------------------ MODULE LogBuffer ------------------------------
(***************************************************************************)
(* logwriter.LogBuffer: the last MaxLines lines of what was written to it, *)
(* whatever the chunks, under a mutex.                                     *)
(*                                                                         *)
(* The bytes of the stream are numbered in the order they are written.     *)
(* What is known of a byte is whether it is a newline (ends); a line is    *)
(* the interval of its bytes, the newline included.  Clear has no caller   *)
(* outside the tests and is left out.                                      *)
(***************************************************************************)
EXTENDS Integers, Sequences

CONSTANT MaxLines
ASSUME MaxLinesAssumption == MaxLines \in Nat \ {0}

VARIABLES
  ends,      \* where the newlines of the stream are
  lines,     \* the buffer
  written,   \* bytes given to Write
  taken,     \* bytes that left partial as lines: partial is taken + 1 .. written
  mu         \* "free", or what the writer that holds the mutex does next

bufferVars == <<lines, written, taken, mu>>

Line == [from : Nat, to : Nat]

\* bytes.Buffer.ReadString: the first complete line after n of the first m bytes.
FirstLine(n, m, line) ==
  /\ line.from = n + 1
  /\ line.to \in ends \cap (n + 1 .. m)
  /\ \A i \in n + 1 .. line.to - 1 : i \notin ends

NoLine(n, m) == ends \cap (n + 1 .. m) = {}

InitBuffer ==
  /\ lines = <<>>
  /\ written = 0
  /\ taken = 0
  /\ mu = "free"

\* Write(p): take the mutex and append to partial.
BeginWrite(n) ==
  /\ mu = "free"
  /\ mu' = "scan"
  /\ written' = written + n
  /\ UNCHANGED <<lines, taken>>

\* Mutant: > for >=, one line too many.
EvictLate ==
  /\ mu = "scan"
  /\ ~NoLine(taken, written)
  /\ mu' = "append"
  /\ lines' = IF Len(lines) > MaxLines THEN SubSeq(lines, 2, MaxLines) ELSE lines
  /\ UNCHANGED <<written, taken>>

\* addLine, first half: the shift by one.
Evict ==
  /\ mu = "scan"
  /\ ~NoLine(taken, written)
  /\ mu' = "append"
  /\ lines' = IF Len(lines) >= MaxLines THEN SubSeq(lines, 2, MaxLines) ELSE lines
  /\ UNCHANGED <<written, taken>>

\* addLine, second half.
AddLine ==
  /\ mu = "append"
  /\ \E line \in [from : {taken + 1}, to : ends] :
       /\ FirstLine(taken, written, line)
       /\ lines' = Append(lines, line)
       /\ taken' = line.to
  /\ mu' = "scan"
  /\ UNCHANGED written

\* Mutant: one line per call, if for for.
EndWriteFirst ==
  /\ mu = "scan"
  /\ mu' = "free"
  /\ UNCHANGED <<lines, written, taken>>

\* Mutant: an early return that does not unlock.
EndWriteLocked ==
  /\ mu = "scan"
  /\ NoLine(taken, written)
  /\ mu' = IF taken = written THEN "free" ELSE "locked"
  /\ UNCHANGED <<lines, written, taken>>

\* No complete line is left: what was read is put back, and the mutex released.
EndWrite ==
  /\ mu = "scan"
  /\ NoLine(taken, written)
  /\ mu' = "free"
  /\ UNCHANGED <<lines, written, taken>>

\* Lines, FormattedLines and Len run while nobody holds the mutex.
Readable == mu = "free"

-----------------------------------------------------------------------------

\* ls are lines of the stream, whole, unmerged, in order and without a gap, they are
\* its last ones among the first n bytes, and no more were evicted than had to be.
IsLine(line) ==
  /\ line.to \in ends
  /\ line.from = 1 \/ line.from - 1 \in ends
  /\ line.from <= line.to
  /\ \A i \in line.from .. line.to - 1 : i \notin ends

LastLines(ls, n, room) ==
  /\ \A i \in 1 .. Len(ls) : IsLine(ls[i])
  /\ \A i \in 1 .. Len(ls) - 1 : ls[i + 1].from = ls[i].to + 1
  /\ ls # <<>> => ls[Len(ls)].to = n
  /\ Len(ls) <= room
  /\ Len(ls) < room => IF ls = <<>> THEN n = 0 ELSE ls[1].from = 1
=============================================================================
