----------------------------- MODULE StartupLogs -----------------------------
(***************************************************************************)
(* The logs of a starting director (commands/start.go:126-177).            *)
(*                                                                         *)
(* While start waits for the director, a goroutine follows the container's *)
(* log and writes each chunk to two places, one after the other: a         *)
(* logwriter.Writer that shows the messages of the component main, and a   *)
(* LogBuffer that keeps the last lines for an error report.  When waiting  *)
(* fails, start cancels the goroutine, gives it 100 ms, and prints the     *)
(* buffer, with its length in the header.  Nothing makes start wait for    *)
(* the goroutine.                                                          *)
(*                                                                         *)
(* Both streams of the container go to the same two writers, so there is   *)
(* one stream of bytes here.                                               *)
(***************************************************************************)
EXTENDS LogBuffer

CONSTANTS
  MaxBytes,    \* bound: how much the container logs
  MaxChunk     \* bound: bytes in one chunk
ASSUME BoundsAssumption == MaxBytes \in Nat /\ MaxChunk \in Nat

VARIABLES
  kind,        \* what the line that begins at each byte is, for logparser
  received,    \* bytes the daemon has delivered
  uiTaken,     \* bytes the Writer has taken out of its own buffer as lines
  shown,       \* the lines whose message the user has seen
  follower,    \* what the goroutine does: "read", "show", "keep", "done"
  main,        \* where start is
  header,      \* the number in the header of the report
  printed,     \* the lines of the report
  printedAt    \* taken, when they were read

logVars == <<ends, kind, received>>
showVars == <<uiTaken, shown>>
reportVars == <<header, printed, printedAt>>
vars == <<bufferVars, logVars, showVars, follower, main, reportVars>>

\* A line of main with a message, a line of another component, one that ParseLogLine
\* does not recognise, which has neither component nor message.
Kinds == {"main", "other", "plain"}

-----------------------------------------------------------------------------
\* The goroutine.

\* A chunk of n bytes arrives.  After the cancellation one that was under way may.
Receive(n) ==
  LET chunk == received + 1 .. received + n
      Begins(i) == i = 1 \/ i - 1 \in ends'
  IN
  /\ follower = "read"
  /\ received + n <= MaxBytes
  /\ \E new \in SUBSET chunk : ends' = ends \cup new
  /\ \E k \in [{i \in chunk : Begins(i)} -> Kinds] :
       kind' = [i \in 1 .. received + n |->
                  IF i <= received THEN kind[i] ELSE IF Begins(i) THEN k[i] ELSE "rest"]
  /\ received' = received + n
  /\ follower' = "show"
  /\ UNCHANGED <<bufferVars, showVars, main, reportVars>>

\* The stream ends: the container is gone, or start has cancelled.
EndOfStream ==
  /\ follower = "read"
  /\ follower' = "done"
  /\ UNCHANGED <<bufferVars, logVars, showVars, main, reportVars>>

\* Component filter and MessageOnly.
Passes(k) == k \in {"main", "plain"}
HasMessage(k) == k # "plain"

\* Writer.Write: one complete line, shown or skipped.
ShowLine ==
  /\ follower = "show"
  /\ \E line \in [from : {uiTaken + 1}, to : ends] :
       LET k == kind[line.from] IN
       /\ FirstLine(uiTaken, received, line)
       /\ uiTaken' = line.to
       /\ shown' = IF Passes(k) /\ HasMessage(k) THEN Append(shown, line) ELSE shown
  /\ UNCHANGED <<bufferVars, logVars, follower, main, reportVars>>

\* Mutant: what is left after the last complete line is dropped.
ShownDropping ==
  /\ follower = "show"
  /\ NoLine(uiTaken, received)
  /\ uiTaken' = received
  /\ follower' = "keep"
  /\ UNCHANGED <<bufferVars, logVars, shown, main, reportVars>>

Shown ==
  /\ follower = "show"
  /\ NoLine(uiTaken, received)
  /\ follower' = "keep"
  /\ UNCHANGED <<bufferVars, logVars, showVars, main, reportVars>>

\* Then the MultiWriter gives the chunk to the buffer.
KeepBegin ==
  /\ follower = "keep"
  /\ written < received
  /\ BeginWrite(received - written)
  /\ UNCHANGED <<logVars, showVars, follower, main, reportVars>>

KeepLine ==
  /\ follower = "keep"
  /\ Evict \/ AddLine
  /\ UNCHANGED <<logVars, showVars, follower, main, reportVars>>

KeepEnd ==
  /\ follower = "keep"
  /\ EndWrite
  /\ follower' = "read"
  /\ UNCHANGED <<logVars, showVars, main, reportVars>>

Follower == ShowLine \/ Shown \/ KeepBegin \/ KeepLine \/ KeepEnd

-----------------------------------------------------------------------------
\* start.

\* WaitForReady returns.  In both cases the goroutine is cancelled and given a moment.
Ready ==
  /\ main = "waiting"
  /\ main' = "ready"
  /\ UNCHANGED <<bufferVars, logVars, showVars, follower, reportVars>>

NotReady ==
  /\ main = "waiting"
  /\ main' = "header"
  /\ UNCHANGED <<bufferVars, logVars, showVars, follower, reportVars>>

\* "--- Container logs (last %d lines) ---"
PrintHeader ==
  /\ main = "header"
  /\ Readable
  /\ header' = Len(lines)
  /\ main' = "lines"
  /\ UNCHANGED <<bufferVars, logVars, showVars, follower, printed, printedAt>>

\* Mutant: FormattedLines without the mutex.
PrintLinesUnlocked ==
  /\ main = "lines"
  /\ printed' = lines
  /\ printedAt' = taken
  /\ main' = "reported"
  /\ UNCHANGED <<bufferVars, logVars, showVars, follower, header>>

\* FormattedLines copies the buffer; the copy is printed line by line.
PrintLines ==
  /\ main = "lines"
  /\ Readable
  /\ printed' = lines
  /\ printedAt' = taken
  /\ main' = "reported"
  /\ UNCHANGED <<bufferVars, logVars, showVars, follower, header>>

Start == Ready \/ NotReady \/ PrintHeader \/ PrintLines

-----------------------------------------------------------------------------

Init ==
  /\ InitBuffer
  /\ ends = {}
  /\ kind = <<>>
  /\ received = 0
  /\ uiTaken = 0
  /\ shown = <<>>
  /\ follower = "read"
  /\ main = "waiting"
  /\ header = 0
  /\ printed = <<>>
  /\ printedAt = 0

Next ==
  \/ \E n \in 1 .. MaxChunk : Receive(n)
  \/ EndOfStream
  \/ Follower
  \/ Start

Spec == Init /\ [][Next]_vars

\* Both goroutines run, and sync.Mutex does not starve a waiter.
Fairness ==
  /\ WF_vars(Follower)
  /\ SF_vars(Start)
FairSpec == Spec /\ Fairness

-----------------------------------------------------------------------------

TypeOK ==
  /\ ends \subseteq 1 .. received
  /\ lines \in Seq(Line)
  /\ written \in Nat
  /\ taken \in Nat
  /\ mu \in {"free", "scan", "append"}
  /\ kind \in [1 .. received -> Kinds \cup {"rest"}]
  /\ received \in 0 .. MaxBytes
  /\ uiTaken \in Nat
  /\ shown \in Seq(Line)
  /\ follower \in {"read", "show", "keep", "done"}
  /\ main \in {"waiting", "ready", "header", "lines", "reported"}
  /\ header \in Nat
  /\ printed \in Seq(Line)
  /\ printedAt \in Nat

\* However the log is cut into chunks, the buffer holds the last MaxLines lines of what
\* it was given, each whole and once, whenever anybody can look at it.
BufferFaithful == Readable => LastLines(lines, taken, MaxLines) /\ NoLine(taken, written)

\* The user sees the messages of main, each once and in order, and nothing else, again
\* however the log is cut (start.go:135: "Show only main component logs").
IsMainLine(line) == IsLine(line) /\ line.to <= uiTaken /\ kind[line.from] = "main"

ShownIsMain ==
  /\ \A i \in 1 .. Len(shown) : IsMainLine(shown[i])
  /\ \A i \in 1 .. Len(shown) - 1 : shown[i].to < shown[i + 1].from
  /\ \A line \in [from : 1 .. received, to : ends] :
       IsMainLine(line) => \E i \in 1 .. Len(shown) : shown[i] = line

\* The error report is a true end of the log, though the goroutine may still be writing
\* when it is printed, and the header, read first, promises no more lines than follow.
ReportFaithful ==
  main = "reported" => LastLines(printed, printedAt, MaxLines) /\ header <= Len(printed)

\* "All logs are still captured in logBuffer" (start.go:136): unless the goroutine is in
\* the middle of a chunk, the report misses no line that was received, and with it none
\* that the user saw as progress.
ReportComplete ==
  [][main' # main /\ main' = "reported" /\ follower \in {"read", "done"}
       => NoLine(printedAt', received)]_vars

\* A start that fails gets to print its report, however busy the log is.
ReportPrinted == main = "header" ~> main = "reported"
=============================================================================
