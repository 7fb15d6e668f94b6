------------------------------ MODULE ConsoleLog ------------------------------
(***************************************************************************)
(* `ibosh incus logs`: Incus cannot stream the console log of an instance, *)
(* so the command reads all of it every second and writes what is beyond   *)
(* the length it saw last to a logwriter.Writer, which prints whole lines. *)
(* The instance logs meanwhile, and other commands stop and replace it.    *)
(*                                                                         *)
(* A byte is the number of its log and its place there.  A log that is not *)
(* replaced only grows; which components are printed is StartupLogs' part. *)
(***************************************************************************)
EXTENDS Naturals, FiniteSets, Sequences, SequencesExt

CONSTANTS
  MaxBytes,   \* length of a log (bound)
  MaxLogs,    \* instances, one after the other (bound)
  Tails,      \* values of --tail: numbers and All
  All         \* --tail all or "", and when following what is not a number

ASSUME ConsoleAssumption ==
  /\ MaxBytes \in Nat /\ MaxLogs \in Nat \ {0}
  /\ All \in Tails /\ Tails \subseteq Nat \cup {All} /\ All \notin Nat

VARIABLES
  up,         \* the instance exists, and its console log can be read
  log,        \* the number of the log, counted from 1
  length,     \* its length
  newlines,   \* of every log: the places of its newlines
  pc,         \* the command: "idle", "first", "follow", "once", "done"
  tail,       \* its --tail
  lastOffset, \* the length of the log when it was last read
  since,      \* where the command began to write
  followed,   \* the log that was there then
  partial,    \* the bytes in the Writer's buffer
  printed     \* the lines that were printed

instanceVars == <<up, log, length, newlines>>
writerVars == <<partial, printed>>
vars == <<instanceVars, pc, tail, lastOffset, since, followed, writerVars>>

Places == 1 .. MaxBytes
Bytes == (1 .. MaxLogs) \X Places

TypeOK ==
  /\ up \in BOOLEAN /\ log \in 1 .. MaxLogs /\ length \in 0 .. MaxBytes
  /\ newlines \in [1 .. MaxLogs -> SUBSET Places]
  /\ pc \in {"idle", "first", "follow", "once", "done"} /\ tail \in Tails
  /\ lastOffset \in 0 .. MaxBytes /\ since \in 0 .. MaxBytes /\ followed \in 1 .. MaxLogs
  /\ partial \in Seq(Bytes) /\ printed \in Seq(Seq(Bytes))

Init ==
  /\ up \in BOOLEAN /\ log = 1 /\ length = 0
  /\ newlines = [g \in 1 .. MaxLogs |-> {}]
  /\ pc = "idle" /\ tail = All /\ lastOffset = 0 /\ since = 0 /\ followed = 1
  /\ partial = <<>> /\ printed = <<>>

-----------------------------------------------------------------------------
\* The instance: it logs a byte, is stopped or deleted, and another one is started.

LogByte ==
  /\ up /\ length < MaxBytes
  /\ length' = length + 1
  /\ \E new \in SUBSET {length'} : newlines' = [newlines EXCEPT ![log] = @ \cup new]
  /\ UNCHANGED <<up, log, pc, tail, lastOffset, since, followed, writerVars>>

Gone ==
  /\ up /\ up' = FALSE
  /\ UNCHANGED <<log, length, newlines, pc, tail, lastOffset, since, followed, writerVars>>

Replaced ==
  /\ ~up /\ up' = TRUE
  /\ log < MaxLogs /\ log' = log + 1 /\ length' = 0
  /\ UNCHANGED <<newlines, pc, tail, lastOffset, since, followed, writerVars>>

-----------------------------------------------------------------------------
\* Writer.Write: what arrives joins the buffer, which is cut after every newline.

Newline(byte) == byte[2] \in newlines[byte[1]]
Slice(from, to) == [i \in 1 .. to - from |-> <<log, from + i>>]

Cut(w, byte) ==
  LET line == Append(w.partial, byte) IN
  IF Newline(byte) THEN [partial |-> <<>>, printed |-> Append(w.printed, line)]
  ELSE [partial |-> line, printed |-> w.printed]

Write(bytes) ==
  LET w == FoldLeft(Cut, [partial |-> partial, printed |-> printed], bytes)
  IN  partial' = w.partial /\ printed' = w.printed

\* The last n elements of strings.Split at newlines, one of which is what follows the
\* last newline, so that a log that ends with one shows n - 1 lines; all if there are no
\* more elements than that.
TailFrom(n) ==
  LET ends == newlines[log] \cap 1 .. length IN
  Max({0} \cup {e \in ends : Cardinality({x \in ends : x >= e}) >= n})

\* What of the log is written first.
FirstFrom == IF tail = All THEN 0 ELSE IF tail = 0 THEN length ELSE TailFrom(tail)

\* `tail -n`: the last n lines, with a last one that has no newline.
OnceFrom ==
  IF tail = All THEN 0
  ELSE IF tail = 0 THEN length
  ELSE IF length \in newlines[log] THEN TailFrom(tail + 1) ELSE TailFrom(tail)

-----------------------------------------------------------------------------
\* LogsAction: an instance that does not run has no logs to show.
LogsAction(mode) == IF up THEN mode ELSE "done"

\* `incus logs [--follow] [--tail N]`.
Begin ==
  /\ pc = "idle"
  /\ \E mode \in {"first", "once"} : pc' = LogsAction(mode)
  /\ tail' \in Tails
  /\ UNCHANGED <<instanceVars, lastOffset, since, followed, writerVars>>

\* Mutant: the offset of the first read is that of what was written, not of what was read.
ReadForgetting(from, next) ==
  /\ Write(Slice(from, length))
  /\ since' = from /\ followed' = log /\ lastOffset' = length - from
  /\ pc' = next
  /\ UNCHANGED <<instanceVars, tail>>

Read(from, next) ==
  /\ Write(Slice(from, length))
  /\ since' = from /\ followed' = log /\ lastOffset' = length
  /\ pc' = next
  /\ UNCHANGED <<instanceVars, tail>>

FirstRead == pc = "first" /\ up /\ Read(FirstFrom, "follow")
ReadOnce == pc = "once" /\ up /\ Read(OnceFrom, "done")

\* Mutant: a log that has grown by one byte only is not looked at.
PollLazily ==
  /\ pc = "follow" /\ up /\ length > lastOffset + 1
  /\ Write(Slice(lastOffset, length))
  /\ lastOffset' = length
  /\ UNCHANGED <<instanceVars, pc, tail, since, followed>>

\* Every second; a log that is not longer than what was seen is left alone.
Poll ==
  /\ pc = "follow" /\ up /\ length > lastOffset
  /\ Write(Slice(lastOffset, length))
  /\ lastOffset' = length
  /\ UNCHANGED <<instanceVars, pc, tail, since, followed>>

\* The log cannot be read: the instance is gone, or Incus does not answer.  Or the
\* context is done.
LogGone == ~up /\ pc = "follow"
End ==
  /\ pc \in {"first", "follow", "once"} /\ pc' = "done"
  /\ UNCHANGED <<instanceVars, tail, lastOffset, since, followed, writerVars>>

Next ==
  \/ LogByte \/ Gone \/ Replaced
  \/ Begin
  \/ FirstRead \/ ReadOnce \/ Poll \/ End

Spec == Init /\ [][Next]_vars

\* The ticker comes every second, and what it starts reads the log or fails.
FairSpec == Spec /\ WF_vars(Poll) /\ WF_vars(LogGone /\ End)

-----------------------------------------------------------------------------
Written == FlattenSeq(printed) \o partial
Unreplaced == followed = log
WholeLine(line) ==
  /\ line[1][2] = 1 \/ line[1][2] - 1 \in newlines[line[1][1]]
  /\ \A i \in DOMAIN line : Newline(line[i]) <=> i = Len(line)

\* While the instance is not replaced, what was written is the log from where the
\* command began to what was last read: no byte is missing, twice or out of place.  With
\* --tail, but 0, only whole lines are printed.
FollowsLog ==
  Unreplaced /\ pc \in {"follow", "done"} =>
    /\ Written = Slice(since, lastOffset)
    /\ tail # 0 => \A i \in DOMAIN printed : WholeLine(printed[i])

\* As long as it follows and the instance is not replaced, every byte is written in the end.
EventuallyWritten ==
  \A n \in Places :
    pc = "follow" /\ Unreplaced /\ length >= n
      ~> lastOffset >= n \/ pc = "done" \/ ~Unreplaced
=============================================================================
