\* Two logs of up to four bytes, lines ending anywhere, read and polled at any moment.
SPECIFICATION FairSpec
CONSTANTS
  MaxBytes = 4
  MaxLogs = 2
  All = All
  Tails = {All, 0, 1, 2}
INVARIANTS
  FollowsLog
PROPERTIES
  EventuallyWritten
CHECK_DEADLOCK FALSE
