\* A buffer of two lines, five bytes in chunks of up to three.
SPECIFICATION FairSpec
CONSTANTS
  MaxLines = 2
  MaxBytes = 5
  MaxChunk = 3
INVARIANTS
  BufferFaithful
  ShownIsMain
  ReportFaithful
PROPERTIES
  ReportComplete
  ReportPrinted
CHECK_DEADLOCK FALSE
