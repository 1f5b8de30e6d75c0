SPECIFICATION MetricsSpec
CONSTANTS
  MaxPolls = 3
  MaxRows = 2
INVARIANTS
  RowsArrive
\* The training has ended and the stream with it.
CHECK_DEADLOCK FALSE
