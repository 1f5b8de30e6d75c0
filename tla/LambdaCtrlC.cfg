SPECIFICATION LambdaSpec
CONSTANT Presses = 1
INVARIANT InterruptsKeepCleanup
\* A run ends.
CHECK_DEADLOCK FALSE
