\* Visits of the documentation while a new version is deployed, past the end of
\* a minute of four ticks.
CONSTANTS
  Second = 2
  Minute = 4
  Nil = Nil
  MaxTime = 5
  MaxVersion = 1
SPECIFICATION Spec
INVARIANT PageOfOneMinute
\* Time is bounded.
CHECK_DEADLOCK FALSE
