SPECIFICATION Spec
CONSTANTS
  w1 = w1
  w2 = w2
  r1 = r1
  here = here
  there = there
  Writers = {w1, w2}
  Readers = {r1}
  Dirs = {here, there}
  Original = Original
  Nil = Nil
  MaxSwaps = 2
  MaxFlushFailures = 1
SYMMETRY Symmetric
INVARIANTS NeverTorn NeverLost AcknowledgedIsDurable
PROPERTIES ReadsCurrent
CHECK_DEADLOCK FALSE
