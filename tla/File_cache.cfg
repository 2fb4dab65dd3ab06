SPECIFICATION CacheSpec
CONSTANTS
  Readers = {r1, r2}
  Sharers = {s1, s2}
  Contents = {a, b, big}
  Big = {big}
  Absent = absent
  MaxWrites = 2
SYMMETRY Symmetry
INVARIANTS ReadsWereTrue SharedWasTrue
CHECK_DEADLOCK FALSE
