\* Two threads, and blocks of which two may or may not overflow a size_t; three
\* sessions in an enclave.
CONSTANTS
  Thread = {t1, t2}
  Address = {a1, a2, a3}
  Null = Null
  Nobody = Nobody
  Size = {0, 1, 2}
  Capacity = 2
  SizeMax = 3
  MaxSessions = 3
SPECIFICATION MCSpec
SYMMETRY Symmetry
INVARIANTS LedgerExact ValidMeansExact NothingLeft ReportTrue
