SPECIFICATION FairSpec
CONSTANTS
  Conns = {c1}
  Curs = {q1, q2}
  Writes = {w1}
INVARIANTS TypeOK CounterExact CursorsOnOpenConnections NothingLeaks
PROPERTIES ManualWritesWait CloseReleasesAll
CHECK_DEADLOCK FALSE
