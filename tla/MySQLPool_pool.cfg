\* Three threads, two statements each, over two slots.
CONSTANTS
  Threads = {a, b, c}
  PoolSize = 2
  MaxQueries = 2
  MaxConnects = 4
SPECIFICATION Spec
INVARIANTS
  CountIsExact
  OneUserPerConnection
PROPERTIES
  EveryBorrowerIsServed
CHECK_DEADLOCK FALSE
