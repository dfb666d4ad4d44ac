\* MigrationRunner.runAll, run twice on an InMemoryPool.
SPECIFICATION MemorySpec
CONSTANTS
    n1 = n1 n2 = n2 n3 = n3 none = none
    a = a b = b c = c d = d c1 = c1 c2 = c2
    t1 = t1 r1 = r1 r2 = r2
INVARIANTS
    RanOnce
CHECK_DEADLOCK FALSE
