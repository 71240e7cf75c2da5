SPECIFICATION Spec
CONSTANTS
    N = 8
    Q = 17
    Psi = 3
    InputPolys <- MCInputPolys
    HostData = {5}
    MAX_STARTS = 2
    MAX_WRITES = 1
    MAX_CUTS = 1
INVARIANT TransformCorrect
INVARIANT BankConflictFree
INVARIANT FixedLatency
PROPERTY ZeroizeCleans
