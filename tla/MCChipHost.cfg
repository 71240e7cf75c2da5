SPECIFICATION Spec
CONSTANTS
    FixedObjects = {"key"}
    VariableObjects = {"msg"}
    Limit <- MCLimit
    VerifyObjects = {"key", "msg"}
    DecapsObjects = {"key"}
    RESULT_WORDS = 2
    SRAM_WORDS = 5
    Base <- MCBase
    NTT_WORDS = 4
    KECCAK_WORDS = 1
    ROUNDS = 1
    IO <- MCHostIO
    CALLS = 0
    NttCalls = {"MLKEM_NTT"}
INVARIANT VerdictHonest
INVARIANT OutputComplete
INVARIANT LoadedInMemory
PROPERTY ScrubCleans
