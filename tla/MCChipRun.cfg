SPECIFICATION SettledSpec
CONSTANTS
    FixedObjects = {}
    VariableObjects = {"msg"}
    Limit <- MCRunLimit
    VerifyObjects = {"msg"}
    DecapsObjects = {}
    RESULT_WORDS = 2
    SRAM_WORDS = 5
    Base <- MCRunBase
    NTT_WORDS = 4
    KECCAK_WORDS = 1
    ROUNDS = 2
    IO <- MCRunIO
    CALLS = 1
    NttCalls = {"MLDSA_INTT"}
INVARIANT ServedOnce
INVARIANT FreshResults
PROPERTY CommandServed
