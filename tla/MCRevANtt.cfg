SPECIFICATION Spec
CONSTANTS
    SRAM_WORDS = 5
    NTT_WORDS = 4
    KECCAK_WORDS = 1
    ROUNDS = 2
    HostOps = {"bad_address", "data_write", "control", "command"}
    HostChannels = {"ntt"}
    HostCommands = {"MLDSA_INTT", "SELF_TEST"}
    ControlWords <- MCNttControl
    ByteBeats = {FALSE}
    SRAM_REACH = 4
    FaultyRounds = {}
    WrongHalves = {}
INVARIANT TypeOK
INVARIANT HeldTriggerKeepsClean
INVARIANT StartNeverLost
INVARIANT EnginesExclusive
PROPERTY ImplementsVault
PROPERTY StartsOnStagedData
