SPECIFICATION Spec
CONSTANTS
    SRAM_WORDS = 5
    NTT_WORDS = 4
    KECCAK_WORDS = 1
    ROUNDS = 2
    HostOps = {"data_read", "data_write", "control", "command"}
    HostChannels = {"keccak"}
    HostCommands = {"KECCAK_F1600", "MOD_ARITH"}
    ControlWords <- MCLinkControl
    ByteBeats = {TRUE, FALSE}
    SRAM_REACH = 1
    FaultyRounds = {}
    WrongHalves = {}
PROPERTY DoneIsCompletion
