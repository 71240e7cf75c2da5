SPECIFICATION SettledSpec
CONSTANTS
    SRAM_WORDS = 5
    NTT_WORDS = 4
    KECCAK_WORDS = 1
    ROUNDS = 2
    HostOps = {"data_read", "data_write", "control", "command"}
    HostChannels = {"sram"}
    HostCommands = {"SELF_TEST", "SRAM_WIPE"}
    ControlWords <- MCLiveControl
    ByteBeats = {FALSE}
    SRAM_REACH = 2
    FaultyRounds = {1}
    WrongHalves = {1}
INVARIANT SelfTestSound
PROPERTY ScrubEnds
PROPERTY BusyEnds
