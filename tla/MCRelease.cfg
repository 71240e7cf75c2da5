CONSTANTS
    Sha <- MCSha
    NoticeFiles <- MCNoticeFiles
    Declared <- MCDeclared
    PINS = 5
    GPIOS = 2
    RESET_PIN = 1
    VSS_PIN = 4
    GPIO0_PIN = 2
    CLOCK_GPIO = 1
    SIGNALS <- MCSignals
    ATE_REQUIRED <- MCAteRequired
    GATES = 2
    MIN_BLOCKERS = 2
    BaseTree <- MCBaseTree
    Variants <- MCVariants
    MaxEdits = 1
    BaseLinks <- MCBaseLinks
    NewSha = "sha-new"
    T1Args <- MCT1Args
SPECIFICATION Spec
INVARIANT GreenMeansAccounted
INVARIANT GreenMeansWired
INVARIANT RegenerationSettles
INVARIANT PlansCover
