SPECIFICATION FairSpec
CONSTANTS
    WORD_BITS = 3
    KEM_Q = 2
    DSA_Q = 3
INVARIANT ResponseAnswersRequest
INVARIANT ModelAgrees
PROPERTY MultiplierServes
PROPERTY ResponseStable
PROPERTY RequestAnswered
