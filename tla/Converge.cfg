SPECIFICATION FairSpec
CONSTANTS
    Replica <- MCReplica
    Table = {1, 2}
    Sequence = {3}
    OnceStep = {1}
    AssertStep = {2}
    Before = {1}
    Version <- MCVersion
    Digest <- MCDigest
    Initialize <- MCInitialize
    MaxFault = 1
    MaxOther = 1
INVARIANTS
    TypeOK
    OnceIsOnce
    AnswerIsTrue
    NeverOverAClaim
PROPERTIES
    NothingIsTakenOver
    SchemaConverges
CHECK_DEADLOCK FALSE
