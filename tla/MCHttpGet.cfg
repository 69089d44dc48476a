SPECIFICATION Spec
CONSTANTS
    MAX_HEAD_BYTES = 10
    READ_CHUNK = 3
    MaxBody = 5
    CHUNK_BYTES = 2
    Responses <- MCResponses
INVARIANTS HeadAgrees BodyIsWhole
PROPERTIES ArrivedIsTaken EveryStepAdvances Terminates
CHECK_DEADLOCK FALSE
