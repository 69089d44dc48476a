SPECIFICATION FairSpec
CONSTANTS
    v1 = v1
    v2 = v2
    v3 = v3
    Version = {v1, v2, v3}
    Length <- MCLength
    ACTIVE_BYTES = 4
    CHUNK_BYTES = 2
    ERASE_SIZE = 2
    None = None
PROPERTIES HangEndsTrial
