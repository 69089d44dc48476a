SPECIFICATION CoreSpec
CONSTANTS
    Version = {v1, v2, v3, v4}
    None = None
    HexDigits = 1
    VersionDigits = 2
    U32_MAX = 299
    U16_MAX = 91
    HASH_BYTES = 2
    PATH_BYTES = 5
    MaxBody = 5
    MaxUrl = 5
    MaxSecret = 4
    MaxRoom = 16
    MaxMembers = 2
INVARIANTS ScannerAgrees EchoIsSafe TextsAgree UrlsAgree NeverPanics
PROPERTIES FailSafeUpdate
CHECK_DEADLOCK FALSE
