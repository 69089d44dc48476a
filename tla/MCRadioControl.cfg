SPECIFICATION FairSpec
CONSTANTS
    OTA_CODES = {4}
    None = None
INVARIANTS FlashesAreCode
PROPERTIES SupervisorProceeds SettlesOnLatest
