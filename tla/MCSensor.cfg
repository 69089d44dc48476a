SPECIFICATION ConnectedSpec
CONSTANTS
    REED_DEBOUNCE_MS = 5
    MaxLate = 2
    None = None
INVARIANTS ReportedInTime NoStateLost
PROPERTIES SettlesOnTruth
