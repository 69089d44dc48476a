SPECIFICATION Spec
CONSTANTS
    RELAY_PULSE_MS = 6
    RELAY_COOLDOWN_MS = 20
    Capacity = 4
    InboxCap = 2
    MaxLate = 2
    None = None
PROPERTIES PinContract NoStaleRefusal BurstIsOnePulse RelayReleased BacklogDrains
