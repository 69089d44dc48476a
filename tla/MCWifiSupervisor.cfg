SPECIFICATION Spec
CONSTANTS
    JOIN_TIMEOUT_MS = 1
    DHCP_TIMEOUT_MS = 1
    DHCP_ATTEMPTS = 2
    LEAVE_TIMEOUT_MS = 1
    INITIAL_BACKOFF_MS = 1
    MAX_BACKOFF_MS = 2
    MQTT_REJOIN_FAILURES = 2
    NO_IP_REBOOT_MS = 7
INVARIANTS LinkOutageBounded
PROPERTIES ResetsAreRare RejoinsAreEarned DeadLinkIsLeft RecoversWithNetwork
