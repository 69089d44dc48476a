SPECIFICATION Spec
CONSTANTS
    Capacity = 1
    MQTT_REJOIN_FAILURES = 2
    MaxInbox = 2
    MaxCommits = 3
INVARIANTS QuietIsTold LoopIsSubscribedOrFailed
PROPERTIES NeverBackwards RejoinOnlyUnreachable StateIsTold
