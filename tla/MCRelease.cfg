SPECIFICATION FairSpec
CONSTANTS
    b1 = b1
    b2 = b2
    b2again = b2again
    Build = {b1, b2, b2again}
    Ver <- MCVer
    First = b1
    Torn = Torn
    None = None
INVARIANTS CommitPoint
PROPERTIES InstallsWhatItWasTold DeploymentArrives
