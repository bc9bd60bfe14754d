SPECIFICATION FairSpec
CONSTANTS
    w1 = w1
    w2 = w2
    w3 = w3
    n1 = n1
    n2 = n2
    None = None
    Torn = Torn
    Ids = {w1, w2}
    Sessions = {s1, s2}
    Tasks = {t1, t2}
    Names = {n1}
    Scripts = {"none"}
    DefaultScript = "none"
    Args = {"default", "other"}
    DefaultArgs = "default"
    InitialStores <- OneMain
    Ops = {"connect", "add", "giturl", "args"}
    Faults = {"spawn", "crash", "write", "rollback"}
    Daemon = FALSE
INVARIANT ConnectedIsRegistered
INVARIANT NoLeakedSession
PROPERTY KillSparesReferenced
PROPERTY SwitchReachesAll
PROPERTY FailedAddIsForgotten
PROPERTY RequestsReturn
