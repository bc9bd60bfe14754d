SPECIFICATION Spec
CONSTANTS
    w1 = w1
    w2 = w2
    w3 = w3
    n1 = n1
    n2 = n2
    None = None
    Torn = Torn
    Ids = {w1, w2}
    Sessions = {s1}
    Tasks = {t1, t2}
    Names = {n1}
    Scripts = {"none"}
    DefaultScript = "none"
    Args = {"default"}
    DefaultArgs = "default"
    InitialStores <- OneMain
    Ops = {"add", "settings"}
    Faults = {}
    Daemon = FALSE
SYMMETRY Symmetry
INVARIANT MemoryIsPersisted
