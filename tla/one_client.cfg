SPECIFICATION Spec
CONSTANTS
    w1 = w1
    w2 = w2
    w3 = w3
    n1 = n1
    n2 = n2
    None = None
    Torn = Torn
    Ids = {w1, w2, w3}
    Sessions = {s1, s2}
    Tasks = {t1}
    Names = {n1, n2}
    Scripts = {"none"}
    DefaultScript = "none"
    Args = {"default"}
    DefaultArgs = "default"
    InitialStores <- OneFamily
    Ops = {"connect", "clone", "worktree", "remove", "rmworktree", "rename"}
    Faults = {"spawn", "crash", "git", "write"}
    Daemon = FALSE
SYMMETRY Symmetry
INVARIANT ConnectedIsKnown
INVARIANT EntryMatchesCheckout
PROPERTY KillSparesReferenced
