SPECIFICATION Spec
CONSTANTS
    None = None
    new = new
    list = list
    login = login
    prompt = prompt
    memory = memory
    w1 = w1
    w2 = w2
    Plain = {new, list, login}
    Kind <- MCKind
    Prompts = {prompt}
    Memory = {memory}
    WsOf <- MCWsOf
    Workspaces = {w1, w2}
    Encloses <- MCEncloses
    Owner = w1
    OutCap = 2
    Workloads <- MCWorkloads
INVARIANT TypeOK
INVARIANT InductiveInvariant
INVARIANT NothingLeftBehind
INVARIANT EventsFollowTheStarter
INVARIANT NamedAgentsStayHidden
INVARIANT TurnsOfPromptsAreHidden
INVARIANT PromptsCleanUp
PROPERTY PromptsReturn
PROPERTY ImplementsRequestReply
PROPERTY CallsReturn
