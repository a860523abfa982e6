CONSTANTS
    t1 = t1
    t2 = t2
    dom1 = dom1
    dom2 = dom2
    ctx1 = ctx1
    ctx2 = ctx2
    Empty = Empty
    UpdatedCtx = UpdatedCtx
    NoCtx = NoCtx
    NoThread = NoThread
    Threads <- MCThreads
    Domains <- MCDomains
    Contexts <- MCContexts
    InitializedCtxs <- MCInitialized
SPECIFICATION Spec
CHECK_DEADLOCK FALSE
PROPERTY MissedLookupReturns
