CONSTANTS
    Providers = {"anthropic", "openai", "local", "ollama_cloud"}
    NumCtx = 6
    SystemTokens = 1
    OutputReserve = 1
    MaxToolIter = 3
    Tokens = {1, 3}
    MaxRows = 3
    MaxCalls = 2
SPECIFICATION Spec
INVARIANTS
    OpensOnUser
CHECK_DEADLOCK FALSE
