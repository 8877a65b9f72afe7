CONSTANTS
    bos = bos
    eos = eos
    a = a
    torn_value = torn_value
    Layers = 3
    Ctx = 4
    Tokens <- MCTokens
    Eos = eos
    Bos = bos
    AddBos = FALSE
    Prompts <- MCPrompts
    MaxTokensSet <- MCMaxTokensSet
    Torn = torn_value
    MaxCalls = 2
SPECIFICATION Spec
INVARIANTS CacheIsPrefix AttentionInBounds LogitsOfHistory
PROPERTY ImplementsGeneration
