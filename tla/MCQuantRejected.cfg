CONSTANTS
    Types <- MCTypes
    Shapes <- MCShapes
    SizeMax <- MCSizeMax
    Rows <- MCRows
    Budgets <- MCBudgets
    Vocabularies <- MCVocabularies
    Inputs <- MCInputs
    Metas <- MCMetas
    Draws <- MCDraws
    Depth = 8
    Exp <- MCExp
    NoToken = NoToken
SPECIFICATION MCSpec
INVARIANT OthersAreRejected
CHECK_DEADLOCK FALSE
