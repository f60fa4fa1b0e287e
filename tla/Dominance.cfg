SPECIFICATION Spec
CONSTANTS
    N = 4
    None = None
    Entry = 0
    MaxPasses = 10
    MaxIterations = 10
    Block <- MCBlock
    Graphs <- MCGraphs
INVARIANTS DominanceCorrect EstimateKeepsDominators FrontierCorrect PassesBounded
