SPECIFICATION FairSpec
CONSTANTS
    Groups = {g1}
    Builds = {b1, b2}
    Warms = {w1, w2}
    MaxEdition = 1
    MaxTaste = 1
    MaxRestart = 1
INVARIANTS StaleIsHealing
PROPERTIES HomeKeepsUp WarmLoopEnds
