SPECIFICATION Spec
CONSTANTS
    Keys = {k1, k2}
    Providers = {p1, p2}
    HomeTTL = 1
    SearchTTL = 0
    MaxBuild = 2
SYMMETRY Symmetry
INVARIANTS LayersApart CachedHomeResolves
PROPERTIES PromisesSurvive ReplacementRetires
