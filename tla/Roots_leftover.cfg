SPECIFICATION Spec
CONSTANTS
    main = main
    r1 = r1
    r2 = r2
    outer = outer
    inner = inner
    films = films
    Main = main
    Actor = {main, r1, r2}
    Source = {outer, inner}
    Depth <- MCDepth
    Lib = {films}
    Target = films
    Linkable <- MCLinkable
    ReadOnly = {inner}
    Budgets <- MCRestart
INVARIANT CachedIsTrue
SYMMETRY MCSymmetry
CHECK_DEADLOCK FALSE
