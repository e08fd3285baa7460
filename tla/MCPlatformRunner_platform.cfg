SPECIFICATION Spec
CONSTANTS
    Runs = {r1, r2}
    core_dims = core_dims
    finance = finance
    sales = sales
    compare = compare
    refresh_30m = refresh_30m
    full_all = full_all
    Jobs = {core_dims, finance, sales, compare, refresh_30m, full_all}
    NoJob = NoJob
    Deps <- McDeps
    Optional <- McOptional
    Own <- McOwn
    NumModules = 3
    Swapped = {sales}
    Isolated = {refresh_30m}
    Disabled = {compare}
    Reusable = {core_dims}
    Starts = {refresh_30m, full_all}
    Nobody = Nobody
    Budget <- McBudget
    MaxKinds = 3
SYMMETRY Symmetry
INVARIANTS TypeOK ModuleExclusive SwapsAreWhole DependenciesFirst NothingRetried StatusIsHonest NoMutualWait
