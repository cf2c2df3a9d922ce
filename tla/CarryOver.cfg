\* Three versions, two stories and one result, up to three writes.
SPECIFICATION MCSpec
CONSTANTS
    Versions = {1, 2, 3}
    Ids = {1, 2}
    Specs = {0, 1}
    Progs = {0, 1}
    PureSpec = {}
    single = single
    both = both
    adhoc = adhoc
    Tests <- MCTests
    LinksOf <- MCLinks
    MaxRuns = 1
    MaxWrites = 3
INVARIANTS
    AcceptedByInheritance
    BaselineRunsCurrent
    DiffExplains
CHECK_DEADLOCK FALSE
