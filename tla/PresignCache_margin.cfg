SPECIFICATION Spec
CONSTANTS
    page = page
    single = single
    Request = {page, single}
    k1 = k1
    k2 = k2
    k3 = k3
    Lists <- MCLists
    Key = {k1, k2, k3}
    Expiries <- MCExpiries
    Margin = 2
    Limit = 2
    Tries = 2
    Slack = 1
SYMMETRY Symmetry
INVARIANTS AnswersLive OwnKey OnlyRefusedAbsent
