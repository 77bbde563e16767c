SPECIFICATION Spec
CONSTANTS
    c1 = c1
    c2 = c2
    slug = slug
    page = page
    Callers <- MCCallers
    Pages <- MCPages
    Params <- MCParams
    Requests <- MCRequests
    Exact <- MCExact
    Layouts <- MCLayouts
    Fields <- MCFields
    Given <- MCGiven
    MaxCalls = 3
    MaxTroubles = 1
SYMMETRY Symmetric
CHECK_DEADLOCK FALSE
INVARIANTS PagesInv RevertReversible
PROPERTY TextsKept
