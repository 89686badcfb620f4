SPECIFICATION Spec
CONSTANTS
    Ids <- FiveIds
    Filters <- SomeFilters
    MaxLimit = 2
    Clients = {c1}
    None = None
INVARIANTS
    WalkComplete
    PagesInOrder
PROPERTIES
    EmptyPageExplained
