SPECIFICATION Spec
CONSTANTS
    Ids <- ThreeIds
    Stocks <- SomeStocks
    PageSize = 1
    MaxPages = 3
    MaxRetries = 1
    Concurrency = 2
    MaxEvents = 1
INVARIANTS
    ListWhole
    ResultIsComplete
PROPERTY
    ProbeEnds
