SPECIFICATION mcSpec
CONSTANTS
    Person = {o1}
    Link = {l1}
    Browser = {c1, c2}
    Nobody = Nobody
    MaxNews = 4
    FileSize = {1, 2}
    OfferSizes <- mcOffers
    MaxBytes = 3
    MaxLists = 2
    MaxFetches = 2
    Consoles = 2
    PinNos = 2
    MaxMishap = 4
    Hasty = FALSE
CHECK_DEADLOCK FALSE
INVARIANTS
    ChangeIsTold
PROPERTIES
    ListsConverge
    HandedIsWhole
    FetchIsServed
    PinIsSeen
