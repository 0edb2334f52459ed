SPECIFICATION SupportingSpec
CONSTANTS
    Tabs = {w1, w2}
    NoCookie = NoCookie
    Workplaces = {b1, b2}
    NoWorkplace = NoWorkplace
    MaxDevices = 2
    MaxRotations = 2
    MaxResets = 1
    Restaurants = {r1, r2}
    Users = {u1, u2}
    Slugs = {"a", "b"}
    Nobody = Nobody
    Screens = {s1, s2}
    Links = {l1, l2, l3}
    LegacyLinks = {l1}
    Attempts = 2
    NoCode = NoCode
    Tenants = {t1, t2}
    Arrivals <- MCArrivals
    Sources = {"news"}
    None = None
    MaxSpendings = 1
    Phones = {p1}
    RequestTTL = 1
    TableLimit = 2
    LimitWindow = 2
    BlockAfter = 2
    RejectionWindow = 2
    BlockTime = 2
    MaxMinutes = 3
    MaxAsked = 3
    Limit = 2
    Window = 2
    SweepEvery = 1
    SweepAge = 3
    MaxClock = 8
    Furniture = {f1, f2}
    Admins = {a1, a2}
    MaxTokens = 4
    Panels = {n1, n2}
    Diners = {d1, d2}
    Grace = 2
    MaxInstant = 6
    Areas = {kitchen}
    Categories = {c1, c2}
    Products = {soup, salad}
    Editors = {e1, e2}
    MaxQuantity = 2
    Nothing = Nothing
    MaxCarts = 2
    MaxLost = 1
    MaxVisits = 2
    MaxRequests = 1
    MaxOrders = 1
    MaxReloads = 2
    NotRead = NotRead
INVARIANTS
    SupportingTypesOK
    DevicesFallWithThePassword
    ActiveMembersCanSignIn
    PrintedCodesLead
    ReportLosesNothing
    RejectedTwiceIsQuiet TableIsNotFlooded
    NoWindowOverflows
    NoCardIsForgotten
    TwoAnswersAgree
    ProductsKeepTheirCategory MenuAgreesWithOrders
    OrderedTwiceOnlyUnanswered
    EveryRequestRings
PROPERTIES
    SignedOutForCause
    LastAdminFallsToAStaleToken
    CampaignIsRemembered
    NothingLeavesUnordered
    CloseWarns
CHECK_DEADLOCK FALSE
