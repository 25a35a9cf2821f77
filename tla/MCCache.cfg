SPECIFICATION Spec
CONSTANTS
    bag = bag
    sword = sword
    dagger = dagger
    item1 = item1
    order1 = order1
    Keys <- MCKeys
    ItemOf <- MCItemOf
    OrderOf <- MCOrderOf
    BlackMarket = {sword, dagger}
    Prices = {0, 2, 4}
    Effective <- MCEffective
    Lifespan <- MCLifespan
    RoyalRetention = 1
    FresherBy = 0
    Slack = 0
    Arrangements <- MCArrangements
    DismissalTime = 1
    MaxTime = 2
INVARIANT TypeOK
PROPERTIES DismissalHolds NoPrematureEviction DataAgeBounded ItemStaysDismissed
