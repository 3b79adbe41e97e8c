SPECIFICATION ConnectorsSpec
CONSTANTS
    watched = watched
    alone = alone
    Tasks = {watched, alone}
    Unattended = {alone}
    shop = shop
    bank = bank
    Sites = {shop, bank}
    NoSite = nosite
    atShop = atShop
    atBank = atBank
    Origins = {atShop, atBank}
    NoOrigin = noorigin
    SiteOf <- SiteOfOrigin
    Shapes <- AllShapes
    GrantRisks = {1, 2}
    Scenes <- AllScenes
    full = full
    readonly = readonly
    Tokens = {full, readonly}
    CanWrite = {full}
    HomeOf <- Homes
    Requests = {q1}
    MaxActs = 3
    Writers = {w1, w2}
    MaxRecords = 1
    MaxExcuses = 1
CHECK_DEADLOCK FALSE
INVARIANTS ConnectorsTypeOK NothingSilent RepeatIsExplained OnlyConfirmed
PROPERTIES ActsWhereJudged CallReturns
