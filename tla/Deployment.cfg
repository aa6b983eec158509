SPECIFICATION Spec
CONSTANTS
    Containers = {c1, c2}
    Users = {ann, bob}
    Texts = {milk, bread}
    Stores = {kiwi}
    Globals = {oat}
    Nothing = nothing
    ann = ann
    bob = bob
    milk = milk
    bread = bread
    kiwi = kiwi
    oat = oat
    Lines <- MCLines
    Databases <- MCDatabases
    Origins <- MCOrigins
    MaxDeleted = 1
    MaxCrashes = 2
INVARIANTS TypeOK UpgradedOnce CatalogueSound
PROPERTIES RevisedAtUpgrade EveryoneServes
CHECK_DEADLOCK FALSE
