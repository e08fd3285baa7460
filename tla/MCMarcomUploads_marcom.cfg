\* Two commits at a time, three batches, rollbacks and removals in any order.
SPECIFICATION Spec
CONSTANTS
    k1 = k1
    k2 = k2
    MaxBatches = 3
    Keys = {k1, k2}
    Values = {"a", "b"}
    Brands = {"a", "b"}
    Brand <- MCBrand
    Files <- MCFiles
    NoFile = NoFile
    Uploads = {u1, u2, u3}
    NoUpload = NoUpload
    Clients = {c1, c2}
    NoClient = NoClient
INVARIANTS
    TypeOK
    LinksSound
    LiveIsStated
    LatestIsLive
    BrandsOwned
    ImportedOnce
PROPERTIES
    LaterKeepsItsData
    ImplementsLedger
SYMMETRY MCSymmetry
CHECK_DEADLOCK FALSE
