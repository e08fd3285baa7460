\* Is the right row live after batches were taken back out of order?
SPECIFICATION Spec
CONSTANTS
    k1 = k1
    k2 = k2
    MaxBatches = 3
    Keys = {k1, k2}
    Values = {"a", "b"}
    Brands = {"a", "b"}
    Brand <- MCBrand
    Files <- MCFiles
    NoFile = NoFile
    Uploads = {u1, u2, u3}
    NoUpload = NoUpload
    Clients = {c1}
    NoClient = NoClient
INVARIANT RightRowIsLive
SYMMETRY MCSymmetry
CHECK_DEADLOCK FALSE
