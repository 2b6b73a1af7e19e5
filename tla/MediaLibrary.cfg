SPECIFICATION Spec
CONSTANTS
    m1 = m1  m2 = m2
    f1 = f1  f2 = f2  f3 = f3  f4 = f4
    r1 = r1  r2 = r2
    img = img  doc = doc
    n1 = n1  n2 = n2
    NoMedia = NoMedia
    NoPath = NoPath
    NoItem = NoItem
    Removed = Removed
    Media <- MCMedia
    Path <- MCPath
    Picture <- MCPicture
    Image <- MCImage
    Name <- MCName
    Request <- MCRequest
    MayAbort = TRUE
SYMMETRY Symmetry
INVARIANTS
    TypeOK
    LiveItemsHaveFiles
    NoSharedFile
    NoOrphanFilesInSeries
    DeletedItemsKeepFiles
PROPERTY
    ImplementsGallery
CHECK_DEADLOCK FALSE
