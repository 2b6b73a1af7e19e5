SPECIFICATION Spec
CONSTANTS
    i1 = i1  i2 = i2  r1 = r1  r2 = r2  a = a  a2 = a2
    NoItem = NoItem
    NoSlug = NoSlug
    Item <- TwoItems
    Request <- TwoRequests
    Slug <- Slugs
    Candidates <- Suffixed
    ApiTargets = 1
    MaxSaves = 3
SYMMETRY Symmetry
INVARIANTS
    TypeOK
    SlugsShared
    IncompleteHasCause
    ShownIncompleteInSeries
    RelationsBounded
PROPERTIES
    PublicationAskedInSeries
    PublishedAtKeptInSeries
CHECK_DEADLOCK FALSE
