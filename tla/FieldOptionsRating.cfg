SPECIFICATION Spec
CONSTANTS
    Item = {"i1", "i2", "i3"}
    Query = {"", "a", "b"}
    NoQuery = ""
    Matches <- MCMatches
    Stored <- MCStored
    NoLimit = NoLimit
    Maxima = {2, NoLimit}
    MaxSearches = 2
    Kind = {"Text", "RichText", "Rating", "Select", "Gallery", "MultiRelation"}
    Entry <- MCEntry
    Norm <- MCNorm
    Typed <- MCTyped
    TypeId = {"page", "post"}
    FieldsOf <- MCFieldsOf
    Choice = {"x"}
    RawTexts <- MCRawTexts
    MaxChoices = 2
    MaxPending = 2
    MaxFields = 3
    MaxDrops = 2
    Asset = {"m1", "m2"}
    Name <- MCName
    NoName = ""
    Clean <- MCClean
    Named <- MCNamed
    NoAsset = NoAsset
    MaxLeft = 1
    Image = {"m1", "m2"}
    NoImage = NoImage
    Icon = {"bi-box", "bi-eye"}
    NoIcon = NoIcon
    Filter = {"", "x"}
    NoFilter = ""
    Passing <- MCPassing
    Group = {"g1", "g2"}
    Path <- MCPath
    Href <- MCHref
    GroupOf <- MCGroupOf
    NoGroup = "none"
    MaxName = 4
INVARIANT ShownIsStored
