SPECIFICATION PickerSpec
CONSTANTS
    image = image  gallery = gallery
    m1 = m1  m2 = m2  m3 = m3  gone = gone
    None = None
    Picker <- MCPicker
    Gallery = {gallery}
    Media = {m1, m2, m3, gone}
    Shelf = {m2}
    OfType <- MCOfType
    Fits <- MCFits
    Dead = {gone}
    Loaded <- MCLoaded
    MaxSent = 1
INVARIANTS
    PickerTypeOK
    ChipsShowValue
    PickersIsolatedInSeries
PROPERTIES
    GalleryWaitsForDone
