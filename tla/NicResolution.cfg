SPECIFICATION MCSpec
CONSTANTS
    Catalogue <- MCCatalogue
    Starts <- MCStarts
    MaxEdits = 2
    MaxPlans = 2
    Sizes <- MCSizes
INVARIANTS
    TypeOK
    LegalMeansResolvable
    BootsFromItsNetwork
    UdevNamesTheCards
    ImageFits
PROPERTY OtherEditsDoNotMatter
\* Edits and plans are bounded.
CHECK_DEADLOCK FALSE
