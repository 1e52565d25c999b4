SPECIFICATION MCSpec
CONSTANTS
    Catalogue <- MCCatalogue
    Starts <- OneCard
    MaxEdits = 0
    MaxPlans = 1
    Sizes <- MCSizes
INVARIANT ImageHoldsLayout
\* Edits and plans are bounded.
CHECK_DEADLOCK FALSE
