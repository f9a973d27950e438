SPECIFICATION Spec
INVARIANTS
    EditorsTold
CONSTANTS
    Tiers <- AllTiers
    Offers <- AllOffers
    Length <- Lengths
    Starts <- AnyTerm
    Editors = {ada, bo}
    NoTier = NoTier
    NoInvoice = NoInvoice
    MaxDay = 2
    MaxEdits = 2
    MaxFaults = 0
