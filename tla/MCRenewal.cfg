SPECIFICATION Spec
PROPERTIES
    PaidForTerms
    InvoiceKept
    Converges
    PaymentRenews
CONSTANTS
    Tiers <- AllTiers
    Offers <- AllOffers
    Length <- Lengths
    Starts <- AnyTerm
    Editors = {ada}
    NoTier = NoTier
    NoInvoice = NoInvoice
    MaxDay = 2
    MaxEdits = 1
    MaxFaults = 1
