SPECIFICATION Spec
CONSTANTS
    Keys = {k1, k2}
    Writers = {w1, w2}
    Values = {a, b}
    None = None
    Fences = {0, 1}
    MaxRevision = 3
SYMMETRY Symmetry
INVARIANTS
    TypeOK
    OneWritePerRevision
    DecisionsNameWrites
PROPERTIES
    IntentAndStatusApart
    ImplementsStore
