SPECIFICATION Spec
CONSTANTS
    Appended <- FloatCalls
    Edits <- FieldEdits
    MaxEdits = 1
INVARIANTS
    AnyEditShows
