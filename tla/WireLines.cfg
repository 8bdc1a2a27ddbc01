SPECIFICATION Spec
CONSTANTS
    Appended <- Calls
    Edits <- FieldEdits
    MaxEdits = 2
INVARIANTS
    ReadsBack
    AcceptedSaysTheSame
