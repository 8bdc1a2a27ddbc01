SPECIFICATION Spec
CONSTANTS
    Appended <- Calls
    Edits <- FieldEdits
    MaxEdits = 1
INVARIANTS
    WrittenVerifies
