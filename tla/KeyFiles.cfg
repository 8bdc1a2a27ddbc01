SPECIFICATION Spec
CONSTANTS
    Keygen = {g1, g2, g3}
    Sth = {s1, s2}
    Absent = Absent
    NotAKey = NotAKey
SYMMETRY Runs
INVARIANTS
    NeverMintsMixedPair
    LoneKeygenPairs
CHECK_DEADLOCK FALSE
