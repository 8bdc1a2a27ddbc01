SPECIFICATION Spec
CONSTANTS
    k = k
    stranger = stranger
    x = x
    y = y
    Key = {k, stranger}
    Length = {1, 2}
    Head = {x, y}
    Minted <- Forks
    ServerKey = k
    NotHex = NotHex
    WrongSize = WrongSize
    File <- Files
INVARIANTS
    EvidenceIsProof
    ForksFound
