SPECIFICATION Spec
CONSTANTS
    a = a
    b = b
    c = c
    d = d
    k = k
    stranger = stranger
    respelled = respelled
    nothex = nothex
    MaxLines = 2
    Call = {a, b, c, d}
    Key = {k, stranger}
    NoKey = NoKey
    OddSignature = {respelled, nothex}
    NoRecord = NoRecord
    Garbled = Garbled
    Undecodable = Undecodable
    History <- Honest
    PublicKey = k
    SignedBy <- OddMeaning
    NotHex = NotHex
    File <- AllFiles
    PayloadOf <- Payloads
INVARIANTS
    NeverRaises
