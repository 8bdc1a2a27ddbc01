SPECIFICATION LiveSpec
CONSTANTS
    c1 = c1
    c2 = c2
    c3 = c3
    p = p
    q = q
    k = k
    Call = {c1, c2, c3}
    Emission = {}
    Log = {p, q}
    LogOf <- TwoProcesses
    KeyOf <- SharedKey
    Unhashable = {}
    Unsignable = {}
    Wide = {c1}
    Key = {k}
    NoKey = NoKey
    OddSignature = {}
    NoRecord = NoRecord
    NoCall = NoCall
    Garbled = Garbled
    Undecodable = Undecodable
    PublicKey = k
    SignedBy <- NoneOdd
    NotHex = NotHex
INVARIANTS
    HonestNeverBlamed
    VerifierSeesReceipts
