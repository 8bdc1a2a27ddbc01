SPECIFICATION FaultSpec
CONSTANTS
    c1 = c1
    c2 = c2
    c3 = c3
    c4 = c4
    c5 = c5
    c6 = c6
    e1 = e1
    e2 = e2
    p = p
    q = q
    ro = ro
    k = k
    Call = {c1, c2, c3}
    Emission = {}
    Log = {p}
    LogOf <- OneProcess
    KeyOf <- SharedKey
    Unhashable = {}
    Unsignable = {}
    Wide = {c1}
    Key = {k}
    NoKey = NoKey
    OddSignature = {}
    NoRecord = NoRecord
    NoCall = NoCall
    Garbled = Garbled
    Undecodable = Undecodable
INVARIANTS
    ReadableChain
PROPERTIES
    ImplementsDiskLog
