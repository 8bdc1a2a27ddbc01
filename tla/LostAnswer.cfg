SPECIFICATION Spec
CONSTANTS
    h1 = h1
    h2 = h2
    h3 = h3
    o1 = o1
    o2 = o2
    u = u
    bad = bad
    k = k
    Call = {h1}
    Params = {o1}
    ParamsOf <- SharedParams
    IdOf <- Ids
    Absent = Absent
    Missing = Missing
    Value = {u, bad}
    NonCanonical = {bad}
    Response <- OddResponses
    NotDict = NotDict
    SignerOf <- Signers
    Key = {k}
    NoKey = NoKey
    OddSignature = {}
    NoRecord = NoRecord
    Garbled = Garbled
    Undecodable = Undecodable
INVARIANTS
    AnsweredCallsLogged
