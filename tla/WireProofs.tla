----------------------------- MODULE WireProofs -----------------------------
(***************************************************************************)
(* For any calls and any edits: what append wrote reads back as what was   *)
(* signed, and what verifies says what was signed.                         *)
(***************************************************************************)
EXTENDS Wire, TLAPS

ToLine(e) == [objects |-> {"line", "entry"}, keys |-> {"entry", "signature"}, entry |-> e]

Shape ==
    /\ signed \in Appended
    /\ line = [objects |-> line.objects, keys |-> line.keys, entry |-> line.entry]
    /\ edits \in Nat
    /\ \A f \in DOMAIN line.entry : line.entry[f] \in Json

(* The line has been read, by a reader or by an append. *)
Taken == {"read", "appended", "append raised"}
Reading ==
    /\ pc \in Taken => reading = FromDict(line)
    /\ pc = "append raised" => ~ (IsRecord(reading) /\ Canonical(reading))

Unedited ==
    /\ pc = "empty" => edits = 0
    /\ pc \in {"written"} \cup Taken => Canonical(signed)
    /\ pc \in {"written"} \cup Taken /\ edits = 0 => line = ToLine(signed)

IInv == Shape /\ Unedited /\ Reading

(* Python's conversions leave a value of the right type as it is. *)
LEMMA ConvertAppended ==
    ASSUME NEW e \in Appended, Canonical(e), e["ts_request"].t = "float", NEW f \in Fields
    PROVE  Convert(f, e[f]) = e[f] /\ e[f].t \notin Errors
<1>1. e \in Entry /\ e[f] \in Json
  BY AppendedAssumption DEF Entry
<1>2. e[f].t \notin Errors
  BY <1>1 DEF Json, Types, Errors
<1>3. CASE f = "seq"
  <2>1. e[f].t = "int" /\ e[f].quoted = FALSE
    BY <1>1, <1>3, AppendedAssumption DEF Json
  <2> QED BY <1>1, <1>2, <1>3, <2>1 DEF Convert, PyInt, Integer, Json
<1>4. CASE f = "ts_request"
  <2>1. e[f].t = "float" /\ e[f].quoted = FALSE
    BY <1>1, <1>4, AppendedAssumption DEF Json
  <2> QED BY <1>1, <1>2, <1>4, <2>1 DEF Convert, PyFloat, Json
<1>5. CASE f = "status"
  BY <1>2, <1>5, AppendedAssumption DEF Convert
<1>6. CASE f = "tool_name"
  <2>1. e[f] = Null \/ e[f].quoted = TRUE
    BY <1>1, <1>6, AppendedAssumption DEF Json
  <2> QED BY <1>1, <1>2, <1>6, <2>1 DEF Convert, PyStr, Json
<1>7. CASE f = "server_id"
  <2>1. e[f].quoted = TRUE
    BY <1>1, <1>7, AppendedAssumption DEF Json
  <2> QED BY <1>1, <1>2, <1>7, <2>1 DEF Convert, PyStr, Json
<1> QED BY <1>3, <1>4, <1>5, <1>6, <1>7 DEF Fields

(* What int() cuts off. *)
LEMMA HalfOf == \A n \in Nat : n - 2 * (n \div 2) \in {0, 1}
OBVIOUS

(* A number that is converted keeps its amount: all of it as a time, and   *)
(* all but a fraction as a seq; a text keeps its spelling.                 *)
LEMMA ConvertSays ==
    ASSUME NEW f \in Fields, NEW x \in Json, NEW y, Convert(f, x) = y, y.t \notin Errors,
           ~ (y.t \in {"nan", "infinity"} /\ ~ y.quoted)
    PROVE  /\ f = "ts_request" => Amount(x) = Amount(y)
           /\ f = "seq" => Amount(x) - Amount(y) \in {0, 1}
           /\ f \in {"server_id", "tool_name", "status"} => PyStr(x) = PyStr(y)
<1>1. CASE f = "seq"
  <2>1. y = PyInt(x)
    BY <1>1 DEF Convert
  <2>2. CASE x.t = "int"
    BY <1>1, <2>1, <2>2 DEF PyInt, Integer, Amount, Json
  <2>3. CASE x.t = "float" /\ ~ x.quoted
    <3>1. x.v \in Nat /\ Amount(x) = x.v
      BY <2>3 DEF Amount, Json
    <3>2. y.t = "int" /\ y.v = x.v \div 2
      BY <2>1, <2>3 DEF PyInt, Integer
    <3>3. Amount(y) = 2 * (x.v \div 2)
      BY <3>2 DEF Amount
    <3> QED BY <1>1, <3>1, <3>3, HalfOf
  <2>4. CASE x.t # "int" /\ ~ (x.t = "float" /\ ~ x.quoted)
    BY <2>1, <2>4 DEF PyInt, Raises, Errors
  <2> QED BY <1>1, <2>2, <2>3, <2>4
<1>2. CASE f = "ts_request"
  <2>1. y = PyFloat(x)
    BY <1>2 DEF Convert
  <2>2. CASE x.t = "int"
    BY <1>2, <2>1, <2>2 DEF PyFloat, Float, Amount, Json
  <2>3. CASE x.t \in {"float", "nan", "infinity"}
    BY <1>2, <2>1, <2>3 DEF PyFloat, Amount, Json
  <2>4. CASE x.t \notin {"int", "float", "nan", "infinity"}
    BY <2>1, <2>4 DEF PyFloat, Raises, Errors
  <2> QED BY <1>2, <2>2, <2>3, <2>4
<1>3. CASE f = "status"
  BY <1>3 DEF Convert, Raises, Errors
<1>4. CASE f \in {"tool_name", "server_id"}
  BY <1>4 DEF Convert, PyStr, Json
<1> QED BY <1>1, <1>2, <1>3, <1>4 DEF Fields

(* Only numbers and a status are refused, with an error. *)
LEMMA ConvertRefuses ==
    ASSUME NEW f \in Fields, NEW x \in Json, Convert(f, x).t \in Errors
    PROVE  /\ \E error \in Errors : Convert(f, x) = Raises(error)
           /\ f \in {"seq", "ts_request", "status"}
<1>1. x.t \notin Errors
  BY DEF Json, Types, Errors
<1>2. CASE f = "seq"
  <2>1. Convert(f, x) = PyInt(x) /\ PyInt(x).t \in Errors
    BY <1>2 DEF Convert
  <2>2. \A n : Integer(n).t \notin Errors
    BY DEF Integer, Errors
  <2>3. PyInt(x) \in {Integer(x.v), Integer(x.v \div 2), Raises("OverflowError"),
                     Raises("TypeError"), Raises("ValueError")}
    BY DEF PyInt
  <2> QED BY <1>2, <2>1, <2>2, <2>3 DEF Errors
<1>3. CASE f = "ts_request"
  <2>1. Convert(f, x) = PyFloat(x) /\ PyFloat(x).t \in Errors
    BY <1>3 DEF Convert
  <2>2. \A n : Float(n).t \notin Errors
    BY DEF Float, Errors
  <2>3. [x EXCEPT !.quoted = FALSE].t \notin Errors
    BY <1>1 DEF Json
  <2>4. PyFloat(x) \in {Float(2 * x.v), [x EXCEPT !.quoted = FALSE],
                       Raises("TypeError"), Raises("ValueError")}
    BY DEF PyFloat
  <2> QED BY <1>3, <2>1, <2>2, <2>3, <2>4 DEF Errors
<1>4. CASE f = "status"
  BY <1>1, <1>4 DEF Convert, Errors
<1>5. CASE f \in {"tool_name", "server_id"}
  <2>1. Convert(f, x) \in {Null, PyStr(x)}
    BY <1>5 DEF Convert
  <2>2. PyStr(x).t = x.t
    BY DEF PyStr, Json
  <2>3. Null.t \notin Errors
    BY DEF Null, Errors
  <2> QED BY <1>1, <2>1, <2>2, <2>3
<1> QED BY <1>2, <1>3, <1>4, <1>5 DEF Fields

(* A line gives an entry only if it has the keys of one and no other, and  *)
(* only of values each of which converts.                                  *)
LEMMA ReadEntry ==
    ASSUME NEW l, \A f \in DOMAIN l.entry : l.entry[f] \in Json, IsRecord(FromDict(l))
    PROVE  /\ l.keys = {"entry", "signature"}
           /\ DOMAIN l.entry = Fields
           /\ FromDict(l) = [f \in Fields |-> Convert(f, l.entry[f])]
           /\ \A f \in Fields : Convert(f, l.entry[f]).t \notin Errors
<1>1. ASSUME NEW error PROVE ~ IsRecord(Raises(error))
  BY DEF IsRecord, Raises, Fields
<1>2. l.keys = {"entry", "signature"} /\ DOMAIN l.entry = Fields /\ FromDict(l) = Converted(l.entry)
  BY <1>1 DEF FromDict
<1>3. Refused(l.entry) = {}
  <2> SUFFICES ASSUME Refused(l.entry) # {} PROVE FALSE
    OBVIOUS
  <2> DEFINE f == FirstRefused(l.entry)
  <2>1. Refused(l.entry) \subseteq {"seq", "ts_request", "status"}
    BY <1>2, ConvertRefuses DEF Refused
  <2>2. f \in Refused(l.entry)
    BY <2>1 DEF FirstRefused
  <2>3. FromDict(l) = Convert(f, l.entry[f])
    BY <1>2 DEF Converted
  <2>4. PICK error \in Errors : Convert(f, l.entry[f]) = Raises(error)
    BY <1>2, <2>2, ConvertRefuses DEF Refused
  <2> QED BY <1>1, <2>3, <2>4
<1> QED BY <1>2, <1>3 DEF Converted, Refused

(* The line of an entry that can be signed reads back as it. *)
LEMMA ReadAppended ==
    ASSUME NEW e \in Appended, Canonical(e), e["ts_request"].t = "float"
    PROVE  FromDict(ToLine(e)) = e
<1>1. e = [f \in Fields |-> e[f]]
  BY AppendedAssumption DEF Entry
<1>2. FromDict(ToLine(e)) = Converted(e)
  BY <1>1 DEF FromDict, ToLine
<1>3. Refused(e) = {}
  BY ConvertAppended DEF Refused
<1>4. Converted(e) = [f \in Fields |-> Convert(f, e[f])]
  BY <1>3 DEF Converted
<1> QED BY <1>1, <1>2, <1>4, ConvertAppended

-----------------------------------------------------------------------------
(* Nothing is written yet. *)
LEMMA InitInv == Init => IInv
BY DEF Init, IInv, Shape, Unedited, Reading, Taken

(* An edit puts a JSON value in, or takes something out. *)
LEMMA EditShape == IInv /\ Edit => Shape'
<1> SUFFICES ASSUME IInv, Edit PROVE Shape'
  OBVIOUS
<1> USE DEF IInv, Shape
<1>1. signed' \in Appended /\ edits' \in Nat
  BY DEF Edit
<1>2. ASSUME NEW f \in DOMAIN line.entry \cap Fields, NEW x \in Edits[f],
             line' = [line EXCEPT !.entry[f] = x]
      PROVE  Shape'
  <2>1. x \in Json
    BY <1>2, EditsAssumption
  <2> QED BY <1>1, <1>2, <2>1
<1>3. ASSUME NEW f, line' = [line EXCEPT !.entry = [g \in DOMAIN @ \ {f} |-> @[g]]]
      PROVE  Shape'
  BY <1>1, <1>3
<1>4. ASSUME line' = [line EXCEPT !.entry = [g \in DOMAIN @ \cup {"extra"} |->
                                               IF g \in DOMAIN @ THEN @[g] ELSE Null]]
      PROVE  Shape'
  <2>1. Null \in Json
    BY DEF Null, Json, Types
  <2> QED BY <1>1, <1>4, <2>1
<1>5. ASSUME NEW ks, line' = [line EXCEPT !.keys = ks]
      PROVE  Shape'
  BY <1>1, <1>5
<1>6. ASSUME NEW ps, line' = [line EXCEPT !.objects = @ \ {ps}]
      PROVE  Shape'
  BY <1>1, <1>6
<1> QED BY <1>2, <1>3, <1>4, <1>5, <1>6 DEF Edit

(* Every step keeps IInv. *)
LEMMA NextInv == IInv /\ [Next]_vars => IInv'
<1> SUFFICES ASSUME IInv, [Next]_vars PROVE IInv'
  OBVIOUS
<1> USE DEF IInv
<1>1. CASE Attest
  <2>1. signed \in Entry
    BY AppendedAssumption DEF Shape
  <2>2. line' = ToLine(signed)
    BY <1>1 DEF Attest, ToLine
  <2>3. Shape'
    BY <1>1, <2>1, <2>2 DEF Attest, Shape, ToLine, Entry
  <2>4. Unedited' /\ Reading'
    BY <1>1, <2>2 DEF Attest, Unedited, Reading, Taken
  <2> QED BY <2>3, <2>4
<1>2. CASE Edit
  <2>1. Unedited' /\ Reading'
    BY <1>2 DEF Edit, Unedited, Reading, Taken, Shape, Canonical
  <2> QED BY <1>2, <2>1, EditShape
<1>3. CASE Read
  BY <1>3 DEF Read, Shape, Unedited, Reading, Taken, Canonical
<1>4. CASE AppendNext
  BY <1>4 DEF AppendNext, Shape, Unedited, Reading, Taken, Canonical
<1>5. CASE UNCHANGED vars
  BY <1>5 DEF vars, Shape, Unedited, Reading, Taken, Canonical
<1> QED BY <1>1, <1>2, <1>3, <1>4, <1>5 DEF Next, Done

(* IInv is an invariant. *)
LEMMA Invariance == Spec => []IInv
BY InitInv, NextInv, PTL DEF Spec

(* A line append has written, with times that are floats, reads back as    *)
(* what was signed, for a reader and for the next append.                  *)
THEOREM WrittenReadsBack == Spec => []ReadsBack
<1>1. IInv => ReadsBack
  <2> SUFFICES ASSUME IInv, pc \in Taken, edits = 0, signed["ts_request"].t = "float"
               PROVE  pc # "append raised" /\ Verifies
    BY DEF ReadsBack, Taken
  <2>1. signed \in Appended /\ Canonical(signed) /\ reading = FromDict(ToLine(signed))
    BY DEF IInv, Shape, Unedited, Reading
  <2>2. reading = signed
    BY <2>1, ReadAppended
  <2>3. signed \in Entry
    BY <2>1, AppendedAssumption
  <2>4. IsRecord(reading) /\ Canonical(reading)
    BY <2>1, <2>2, <2>3 DEF IsRecord, Entry
  <2> QED BY <2>2, <2>4 DEF Verifies, IInv, Reading
<1> QED BY <1>1, Invariance, PTL

(* What verifies has the keys of a record and says what was signed,        *)
(* whatever JSON the line was edited into.                                 *)
THEOREM AcceptedLineCorrect == Spec => []AcceptedSaysTheSame
<1>1. IInv => AcceptedSaysTheSame
  <2> SUFFICES ASSUME IInv, pc = "read", Verifies
               PROVE  /\ line.keys = {"entry", "signature"} /\ DOMAIN line.entry = Fields
                      /\ Amount(line.entry["ts_request"]) = Amount(signed["ts_request"])
                      /\ Amount(line.entry["seq"]) - Amount(signed["seq"]) \in {0, 1}
                      /\ \A f \in {"server_id", "tool_name", "status"} :
                             PyStr(line.entry[f]) = PyStr(signed[f])
    BY DEF AcceptedSaysTheSame
  <2>1. IsRecord(FromDict(line)) /\ \A f \in DOMAIN line.entry : line.entry[f] \in Json
    BY DEF IInv, Shape, Reading, Taken, Verifies
  <2>2. /\ line.keys = {"entry", "signature"} /\ DOMAIN line.entry = Fields
        /\ FromDict(line) = [f \in Fields |-> Convert(f, line.entry[f])]
        /\ \A f \in Fields : Convert(f, line.entry[f]).t \notin Errors
    BY <2>1, ReadEntry
  <2>3. ASSUME NEW f \in Fields
        PROVE  /\ line.entry[f] \in Json /\ Convert(f, line.entry[f]) = signed[f]
               /\ signed[f].t \notin Errors
               /\ ~ (signed[f].t \in {"nan", "infinity"} /\ ~ signed[f].quoted)
    BY <2>1, <2>2 DEF IInv, Reading, Taken, Verifies, Canonical
  <2>4. ASSUME NEW f \in Fields
        PROVE  /\ f = "ts_request" => Amount(line.entry[f]) = Amount(signed[f])
               /\ f = "seq" => Amount(line.entry[f]) - Amount(signed[f]) \in {0, 1}
               /\ f \in {"server_id", "tool_name", "status"} =>
                      PyStr(line.entry[f]) = PyStr(signed[f])
    BY <2>3, ConvertSays
  <2> QED BY <2>2, <2>4 DEF Fields
<1> QED BY <1>1, Invariance, PTL
=============================================================================
