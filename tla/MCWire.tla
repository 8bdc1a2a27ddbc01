------------------------------- MODULE MCWire -------------------------------
(* Instances of Wire for TLC. *)
EXTENDS Wire

Call(times) == [seq : {Integer(0), Integer(1)},
                ts_request : times,
                server_id : {Word(2), PyStr(Integer(1)), PyStr(Null)},
                tool_name : {Null, Word(2), PyStr(Null)},
                status : {OK, ERROR}]

Times == {Float(2), Float(3)}
AnyTimes == Times \cup {Integer(1), [t |-> "nan", v |-> 0, quoted |-> FALSE]}
FloatCalls == Call(Times)
Calls == Call(AnyTimes)

Values == {Integer(0), Integer(1), Float(1), Float(2), Float(3), Null, Word(0), Word(1), Word(2)}
          \cup {[t |-> x, v |-> 0, quoted |-> FALSE] : x \in {"nan", "infinity", "list"}}
FieldEdits == [f \in Fields |-> Values \cup {PyStr(x) : x \in Values}]
=============================================================================
