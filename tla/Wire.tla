-------------------------------- MODULE Wire --------------------------------
(***************************************************************************)
(* A record from append to the line on disk and back through               *)
(* SignedRecord.from_dict, with the types its numbers and texts have in    *)
(* Python and in JSON.  One field stands for each way of conversion.       *)
(***************************************************************************)
EXTENDS Integers

CONSTANTS Appended,   \* the entries append may be asked for
          Edits,      \* what one may write into a line, field by field
          MaxEdits

(* A JSON value: v is its number (of halves in a float), or which word it  *)
(* is; a quoted value is the string that spells it.                        *)
Types == {"int", "float", "nan", "infinity", "null", "list", "word"}
Json == [t : Types, v : Nat, quoted : BOOLEAN]
Integer(n)   == [t |-> "int", v |-> n, quoted |-> FALSE]
Float(n) == [t |-> "float", v |-> n, quoted |-> FALSE]
Null     == [t |-> "null", v |-> 0, quoted |-> FALSE]
Word(n)  == [t |-> "word", v |-> n, quoted |-> TRUE]
OK    == Word(0)
ERROR == Word(1)

(* Of the same kind: ts_response; prev_hash, request_id, method,           *)
(* params_hash and result_hash.                                            *)
Fields == {"seq", "ts_request", "server_id", "tool_name", "status"}
Entry == [Fields -> Json]

(* The seq and the hashes are append's own.  The other texts are given to  *)
(* it or to the log, where they are typed str; the times are the caller's. *)
ASSUME AppendedAssumption ==
    \A e \in Appended :
        /\ e \in Entry
        /\ e["seq"].t = "int" /\ ~ e["seq"].quoted
        /\ e["ts_request"].t \in {"int", "float", "nan", "infinity"} /\ ~ e["ts_request"].quoted
        /\ e["server_id"].quoted
        /\ e["tool_name"] = Null \/ e["tool_name"].quoted
        /\ e["status"] \in {OK, ERROR}
ASSUME EditsAssumption == Edits \in [Fields -> SUBSET Json]

VARIABLES signed,   \* the entry that was signed
          line,     \* its line: which parts are objects, the keys, the values
          edits,
          reading,  \* what from_dict makes of the line: an entry, or its error
          pc

vars == <<signed, line, edits, reading, pc>>

-----------------------------------------------------------------------------
(* int(), float(), str(), and the errors they raise *)

Raises(error) == [t |-> error, v |-> 0, quoted |-> FALSE]
Errors == {"ValueError", "TypeError", "AttributeError", "OverflowError"}

PyInt(x) ==
    CASE x.t = "int"                          -> Integer(x.v)
      [] x.t = "float" /\ ~ x.quoted          -> Integer(x.v \div 2)
      [] x.t = "infinity" /\ ~ x.quoted       -> Raises("OverflowError")
      [] x.t \in {"null", "list"} /\ ~ x.quoted -> Raises("TypeError")
      [] OTHER                                -> Raises("ValueError")

PyFloat(x) ==
    CASE x.t = "int"                          -> Float(2 * x.v)
      [] x.t \in {"float", "nan", "infinity"} -> [x EXCEPT !.quoted = FALSE]
      [] x.t \in {"null", "list"} /\ ~ x.quoted -> Raises("TypeError")
      [] OTHER                                -> Raises("ValueError")

PyStr(x) == [x EXCEPT !.quoted = TRUE]

(* Faulty: the text None for a tool that has no name. *)
Convert_NullToText(field, x) ==
    CASE field = "seq"        -> PyInt(x)
      [] field = "ts_request" -> PyFloat(x)
      [] field = "status"     -> IF x \in {OK, ERROR} THEN x ELSE Raises("ValueError")
      [] OTHER                -> PyStr(x)

Convert(field, x) ==
    CASE field = "seq"        -> PyInt(x)
      [] field = "ts_request" -> PyFloat(x)
      [] field = "status"     -> IF x \in {OK, ERROR} THEN x ELSE Raises("ValueError")
      [] field = "tool_name"  -> IF x = Null THEN Null ELSE PyStr(x)
      [] OTHER                -> PyStr(x)

(* AttestationEntry.from_dict, once the keys are those of an entry: the    *)
(* status is looked at first, then the fields in their order.              *)
Refused(d) == {f \in Fields : Convert(f, d[f]).t \in Errors}
FirstRefused(d) ==
    IF "status" \in Refused(d) THEN "status"
    ELSE IF "seq" \in Refused(d) THEN "seq"
    ELSE "ts_request"
Converted(d) ==
    IF Refused(d) # {} THEN Convert(FirstRefused(d), d[FirstRefused(d)])
    ELSE [f \in Fields |-> Convert(f, d[f])]

(* Faulty: keys nobody knows are passed over. *)
FromDict_AnyKeys(l) ==
    IF "line" \notin l.objects THEN Raises("AttributeError")
    ELSE IF ~ {"entry", "signature"} \subseteq l.keys THEN Raises("ValueError")
    ELSE IF "entry" \notin l.objects THEN Raises("AttributeError")
    ELSE IF ~ Fields \subseteq DOMAIN l.entry THEN Raises("ValueError")
    ELSE Converted(l.entry)

(* SignedRecord.from_dict. *)
FromDict(l) ==
    IF "line" \notin l.objects THEN Raises("AttributeError")
    ELSE IF l.keys # {"entry", "signature"} THEN Raises("ValueError")
    ELSE IF "entry" \notin l.objects THEN Raises("AttributeError")
    ELSE IF DOMAIN l.entry # Fields THEN Raises("ValueError")
    ELSE Converted(l.entry)

IsRecord(r) == DOMAIN r = Fields
Canonical(e) == \A f \in Fields : e[f].t \in {"nan", "infinity"} => e[f].quoted

-----------------------------------------------------------------------------
(* append signs the entry as it was given and writes its to_dict; a time   *)
(* that is not finite it refuses.                                          *)
Attest ==
    /\ pc = "empty"
    /\ pc' = IF Canonical(signed) THEN "written" ELSE "refused"
    /\ line' = [objects |-> {"line", "entry"}, keys |-> {"entry", "signature"}, entry |-> signed]
    /\ UNCHANGED <<signed, edits, reading>>

(* Someone with access to the disk edits the line, which stays JSON: a     *)
(* field, a key of the entry or of the line, or what holds them.           *)
Edit ==
    /\ pc = "written"
    /\ edits < MaxEdits
    /\ edits' = edits + 1
    /\ \/ \E f \in DOMAIN line.entry \cap Fields : \E x \in Edits[f] \ {line.entry[f]} :
              line' = [line EXCEPT !.entry[f] = x]
       \/ \E f \in DOMAIN line.entry :
              line' = [line EXCEPT !.entry = [g \in DOMAIN @ \ {f} |-> @[g]]]
       \/ line' = [line EXCEPT !.entry = [g \in DOMAIN @ \cup {"extra"} |->
                                             IF g \in DOMAIN @ THEN @[g] ELSE Null]]
       \/ \E ks \in SUBSET {"entry", "signature", "extra"} : line' = [line EXCEPT !.keys = ks]
       \/ \E p \in {"line", "entry"} : line' = [line EXCEPT !.objects = @ \ {p}]
    /\ UNCHANGED <<signed, reading, pc>>

(* iter_records and read_record. *)
Read ==
    /\ pc = "written"
    /\ reading' = FromDict(line)
    /\ pc' = "read"
    /\ UNCHANGED <<signed, line, edits>>

(* The scan of the next append, and the hash it takes of what was read:    *)
(* only a ValueError of from_dict is a line to skip.                       *)
AppendNext ==
    /\ pc = "written"
    /\ reading' = FromDict(line)
    /\ pc' = IF \/ IsRecord(reading') /\ Canonical(reading')
                \/ reading' = Raises("ValueError")
             THEN "appended" ELSE "append raised"
    /\ UNCHANGED <<signed, line, edits>>

Init ==
    /\ signed \in Appended
    /\ line = [objects |-> {}, keys |-> {}, entry |-> << >>]
    /\ edits = 0
    /\ reading = signed
    /\ pc = "empty"

Done == pc \in {"refused", "read", "appended", "append raised"} /\ UNCHANGED vars

Next == Attest \/ Edit \/ Read \/ AppendNext \/ Done

Spec == Init /\ [][Next]_vars
-----------------------------------------------------------------------------
(* Properties *)

(* What was read is an entry with the bytes that were signed. *)
Verifies == IsRecord(reading) /\ Canonical(reading) /\ reading = signed

(* The number a value is or spells, in halves. *)
Amount(x) == IF x.t = "int" THEN 2 * x.v ELSE x.v

(* A line that nobody edited, and whose times were floats, reads back as   *)
(* what was signed: for a reader, and for the next append, which therefore *)
(* hashes what was signed and is never stopped by it.                      *)
ReadsBack ==
    (edits = 0 /\ signed["ts_request"].t = "float") =>
        /\ pc # "append raised"
        /\ pc \in {"read", "appended"} => Verifies

(* A line that verifies has the keys of a record and no other (PROTOCOL.md *)
(* 10: a consumer must not accept an entry with unknown fields), and every *)
(* field says what was signed: the same time, text or status, and a seq    *)
(* that is the same up to a fraction.                                      *)
AcceptedSaysTheSame ==
    (pc = "read" /\ Verifies) =>
        /\ line.keys = {"entry", "signature"} /\ DOMAIN line.entry = Fields
        /\ Amount(line.entry["ts_request"]) = Amount(signed["ts_request"])
        /\ Amount(line.entry["seq"]) - Amount(signed["seq"]) \in {0, 1}
        /\ \A f \in {"server_id", "tool_name", "status"} :
               PyStr(line.entry[f]) = PyStr(signed[f])

(* Every line append has written verifies, whatever numbers its caller     *)
(* gave as times.                                                          *)
WrittenVerifies == (pc = "read" /\ edits = 0) => Verifies

(* "Any byte change" of the line is noticed. *)
AnyEditShows == (pc = "read" /\ line.entry # signed) => ~ Verifies

(* An append warns of a malformed line and goes on. *)
ScanSkipsMalformed == pc # "append raised"
=============================================================================
