------------------------------ MODULE MCAudit ------------------------------
(* Instances of Audit for TLC: an honest server, or one that has signed    *)
(* two heads of one length, and the files one can make of its tree heads.  *)
EXTENDS Audit

CONSTANTS k, stranger, x, y

Of(length, head, time) == [chain_length |-> length, head_hash |-> head, timestamp |-> time]

Forks == {Of(1, x, "float"), Of(1, y, "float"), Of(2, y, "float"), Of(2, x, "int"), Of(1, y, "int")}

(* Any payload under a signature of any minted one, of the stranger's or   *)
(* under none.                                                             *)
Signatures == [key : {k}, payload : Minted]
Files == {[form |-> "sth", payload |-> p, signature |-> s] : p \in Payload,
             s \in Signatures \cup {[key |-> o, payload |-> Of(1, x, "float")] : o \in {stranger, NotHex}}}
         \cup {[form |-> f, payload |-> Of(1, x, "float"),
                signature |-> [key |-> NotHex, payload |-> Of(1, x, "float")]] :
                   f \in {"rejected", "mistyped"}}
=============================================================================
