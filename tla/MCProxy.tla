------------------------------ MODULE MCProxy ------------------------------
(* Instances of Proxy for TLC: h1 and h2 send one params object, as a call *)
(* that is tried again does, h3, without an id, another.  Of the values    *)
(* bad has no canonical form.                                              *)
EXTENDS Proxy

CONSTANTS h1, h2, h3, o1, o2, u, bad, k

SharedParams == [h \in Call |-> IF h = h3 THEN o2 ELSE o1]
Ids == [h \in Call |-> IF h = h1 THEN 1 ELSE IF h = h2 THEN 2 ELSE Absent]
Signers == [h \in Call |-> k]

Answered(result, error) == [result |-> result, error |-> error]

(* Both members, an error alone, no dict; every form.                      *)
Responses == {Answered(u, bad), Answered(Absent, u), NotDict}
OddResponses == {Answered(x, y) : x, y \in {u, bad, Absent}} \cup {NotDict}
=============================================================================
