-------------------------- MODULE MCAttestationLog --------------------------
(* Instances of AttestationLog for TLC: calls c1..c6 and emissions e1, e2  *)
(* on the objects p and q, which hold one key, and ro, opened without one. *)
EXTENDS AttestationLog

CONSTANTS c1, c2, c3, c4, c5, c6, e1, e2, p, q, ro, k

(* All in one process. *)
OneProcess == [x \in Call \cup Emission |-> p]

(* c6 on the read-only object, the others half and half in two processes. *)
TwoProcesses == [x \in Call \cup Emission |->
                    IF x = c6 THEN ro ELSE IF x \in {c1, c3, c5, e1} THEN p ELSE q]

SharedKey == [l \in Log |-> IF l = ro THEN NoKey ELSE k]
=============================================================================
