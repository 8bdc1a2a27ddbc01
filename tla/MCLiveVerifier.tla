--------------------------- MODULE MCLiveVerifier ---------------------------
(* Instances of LiveVerifier for TLC: calls on the objects p and q, which  *)
(* are in processes of their own and hold the key k.                       *)
EXTENDS LiveVerifier

CONSTANTS c1, c2, c3, p, q, k

TwoProcesses == [x \in Call |-> IF x = c2 THEN q ELSE p]
SharedKey == [l \in Log |-> k]
NoneOdd == [o \in OddSignature |-> NoKey]
=============================================================================
