----------------------------- MODULE AtomicLog -----------------------------
(***************************************************************************)
(* What AttestationLog.append promises its callers: the log is one chain   *)
(* of records, an append extends it in one indivisible step or leaves no   *)
(* trace, and a receipt is handed out only for a record that is in it.     *)
(***************************************************************************)
EXTENDS Attestation

CONSTANT SignerOf   \* the key of the log each call appends to, or NoKey

VARIABLES log,      \* the records, oldest first
          outcome   \* how far each call has come

vars == <<log, outcome>>

Last == IF log = << >> THEN NoRecord ELSE log[Len(log)]

Init ==
    /\ log = << >>
    /\ outcome = [c \in Call |-> "pending"]

Attest(c) ==
    /\ outcome[c] = "pending"
    /\ SignerOf[c] \in Key
    /\ log' = Append(log, NewRecord(Last, c, SignerOf[c]))
    /\ outcome' = [outcome EXCEPT ![c] = "attested"]

Return(c) ==
    /\ outcome[c] = "attested"
    /\ outcome' = [outcome EXCEPT ![c] = "returned"]
    /\ UNCHANGED log

Reject(c) ==
    /\ outcome[c] = "pending"
    /\ outcome' = [outcome EXCEPT ![c] = "raised"]
    /\ UNCHANGED log

Next == \E c \in Call : Attest(c) \/ Return(c) \/ Reject(c)

Spec == Init /\ [][Next]_vars
=============================================================================
