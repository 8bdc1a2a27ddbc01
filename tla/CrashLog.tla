------------------------------ MODULE CrashLog ------------------------------
(***************************************************************************)
(* What AttestationLog.append still promises where processes die and the   *)
(* machine may stop: each call writes one line, in one indivisible step,   *)
(* and gets its receipt after that.  The line is a record that extends the *)
(* chain of all that can be read; only where somebody has died may it be   *)
(* one that nobody can read.  What a receipt is out for is never lost.     *)
(*                                                                         *)
(* DiskSpec adds disk errors.  A call that meets one gets no receipt, and  *)
(* its line is there or not.                                               *)
(***************************************************************************)
EXTENDS Attestation

CONSTANT SignerOf   \* the key of the log each call appends to, or NoKey

VARIABLES log,      \* the lines, oldest first
          outcome   \* how far each call has come

vars == <<log, outcome>>

(* The last line that can be read. *)
Last == LET last == {i \in 1..Len(log) : /\ log[i] \notin Junk
                                         /\ \A j \in i + 1..Len(log) : log[j] \in Junk}
        IN  IF last = {} THEN NoRecord ELSE log[CHOOSE i \in last : TRUE]

(* What a call writes: its record, or a line nobody can read where a call  *)
(* was stopped within its write.                                           *)
Spoilt == {line \in Junk : \E c \in Call : outcome[c] \in {"dead", "broken"}}
Writes(c) ==
    /\ SignerOf[c] \in Key
    /\ \E line \in {NewRecord(Last, c, SignerOf[c])} \cup Spoilt : log' = Append(log, line)

Die(gone) == outcome' = [c \in Call |-> IF c \in gone THEN "dead" ELSE outcome[c]]

Init ==
    /\ log = << >>
    /\ outcome = [c \in Call |-> "pending"]

Write(c) ==
    /\ outcome[c] = "pending"
    /\ Writes(c)
    /\ outcome' = [outcome EXCEPT ![c] = "written"]

Return(c) ==
    /\ outcome[c] = "written"
    /\ outcome' = [outcome EXCEPT ![c] = "returned"]
    /\ UNCHANGED log

Reject(c) ==
    /\ outcome[c] = "pending"
    /\ outcome' = [outcome EXCEPT ![c] = "raised"]
    /\ UNCHANGED log

(* The disk fails a call that builds its record, or has: it raises.  What  *)
(* it has not written yet it may write now.                                *)
Break(c) ==
    /\ outcome[c] \in {"pending", "written"}
    /\ \/ UNCHANGED log
       \/ outcome[c] = "pending" /\ Writes(c)
    /\ outcome' = [outcome EXCEPT ![c] = "broken"]

(* Some of the calls that are not over yet never will be. *)
Crash ==
    /\ \E gone \in SUBSET {c \in Call : outcome[c] \in {"pending", "written"}} : Die(gone)
    /\ UNCHANGED log

(* So it is for every call that has written; lines are lost from the end,  *)
(* but no record whose receipt is out.                                     *)
PowerLoss ==
    /\ \E gone \in SUBSET {c \in Call : outcome[c] = "pending"} :
          Die(gone \cup {c \in Call : outcome[c] = "written"})
    /\ \E n \in 0..Len(log) :
          /\ \A i \in n + 1..Len(log) : log[i] \in Junk \/ outcome[log[i].call] # "returned"
          /\ log' = SubSeq(log, 1, n)

Next == (\E c \in Call : Write(c) \/ Return(c) \/ Reject(c)) \/ Crash \/ PowerLoss

Spec == Init /\ [][Next]_vars
DiskSpec == Init /\ [][Next \/ \E c \in Call : Break(c)]_vars
=============================================================================
