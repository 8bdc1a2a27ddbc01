----------------------------- MODULE ChainWalk -----------------------------
(***************************************************************************)
(* verifier.py: the loop of verify_chain over the lines iter_records       *)
(* yields, under the server's public key, an action per check.             *)
(***************************************************************************)
EXTENDS Attestation

CONSTANTS PublicKey,   \* server_public_key
          SignedBy,    \* the key each odd signature verifies under, NoKey if
                       \* none, or NotHex if bytes.fromhex rejects it
          NotHex

VARIABLES file,          \* what iter_records reads
          checked,       \* count: the lines found in order
          expected_prev,
          result         \* what verify_chain has come to

ASSUME PublicKeyAssumption == PublicKey \in Key
ASSUME SignedByAssumption ==
    /\ SignedBy \in [OddSignature -> Key \cup {NoKey, NotHex}]
    /\ NotHex \notin Key \cup {NoKey}

(* crypto.verify, after bytes.fromhex *)
KeyUnder(signer) == IF signer \in OddSignature THEN SignedBy[signer] ELSE signer
Verifies(r) == KeyUnder(r.signer) = PublicKey

Running == [status |-> "running", index |-> 0]
Verdict(status, index) == [status |-> status, index |-> index]

(* Faulty: the last good line is blamed. *)
Stop_LineBefore(status) ==
    /\ result' = Verdict(status, checked - 1)
    /\ UNCHANGED <<file, checked, expected_prev>>

(* The loop stops at the first failure, before it reads on. *)
Stop(status) ==
    /\ result' = Verdict(status, checked)
    /\ UNCHANGED <<file, checked, expected_prev>>

Current == file[checked + 1]
AtRecord == /\ result = Running
            /\ checked < Len(file)
            /\ Current \notin Junk

(* Faulty: every line is parsed before the first is checked. *)
Unreadable_Eager ==
    /\ result = Running
    /\ checked < Len(file)
    /\ \E i \in checked + 1..Len(file) : file[i] \in Junk
    /\ Stop("raised")

(* json.loads or from_dict raises on this line; or decoding does, on this  *)
(* one or on one that lies ahead in the block that is read with it.        *)
Unreadable ==
    /\ result = Running
    /\ checked < Len(file)
    /\ \/ Current = Garbled
       \/ \E i \in checked + 1..Len(file) : file[i] = Undecodable
    /\ Stop("raised")

SeqMismatch ==
    /\ AtRecord
    /\ Current.seq # checked
    /\ Stop("failed")

PrevHashMismatch ==
    /\ AtRecord
    /\ Current.seq = checked
    /\ Current.prev_hash # expected_prev
    /\ Stop("failed")

(* Faulty: the link to the record before is not looked at. *)
Linked_SeqOnly == AtRecord /\ Current.seq = checked

Linked == /\ AtRecord
          /\ Current.seq = checked
          /\ Current.prev_hash = expected_prev

(* bytes.fromhex raises; so does an entry with no canonical form, which    *)
(* such a signature stands for too.                                        *)
SignatureNotHex ==
    /\ Linked
    /\ KeyUnder(Current.signer) = NotHex
    /\ Stop("raised")

SignatureInvalid ==
    /\ Linked
    /\ KeyUnder(Current.signer) # NotHex
    /\ ~ Verifies(Current)
    /\ Stop("failed")

(* Faulty: expected_prev is taken from the record, not computed from it. *)
InOrder_Stale ==
    /\ Linked
    /\ Verifies(Current)
    /\ checked' = checked + 1
    /\ expected_prev' = Current.prev_hash
    /\ UNCHANGED <<file, result>>

InOrder ==
    /\ Linked
    /\ Verifies(Current)
    /\ checked' = checked + 1
    /\ expected_prev' = EntryHash(Current)
    /\ UNCHANGED <<file, result>>

EndOfFile ==
    /\ result = Running
    /\ checked = Len(file)
    /\ Stop("ok")

Walk == \/ Unreadable \/ SeqMismatch \/ PrevHashMismatch
        \/ SignatureNotHex \/ SignatureInvalid \/ InOrder
=============================================================================
