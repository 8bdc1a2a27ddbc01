---------------------------- MODULE Attestation ----------------------------
(***************************************************************************)
(* The wire types of entry.py and the rule that links one record to the    *)
(* next.  A call stands for every field of an entry that the chain does    *)
(* not read (timestamps, ids, method, tool name, the hashes of params and  *)
(* result, status).                                                        *)
(*                                                                         *)
(* blake2b is taken to be collision free: a hash IS the list of everything *)
(* it commits to, one link per record from the first on, so two records    *)
(* have one hash exactly when they and all their predecessors are equal.   *)
(* A signature that sign() made is the key under which it verifies over    *)
(* the fields it stands next to; NoKey verifies under none.  A file may    *)
(* hold strings sign() does not make: those are the odd signatures.        *)
(***************************************************************************)
EXTENDS Integers, Sequences

CONSTANTS Call,         \* the tool calls that may be attested
          Key,          \* Ed25519 key pairs, named by their public half
          NoKey,        \* no private key, or a signature no key verifies
          OddSignature, \* other strings that stand where a signature should
          NoRecord,     \* Python's None where a SignedRecord may stand
          Garbled,      \* a line json.loads or from_dict rejects
          Undecodable   \* a line that is not UTF-8

Signer == Key \cup {NoKey} \cup OddSignature
Link == [seq : Nat, call : Call, signer : Signer]
Hash == Seq(Link)
ZERO_HASH == << >>

SignedRecord == [seq : Nat, prev_hash : Hash, call : Call, signer : Signer]

(* What a reader of the log file makes of a line that is not blank. *)
Junk == {Garbled, Undecodable}
Line == SignedRecord \cup Junk

ASSUME KeyAssumption == /\ NoKey \notin Key \cup OddSignature
                        /\ Key \cap OddSignature = {}
ASSUME RecordAssumption == NoRecord \notin Line
ASSUME JunkAssumption == /\ \A j \in Junk : j \notin SignedRecord
                         /\ Garbled # Undecodable

(* SignedRecord.entry_hash: covers the entry and its signature. *)
EntryHash(r) ==
    Append(r.prev_hash, [seq |-> r.seq, call |-> r.call, signer |-> r.signer])

(* Faulty: positions counted from one. *)
NextSeq_FromOne(last) == IF last = NoRecord THEN 1 ELSE last.seq + 1

(* What follows `last`, which is NoRecord in an empty log. *)
NextSeq(last)  == IF last = NoRecord THEN 0 ELSE last.seq + 1
HeadHash(last) == IF last = NoRecord THEN ZERO_HASH ELSE EntryHash(last)

(* The entry that append builds after `last` and the signature put on it. *)
NewRecord(last, c, k) ==
    [seq |-> NextSeq(last), prev_hash |-> HeadHash(last), call |-> c, signer |-> k]

Extends(r, last) == r.seq = NextSeq(last) /\ r.prev_hash = HeadHash(last)

(* What the caller of append is handed for record r (Receipt). *)
ReceiptOf(r) == [seq |-> r.seq, entry_hash |-> EntryHash(r), signer |-> r.signer]
=============================================================================
