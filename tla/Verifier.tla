------------------------------ MODULE Verifier ------------------------------
(***************************************************************************)
(* verifier.py: verify_chain walking a file that anyone with access to the *)
(* disk may have edited, line by line, under the server's public key.      *)
(***************************************************************************)
EXTENDS ChainWalk

CONSTANTS History,     \* the logs the server's key has signed
          File,        \* the files verify_chain may be run on
          PayloadOf    \* the params and result of each call

SameEntry(r, s) == r.seq = s.seq /\ r.prev_hash = s.prev_hash /\ r.call = s.call

(* Each log the key signed is a chain made by append: position by position *)
(* a record's prev_hash is all that comes before.  With one log the server *)
(* is honest; with two it tells different stories.                         *)
LinkOf(r) == [seq |-> r.seq, call |-> r.call, signer |-> r.signer]
ASSUME HistoryAssumption ==
    /\ History # {}
    /\ History \subseteq Seq(SignedRecord)
    /\ \A h \in History : \A i \in 1..Len(h) :
          /\ h[i].seq = i - 1
          /\ h[i].prev_hash = [j \in 1..i - 1 |-> LinkOf(h[j])]
          /\ h[i].signer = PublicKey

(* Nobody else can sign: where a signature verifies, the entry next to it  *)
(* is one the key has signed.                                              *)
ASSUME FileAssumption ==
    /\ File \subseteq Seq(Line)
    /\ \A f \in File : \A i \in 1..Len(f) :
          f[i] \notin Junk /\ Verifies(f[i]) =>
              \E h \in History : \E j \in 1..Len(h) : SameEntry(f[i], h[j])
ASSUME PayloadAssumption == DOMAIN PayloadOf = Call

-----------------------------------------------------------------------------
(* verify_chain *)

vars == <<file, checked, expected_prev, result>>

Init ==
    /\ file \in File
    /\ checked = 0
    /\ expected_prev = ZERO_HASH
    /\ result = Running

Done == result # Running /\ UNCHANGED vars

Next == Walk \/ EndOfFile \/ Done

Spec == Init /\ [][Next]_vars

-----------------------------------------------------------------------------
(* verify_receipt *)

(* Faulty: whatever record is signed and of the caller's payload will do. *)
ReceiptVerdict_PayloadOnly(receipt, c, f) ==
    IF receipt.seq >= Len(f) THEN "IndexError"
    ELSE IF
       /\ f[receipt.seq + 1] \notin Junk
       /\ Verifies(f[receipt.seq + 1])
       /\ PayloadOf[f[receipt.seq + 1].call] = PayloadOf[c]
    THEN "ok" ELSE "HashMismatchError"

(* read_record and the five checks, in their order, for a caller that      *)
(* observed the params and result of call c.  The file is taken to be read *)
(* as one block, so that a line that is not UTF-8 raises wherever it is.   *)
ReceiptVerdict(receipt, c, f) ==
    IF \E i \in 1..Len(f) : f[i] = Undecodable THEN "ValueError"
    ELSE IF receipt.seq >= Len(f) THEN "IndexError"
    ELSE LET record == f[receipt.seq + 1]
         IN  IF record \in Junk THEN "ValueError"
             ELSE IF KeyUnder(record.signer) = NotHex THEN "ValueError"
             ELSE IF ~ Verifies(record) THEN "SignatureInvalidError"
             ELSE IF \/ PayloadOf[c] # PayloadOf[record.call]
                     \/ EntryHash(record) # receipt.entry_hash
                     \/ record.signer # receipt.signer
                  THEN "HashMismatchError"
             ELSE "ok"

-----------------------------------------------------------------------------
(* Properties *)

(* Every variable keeps its type. *)
TypeOK ==
    /\ file \in File
    /\ checked \in 0..Len(file)
    /\ expected_prev \in Hash
    /\ result \in [status : {"running", "ok", "failed", "raised"}, index : Nat]

(* The first n lines of f are those of a log the server signed; only the   *)
(* last of them may spell its signature in another way, for no record      *)
(* behind it commits to how.                                               *)
FollowsHistory(f, n) ==
    \E h \in History :
        /\ n <= Len(h)
        /\ \A i \in 1..n : /\ SameEntry(f[i], h[i]) /\ Verifies(f[i])
                           /\ i < n => f[i] = h[i]

(* verify_chain accepts nothing but what the server wrote, from its first  *)
(* record on: no edit, insertion, deletion, swap or splice of two logs.    *)
AcceptsOnlyHistory ==
    result.status = "ok" => FollowsHistory(file, Len(file))

(* first_failure_index is where the file first leaves every log the server *)
(* signed: all before it is genuine, and with it the file no longer is.    *)
BlamesFirstDifference ==
    result.status = "failed" =>
        /\ FollowsHistory(file, result.index)
        /\ ~ FollowsHistory(file, result.index + 1)

(* Where a record is no record, its signature no hexadecimal, or a line    *)
(* that is read with it no text.                                           *)
Malformed(n) ==
    \/ \E i \in n..Len(file) : file[i] = Undecodable
    \/ n \in 1..Len(file) /\ file[n] = Garbled
    \/ n \in 1..Len(file) /\ file[n] \notin Junk /\ KeyUnder(file[n].signer) = NotHex

(* verify_chain ends with an exception, and no result, only at a malformed *)
(* line that comes right after genuine ones: an edit before it is blamed.  *)
RaisesOnlyAtMalformed ==
    result.status = "raised" =>
        /\ FollowsHistory(file, result.index)
        /\ Malformed(result.index + 1)

(* In a log verify_chain accepts, verify_receipt tells exactly what became *)
(* of what the receipt pins, all up to its record in the log it was given  *)
(* out from: it is there, or the log now ends before it (an IndexError     *)
(* and no VerificationError), or it was replaced.                          *)
ReceiptVerdictExact ==
    result.status = "ok" =>
        \A h \in History : \A j \in 1..Len(h) :
            ReceiptVerdict(ReceiptOf(h[j]), h[j].call, file) =
                IF j > Len(file) THEN "IndexError"
                ELSE IF \A i \in 1..j : file[i] = h[i] THEN "ok"
                ELSE "HashMismatchError"

(* verify_chain returns a result rather than raising. *)
NeverRaises == result.status # "raised"

(* The chain catches truncation. *)
CatchesTruncation ==
    result.status = "ok" => \E h \in History : Len(file) = Len(h)

(* verify_receipt fails with a VerificationError and with nothing else. *)
ReceiptFailsTyped ==
    \A h \in History : \A j \in 1..Len(h) :
        ReceiptVerdict(ReceiptOf(h[j]), h[j].call, file) \in
            {"ok", "SignatureInvalidError", "HashMismatchError"}
=============================================================================
