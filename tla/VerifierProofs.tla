--------------------------- MODULE VerifierProofs ---------------------------
(* Proofs about Verifier, for files and histories of any length. *)
EXTENDS Verifier, SequenceTheorems, TLAPS

(* The hash of a file's first n lines, were they records. *)
Links(f, n) == [j \in 1..n |-> LinkOf(f[j])]

(* What has been checked is the start of a signed log, and expected_prev   *)
(* commits to all of it; a failure is where that comes to an end.          *)
Walked == /\ file \in File
          /\ checked \in 0..Len(file)
          /\ expected_prev \in Hash
          /\ expected_prev = Links(file, checked)
          /\ FollowsHistory(file, checked)
          /\ \A i \in 1..checked : file[i] \in SignedRecord
VerdictSound ==
    /\ result \in [status : {"running", "ok", "failed", "raised"}, index : Nat]
    /\ result.status = "ok" => checked = Len(file)
    /\ BlamesFirstDifference
    /\ RaisesOnlyAtMalformed
WalkInv == Walked /\ VerdictSound

(* A line of a file is a record or junk. *)
LEMMA LineType ==
    ASSUME NEW f \in File, NEW i \in 1..Len(f)
    PROVE  f[i] \in Line
BY FileAssumption, ElementOfSeq

(* What a record of a signed log is: a record in its position. *)
LEMMA HistoryRecord ==
    ASSUME NEW h \in History, NEW i \in 1..Len(h)
    PROVE  /\ h[i] \in SignedRecord /\ Len(h) \in Nat
           /\ h[i].seq = i - 1 /\ h[i].prev_hash = Links(h, i - 1)
           /\ h[i].signer = PublicKey
BY HistoryAssumption, ElementOfSeq, LenProperties DEF Links

(* A record is its own link and what came before. *)
LEMMA RecordEquality ==
    ASSUME NEW r \in SignedRecord, NEW s \in SignedRecord,
           LinkOf(r) = LinkOf(s), r.prev_hash = s.prev_hash
    PROVE  r = s
<1>1. r.seq = s.seq /\ r.call = s.call /\ r.signer = s.signer
  BY DEF LinkOf
<1> QED BY <1>1 DEF SignedRecord

(* The link of a record is a link. *)
LEMMA LinkType == \A r \in SignedRecord : LinkOf(r) \in Link
BY DEF LinkOf, Link, SignedRecord

(* Two beginnings with equal links, one of them a log's, are equal: this   *)
(* is what the hash of the last record commits to.                         *)
LEMMA SameLinksSameRecords ==
    ASSUME NEW f \in File, NEW n \in Nat, n <= Len(f),
           \A i \in 1..n : f[i] \in SignedRecord,
           FollowsHistory(f, n),
           NEW h \in History, n <= Len(h), Links(f, n) = Links(h, n)
    PROVE  \A i \in 1..n : f[i] = h[i]
<1>1. PICK g \in History : /\ n <= Len(g)
                           /\ \A i \in 1..n : /\ SameEntry(f[i], g[i])
                                              /\ i < n => f[i] = g[i]
  BY DEF FollowsHistory
<1> SUFFICES ASSUME NEW i \in 1..n PROVE f[i] = h[i]
  OBVIOUS
<1>2. i \in 1..Len(g) /\ i \in 1..Len(h) /\ Len(g) \in Nat /\ Len(h) \in Nat
  BY <1>1, HistoryAssumption, LenProperties
<1>3. \A j \in 1..n : LinkOf(f[j]) = LinkOf(h[j])
  <2>1. ASSUME NEW j \in 1..n PROVE LinkOf(f[j]) = LinkOf(h[j])
    <3>1. Links(f, n)[j] = LinkOf(f[j]) /\ Links(h, n)[j] = LinkOf(h[j])
      BY DEF Links
    <3> QED BY <3>1
  <2> QED BY <2>1
<1>4. f[i].prev_hash = Links(g, i - 1)
  BY <1>1, <1>2, HistoryRecord DEF SameEntry
<1>5. Links(g, i - 1) = Links(f, i - 1)
  BY <1>1 DEF Links
<1>6. Links(f, i - 1) = Links(h, i - 1)
  BY <1>3 DEF Links
<1>7. f[i].prev_hash = h[i].prev_hash
  BY <1>2, <1>4, <1>5, <1>6, HistoryRecord
<1> QED BY <1>2, <1>3, <1>7, HistoryRecord, RecordEquality

(* One more line in order: the log it was signed in has all before it. *)
LEMMA OneMore ==
    ASSUME Walked, checked < Len(file), Current \in SignedRecord,
           Current.seq = checked, Current.prev_hash = expected_prev, Verifies(Current)
    PROVE  FollowsHistory(file, checked + 1)
<1> DEFINE n == checked
<1>1. n \in Nat /\ n + 1 \in 1..Len(file) /\ Len(file) \in Nat
  BY FileAssumption, LenProperties DEF Walked
<1>2. Current \notin Junk
  BY JunkAssumption
<1>3. PICK h \in History : \E j \in 1..Len(h) : SameEntry(Current, h[j])
  BY <1>1, <1>2, FileAssumption DEF Walked, Current
<1>4. PICK j \in 1..Len(h) : SameEntry(Current, h[j])
  BY <1>3
<1>5. j = n + 1 /\ Len(h) \in Nat
  BY <1>1, <1>4, HistoryRecord DEF SameEntry
<1>6. Links(file, n) = Links(h, n)
  BY <1>1, <1>4, <1>5, HistoryRecord DEF SameEntry, Walked
<1>7. \A i \in 1..n : file[i] = h[i]
  BY <1>1, <1>5, <1>6, SameLinksSameRecords DEF Walked
<1>8. \A i \in 1..n : SameEntry(file[i], h[i]) /\ Verifies(file[i])
  BY <1>7 DEF SameEntry, Walked, FollowsHistory
<1>9. ASSUME NEW i \in 1..n + 1
      PROVE  /\ SameEntry(file[i], h[i]) /\ Verifies(file[i])
             /\ i < n + 1 => file[i] = h[i]
  BY <1>1, <1>4, <1>5, <1>7, <1>8 DEF Current
<1> QED BY <1>5, <1>9 DEF FollowsHistory

(* A line that no check of the loop lets pass is in no signed log here. *)
LEMMA NoMore ==
    ASSUME Walked, checked < Len(file), Current \in SignedRecord,
           FollowsHistory(file, checked + 1)
    PROVE  Current.seq = checked /\ Current.prev_hash = expected_prev /\ Verifies(Current)
<1>1. checked \in Nat /\ checked + 1 \in 1..Len(file)
  BY FileAssumption, LenProperties DEF Walked
<1>2. PICK h \in History : /\ checked + 1 <= Len(h)
                           /\ \A i \in 1..checked + 1 :
                                 /\ SameEntry(file[i], h[i]) /\ Verifies(file[i])
                                 /\ i < checked + 1 => file[i] = h[i]
  BY DEF FollowsHistory
<1>3. checked + 1 \in 1..Len(h)
  BY <1>1, <1>2, HistoryAssumption, LenProperties
<1>4. Links(h, checked) = Links(file, checked)
  BY <1>1, <1>2 DEF Links
<1> QED BY <1>1, <1>2, <1>3, <1>4, HistoryRecord DEF SameEntry, Current, Walked

(* Before the first line nothing has been checked. *)
LEMMA WalkInit == Init => WalkInv
<1> SUFFICES ASSUME Init PROVE WalkInv
  OBVIOUS
<1>1. Len(file) \in Nat
  BY FileAssumption, LenProperties DEF Init
<1>2. Links(file, 0) = << >> /\ << >> \in Hash
  BY DEF Links, Hash
<1>3. FollowsHistory(file, 0)
  BY HistoryAssumption, LenProperties DEF FollowsHistory
<1> QED BY <1>1, <1>2, <1>3
        DEF Init, WalkInv, Walked, VerdictSound, BlamesFirstDifference, RaisesOnlyAtMalformed,
            Running, ZERO_HASH

(* Each iteration of verify_chain's loop keeps to a signed log or stops. *)
LEMMA WalkStep == WalkInv /\ [Next]_vars => WalkInv'
<1> SUFFICES ASSUME WalkInv, [Next]_vars PROVE WalkInv'
  OBVIOUS
<1>1. file \in File /\ Len(file) \in Nat /\ checked \in Nat
  BY FileAssumption, LenProperties DEF WalkInv, Walked
<1>2. AtRecord => Current \in SignedRecord /\ checked < Len(file)
  BY <1>1, LineType DEF AtRecord, Current, Line
<1>3. ASSUME NEW status \in {"ok", "failed", "raised"}, Stop(status),
             status = "ok" => checked = Len(file),
             status = "failed" => ~ FollowsHistory(file, checked + 1),
             status = "raised" => Malformed(checked + 1)
      PROVE  WalkInv'
  <2>1. /\ file' = file /\ checked' = checked /\ expected_prev' = expected_prev
        /\ result'.status = status /\ result'.index = checked
        /\ result' \in [status : {"running", "ok", "failed", "raised"}, index : Nat]
    BY <1>1, <1>3 DEF Stop, Verdict
  <2>2. Walked'
    BY <2>1 DEF WalkInv, Walked, FollowsHistory
  <2>3. BlamesFirstDifference'
    BY <1>3, <2>1 DEF WalkInv, Walked, FollowsHistory, BlamesFirstDifference
  <2>4. RaisesOnlyAtMalformed'
    BY <1>3, <2>1 DEF WalkInv, Walked, FollowsHistory, RaisesOnlyAtMalformed, Malformed
  <2> QED BY <1>3, <2>1, <2>2, <2>3, <2>4 DEF WalkInv, VerdictSound
<1>4. CASE Unreadable
  <2>1. Malformed(checked + 1)
    BY <1>1, <1>4 DEF Unreadable, Current, Malformed
  <2> QED BY <1>3, <1>4, <2>1 DEF Unreadable
<1>5. CASE SeqMismatch
  BY <1>2, <1>3, <1>5, NoMore DEF SeqMismatch, WalkInv
<1>6. CASE PrevHashMismatch
  BY <1>2, <1>3, <1>6, NoMore DEF PrevHashMismatch, WalkInv
<1>7. CASE SignatureNotHex
  <2>1. Malformed(checked + 1)
    BY <1>1, <1>7 DEF SignatureNotHex, Linked, AtRecord, Current, Malformed
  <2> QED BY <1>3, <1>7, <2>1 DEF SignatureNotHex
<1>8. CASE SignatureInvalid
  BY <1>2, <1>3, <1>8, NoMore DEF SignatureInvalid, Linked, WalkInv
<1>9. CASE EndOfFile
  BY <1>3, <1>9 DEF EndOfFile
<1>10. CASE InOrder
  <2>1. /\ Current \in SignedRecord /\ checked < Len(file)
        /\ Current.seq = checked /\ Current.prev_hash = expected_prev /\ Verifies(Current)
    BY <1>2, <1>10 DEF InOrder, Linked
  <2>2. /\ file' = file /\ checked' = checked + 1 /\ result' = result
        /\ expected_prev' = EntryHash(Current) /\ result = Running
    BY <1>10 DEF InOrder, Linked, AtRecord
  <2>3. FollowsHistory(file, checked + 1)
    BY <2>1, OneMore DEF WalkInv
  <2>4. EntryHash(Current) = Append(expected_prev, LinkOf(Current))
    BY <2>1 DEF EntryHash, LinkOf
  <2>5. LinkOf(Current) \in Link /\ expected_prev \in Seq(Link)
    BY <2>1, LinkType DEF WalkInv, Walked, Hash
  <2>6. expected_prev' \in Hash
    BY <2>2, <2>4, <2>5, AppendProperties DEF Hash
  <2>7. expected_prev' = Links(file, checked + 1)
    <3>1. Len(expected_prev) = checked
      BY <1>1, <2>5, LenProperties DEF WalkInv, Walked, Links
    <3>2. /\ expected_prev' \in Seq(Link) /\ Len(expected_prev') = checked + 1
          /\ \A i \in 1..checked : expected_prev'[i] = expected_prev[i]
          /\ expected_prev'[checked + 1] = LinkOf(Current)
      BY <2>2, <2>4, <2>5, <3>1, AppendProperties
    <3>3. \A i \in 1..checked : expected_prev[i] = LinkOf(file[i])
      BY DEF WalkInv, Walked, Links
    <3>4. \A i \in 1..checked + 1 : expected_prev'[i] = LinkOf(file[i])
      BY <1>1, <3>2, <3>3 DEF Current
    <3>5. expected_prev' = [i \in 1..checked + 1 |-> expected_prev'[i]]
      BY <3>2, LenProperties
    <3> QED BY <3>4, <3>5 DEF Links
  <2>8. \A i \in 1..checked + 1 : file[i] \in SignedRecord
    BY <1>1, <2>1 DEF WalkInv, Walked, Current
  <2>9. Walked'
    BY <1>1, <2>1, <2>2, <2>3, <2>6, <2>7, <2>8 DEF Walked, FollowsHistory
  <2> QED BY <2>2, <2>9 DEF WalkInv, VerdictSound, BlamesFirstDifference, RaisesOnlyAtMalformed, Running
<1>11. CASE UNCHANGED vars
  BY <1>11 DEF vars, WalkInv, Walked, VerdictSound, BlamesFirstDifference,
               RaisesOnlyAtMalformed, Malformed, FollowsHistory
<1> QED BY <1>4, <1>5, <1>6, <1>7, <1>8, <1>9, <1>10, <1>11 DEF Next, Walk, Done

(* Every variable of the walk keeps its type. *)
THEOREM WalkTypeCorrect == Spec => []TypeOK
<1>1. WalkInv => TypeOK
  BY DEF WalkInv, Walked, VerdictSound, TypeOK
<1> QED BY <1>1, WalkInit, WalkStep, PTL DEF Spec

(* verify_chain accepts a file only if it is, line by line from the first  *)
(* record on, what the server's key has signed.                            *)
THEOREM AcceptedIsHistory == Spec => []AcceptsOnlyHistory
<1>1. WalkInv => AcceptsOnlyHistory
  BY DEF WalkInv, Walked, VerdictSound, AcceptsOnlyHistory
<1> QED BY <1>1, WalkInit, WalkStep, PTL DEF Spec

(* The index verify_chain blames is the first at which the file leaves the *)
(* logs the server's key has signed.                                       *)
THEOREM BlameIsExact == Spec => []BlamesFirstDifference
<1>1. WalkInv => BlamesFirstDifference
  BY DEF WalkInv, VerdictSound
<1> QED BY <1>1, WalkInit, WalkStep, PTL DEF Spec

(* verify_chain raises only at a malformed line, all before it genuine.    *)
THEOREM RaiseIsExact == Spec => []RaisesOnlyAtMalformed
<1>1. WalkInv => RaisesOnlyAtMalformed
  BY DEF WalkInv, VerdictSound
<1> QED BY <1>1, WalkInit, WalkStep, PTL DEF Spec

(* Records of one hash are one record. *)
LEMMA OneHashOneRecord ==
    ASSUME NEW r \in SignedRecord, NEW s \in SignedRecord, EntryHash(r) = EntryHash(s)
    PROVE  r = s
<1> DEFINE x == r.prev_hash  y == s.prev_hash  e == LinkOf(r)  f == LinkOf(s)
<1>1. x \in Seq(Link) /\ y \in Seq(Link) /\ e \in Link /\ f \in Link
  BY LinkType DEF SignedRecord, Hash
<1>2. Append(x, e) = Append(y, f)
  BY DEF EntryHash, LinkOf
<1>3. x = y /\ e = f
  <2> HIDE DEF x, y, e, f
  <2> QED BY <1>1, <1>2, AppendInjective
<1> QED BY <1>3, RecordEquality

(* A receipt's entry hash, found in an accepted file, is that of one record *)
(* with one past.                                                          *)
LEMMA PinnedRecords ==
    ASSUME Walked, checked = Len(file), NEW h \in History, NEW j \in 1..Len(h),
           ReceiptVerdict(ReceiptOf(h[j]), h[j].call, file) = "ok"
    PROVE  \A i \in 1..j : file[i] = h[i]
<1> DEFINE r == file[j]
<1>1. Len(file) \in Nat /\ Len(h) \in Nat /\ j \in Nat
  BY FileAssumption, HistoryAssumption, LenProperties DEF Walked
<1>2. h[j].seq + 1 = j
  BY <1>1, HistoryRecord
<1>3. j <= Len(file) /\ EntryHash(r) = EntryHash(h[j])
  <2> DEFINE receipt == ReceiptOf(h[j])
  <2>1. receipt.seq = j - 1 /\ receipt.entry_hash = EntryHash(h[j])
    BY <1>1, HistoryRecord DEF ReceiptOf
  <2> HIDE DEF receipt
  <2>2. ReceiptVerdict(receipt, h[j].call, file) = "ok"
    BY DEF receipt
  <2>3. receipt.seq < Len(file) /\ EntryHash(file[receipt.seq + 1]) = receipt.entry_hash
    BY <1>1, <2>1, <2>2 DEF ReceiptVerdict
  <2>4. receipt.seq + 1 = j
    BY <1>1, <2>1
  <2> QED BY <1>1, <2>1, <2>3, <2>4
<1>4. r \in SignedRecord /\ h[j] \in SignedRecord
  BY <1>1, <1>3, HistoryRecord DEF Walked
<1>5. r = h[j]
  <2> HIDE DEF r
  <2> QED BY <1>3, <1>4, OneHashOneRecord
<1>6. PICK g \in History : /\ Len(file) <= Len(g)
                           /\ \A i \in 1..Len(file) :
                                 /\ SameEntry(file[i], g[i]) /\ Verifies(file[i])
                                 /\ i < Len(file) => file[i] = g[i]
  BY DEF Walked, FollowsHistory
<1>7. FollowsHistory(file, j - 1)
  BY <1>1, <1>3, <1>6, HistoryAssumption, LenProperties DEF FollowsHistory
<1>8. j \in 1..Len(g) /\ Len(g) \in Nat
  BY <1>1, <1>3, <1>6, HistoryAssumption, LenProperties
<1>9. Links(file, j - 1) = Links(h, j - 1)
  <2>1. r.prev_hash = Links(g, j - 1)
    <3>1. SameEntry(r, g[j])
      BY <1>1, <1>3, <1>6
    <3> QED BY <1>8, <3>1, HistoryRecord DEF SameEntry
  <2>2. Links(g, j - 1) = Links(file, j - 1)
    BY <1>1, <1>3, <1>6 DEF Links
  <2> QED BY <1>5, <2>1, <2>2, HistoryRecord
<1>10. \A i \in 1..j - 1 : file[i] = h[i]
  BY <1>1, <1>3, <1>7, <1>9, SameLinksSameRecords DEF Walked
<1> QED BY <1>1, <1>5, <1>10

(* What the first four checks of a receipt come to where every line is a   *)
(* record and its signature verifies.                                      *)
LEMMA VerdictOnAccepted ==
    ASSUME Walked, checked = Len(file), NEW h \in History, NEW j \in 1..Len(h)
    PROVE  ReceiptVerdict(ReceiptOf(h[j]), h[j].call, file) =
               IF j > Len(file) THEN "IndexError"
               ELSE IF \/ PayloadOf[h[j].call] # PayloadOf[file[j].call]
                       \/ EntryHash(file[j]) # EntryHash(h[j])
                       \/ file[j].signer # h[j].signer
               THEN "HashMismatchError" ELSE "ok"
<1> DEFINE receipt == ReceiptOf(h[j])
<1>1. Len(file) \in Nat /\ Len(h) \in Nat /\ j \in Nat \ {0}
  BY FileAssumption, HistoryAssumption, LenProperties DEF Walked
<1>2. /\ receipt.seq = j - 1 /\ receipt.entry_hash = EntryHash(h[j])
      /\ receipt.signer = h[j].signer
  BY <1>1, HistoryRecord DEF ReceiptOf
<1>3. \A i \in 1..Len(file) : file[i] \in SignedRecord /\ Verifies(file[i])
  BY DEF Walked, FollowsHistory
<1>4. \A i \in 1..Len(file) : file[i] \notin Junk /\ KeyUnder(file[i].signer) # NotHex
  BY <1>3, JunkAssumption, PublicKeyAssumption, SignedByAssumption DEF Verifies
<1>5. ~ \E i \in 1..Len(file) : file[i] = Undecodable
  BY <1>4 DEF Junk
<1> HIDE DEF receipt
<1>6. CASE j > Len(file)
  <2>1. receipt.seq >= Len(file)
    BY <1>1, <1>2, <1>6
  <2>2. ReceiptVerdict(receipt, h[j].call, file) = "IndexError"
    BY <1>5, <2>1 DEF ReceiptVerdict
  <2> QED BY <1>6, <2>2 DEF receipt
<1>7. CASE j <= Len(file)
  <2>1. ~ receipt.seq >= Len(file) /\ receipt.seq + 1 = j /\ j \in 1..Len(file) /\ ~ j > Len(file)
    BY <1>1, <1>2, <1>7
  <2>2. ReceiptVerdict(receipt, h[j].call, file) =
            IF \/ PayloadOf[h[j].call] # PayloadOf[file[j].call]
               \/ EntryHash(file[j]) # receipt.entry_hash
               \/ file[j].signer # receipt.signer
            THEN "HashMismatchError" ELSE "ok"
    BY <1>3, <1>4, <1>5, <2>1 DEF ReceiptVerdict
  <2> QED BY <1>2, <2>1, <2>2 DEF receipt
<1> QED BY <1>1, <1>6, <1>7

(* On a file verify_chain accepts, verify_receipt gives exactly one of     *)
(* three answers: what the receipt pins is there, is lost, or is replaced. *)
THEOREM ReceiptsExact == Spec => []ReceiptVerdictExact
<1>1. WalkInv => ReceiptVerdictExact
  <2> SUFFICES ASSUME WalkInv, result.status = "ok", NEW h \in History, NEW j \in 1..Len(h)
               PROVE  ReceiptVerdict(ReceiptOf(h[j]), h[j].call, file) =
                          IF j > Len(file) THEN "IndexError"
                          ELSE IF \A i \in 1..j : file[i] = h[i] THEN "ok"
                          ELSE "HashMismatchError"
    BY DEF ReceiptVerdictExact
  <2> DEFINE verdict == ReceiptVerdict(ReceiptOf(h[j]), h[j].call, file)
  <2>1. Walked /\ checked = Len(file)
    BY DEF WalkInv, VerdictSound
  <2>2. verdict = "ok" => \A i \in 1..j : file[i] = h[i]
    BY <2>1, PinnedRecords
  <2>3. j \in 1..j
    BY HistoryRecord
  <2>4. (\A i \in 1..j : file[i] = h[i]) => file[j] = h[j]
    BY <2>3
  <2>5. verdict = IF j > Len(file) THEN "IndexError"
                  ELSE IF \/ PayloadOf[h[j].call] # PayloadOf[file[j].call]
                          \/ EntryHash(file[j]) # EntryHash(h[j])
                          \/ file[j].signer # h[j].signer
                  THEN "HashMismatchError" ELSE "ok"
    BY <2>1, VerdictOnAccepted
  <2> HIDE DEF verdict
  <2>6. verdict = IF j > Len(file) THEN "IndexError"
                  ELSE IF \A i \in 1..j : file[i] = h[i] THEN "ok"
                  ELSE "HashMismatchError"
    BY <2>2, <2>4, <2>5
  <2> QED BY <2>6 DEF verdict
<1> QED BY <1>1, WalkInit, WalkStep, PTL DEF Spec
=============================================================================
