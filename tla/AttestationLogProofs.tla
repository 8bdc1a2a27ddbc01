------------------------ MODULE AttestationLogProofs ------------------------
(* Proofs about AttestationLog, for any number of calls, processes and     *)
(* emissions.                                                              *)
EXTENDS AttestationLog, SequenceTheorems, TLAPS

-----------------------------------------------------------------------------
(* The operators of Attestation and of the file *)

(* An entry hash is a hash, and so is the head hash of any log. *)
LEMMA HeadHashType ==
    ASSUME NEW last \in SignedRecord \cup {NoRecord}
    PROVE  HeadHash(last) \in Hash /\ NextSeq(last) \in Nat
<1>1. CASE last = NoRecord
  BY <1>1 DEF HeadHash, NextSeq, ZERO_HASH, Hash
<1>2. CASE last \in SignedRecord /\ last # NoRecord
  <2>1. [seq |-> last.seq, call |-> last.call, signer |-> last.signer] \in Link
    BY <1>2 DEF SignedRecord, Link
  <2>2. last.prev_hash \in Seq(Link)
    BY <1>2 DEF SignedRecord, Hash
  <2>3. EntryHash(last) \in Hash
    BY <2>1, <2>2, AppendProperties DEF EntryHash, Hash
  <2>4. last.seq \in Nat
    BY <1>2 DEF SignedRecord
  <2> QED BY <1>2, <2>3, <2>4 DEF HeadHash, NextSeq
<1> QED BY <1>1, <1>2

(* What append builds is a record. *)
LEMMA NewRecordType ==
    ASSUME NEW last \in SignedRecord \cup {NoRecord}, NEW c \in Call, NEW key \in Signer
    PROVE  NewRecord(last, c, key) \in SignedRecord
BY HeadHashType DEF NewRecord, SignedRecord

(* The scan of append comes back with a record or with None. *)
LEMMA LastRecordType ==
    ASSUME NEW file \in Seq(Line)
    PROVE  LastRecord(file) \in SignedRecord \cup {NoRecord}
<1> DEFINE last == {i \in 1..Len(file) : /\ file[i] \notin Junk
                                         /\ \A j \in i + 1..Len(file) : file[j] \in Junk}
<1>1. CASE last = {}
  BY <1>1 DEF LastRecord
<1>2. CASE last # {}
  <2>1. PICK i \in last : i = CHOOSE j \in last : TRUE
    BY <1>2
  <2>2. file[i] \in Line /\ file[i] \notin Junk
    BY ElementOfSeq
  <2>3. LastRecord(file) = file[i]
    BY <1>2, <2>1 DEF LastRecord
  <2> QED BY <2>2, <2>3 DEF Line
<1> QED BY <1>1, <1>2

(* A line that is not blank parses to a record or is junk. *)
LEMMA ParseType ==
    ASSUME NEW text \in Seq(Fragment), text # << >>
    PROVE  Parse(text) \in Line
<1>1. 1 \in 1..Len(text)
  BY EmptySeq
<1>2. text[1] \in Fragment
  BY <1>1, ElementOfSeq
<1>3. text[1].record \in SignedRecord
  BY <1>2 DEF Fragment
<1> QED BY <1>3 DEF Parse, Line, Junk

(* What a reader without the lock finds are lines. *)
LEMMA SeenType ==
    ASSUME lines \in Seq(Line), tail \in Seq(Fragment)
    PROVE  Seen \in Seq(Line)
BY ParseType, AppendProperties DEF Seen

(* A write leaves the file well formed. *)
LEMMA WriteType ==
    ASSUME lines \in Seq(Line), tail \in Seq(Fragment),
           images \subseteq [lines : Seq(Line), tail : Seq(Fragment)],
           NEW text \in Seq(Fragment), NEW newline \in BOOLEAN,
           Write(text, newline)
    PROVE  /\ lines' \in Seq(Line) /\ tail' \in Seq(Fragment)
           /\ images' \subseteq [lines : Seq(Line), tail : Seq(Fragment)]
           /\ Len(lines') >= Len(lines)
<1> DEFINE open == tail \o text
<1>1. open \in Seq(Fragment)
  BY ConcatProperties
<1>2. lines' \in Seq(Line)
  BY <1>1, ParseType, AppendProperties DEF Write
<1>3. tail' \in Seq(Fragment)
  BY <1>1 DEF Write
<1>4. Image(lines', tail') \in [lines : Seq(Line), tail : Seq(Fragment)]
  BY <1>2, <1>3 DEF Image
<1>5. images' = images \cup {Image(lines', tail')}
  BY DEF Write
<1>6. Len(lines') >= Len(lines)
  <2>1. CASE newline /\ open # << >>
    BY <1>1, <2>1, ParseType, AppendProperties DEF Write
  <2> QED BY <2>1 DEF Write
<1> QED BY <1>2, <1>3, <1>4, <1>5, <1>6

(* What the buffer still holds is pieces of the record. *)
LEMMA RestType ==
    ASSUME NEW r \in SignedRecord, NEW part \in {"all"} \cup Cut
    PROVE  Rest(r, part) \in Seq(Fragment)
<1>1. part # "all" => Back(r, part) \in Fragment
  BY DEF Back, Fragment, Cut
<1>2. Front(r, "end") \in Fragment
  BY DEF Front, Fragment, Cut
<1>3. \A f \in Fragment : <<f>> \in Seq(Fragment)
  OBVIOUS
<1>4. << >> \in Seq(Fragment)
  OBVIOUS
<1> QED BY <1>1, <1>2, <1>3, <1>4 DEF Rest

(* The key an append signs with is a key or None. *)
LEMMA KeyType ==
    \A x \in Call \cup Emission : LogOf[x] \in Log /\ KeyOf[LogOf[x]] \in Key \cup {NoKey}
BY LogOfAssumption, KeyOfAssumption

-----------------------------------------------------------------------------
(* Types *)

Reading == [at : Counting \cup {"counted", "signed", "raised", "dead"},
            chain_length : Nat, head_hash : Hash,
            lines_read : Nat, tail_read : Seq(Fragment)]

(* An emission that has come to nothing. *)
LEMMA UnreadType ==
    ASSUME NEW at \in {"raised", "dead"}
    PROVE  /\ Unread(at) \in Reading /\ Unread(at).at = at
           /\ at \notin Counting /\ Unread(at).lines_read = 0
<1>1. << >> \in Seq(Link) /\ << >> \in Seq(Fragment)
  OBVIOUS
<1> QED BY <1>1 DEF Unread, Reading, Counting, ZERO_HASH, Hash

(* Every variable keeps its type under every step of the code and every    *)
(* failure.  A draft is a record wherever something is left to write, and  *)
(* a scan under way has read no lines the file does not hold.              *)
Typed == /\ TypeOK
         /\ \A c \in Call : unwritten[c] # "none" => draft[c] \in SignedRecord
         /\ \A c \in Call : pc[c] = "write" => unwritten[c] # "none"
         /\ \A e \in Emission : emission[e].at \in Counting =>
                                    emission[e].lines_read <= Len(lines)
         /\ \A e \in Emission : emission[e].at = "idle" => emission[e].lines_read = 0

(* Empty files and idle calls are well typed. *)
LEMMA TypedInit == Init => Typed
<1> SUFFICES ASSUME Init PROVE Typed
  OBVIOUS
<1>1. lines \in Seq(Line) /\ tail \in Seq(Fragment) /\ ZERO_HASH \in Hash
  BY DEF Init, Hash, ZERO_HASH
<1>2. images \subseteq [lines : Seq(Line), tail : Seq(Fragment)]
  BY DEF Init, Image
<1>3. Len(lines) = 0 /\ \A e \in Emission : emission[e] = Unread("idle")
  BY DEF Init
<1> QED BY <1>1, <1>2, <1>3 DEF Init, Typed, TypeOK, Finished, Unread, Counting

(* One read of a scan counts no less than before. *)
LEMMA CountType ==
    ASSUME Typed, NEW e \in Emission, CountLines(e)
    PROVE  Typed'
<1> DEFINE read == emission[e].lines_read
           before == IF emission[e].at = "idle" THEN 0 ELSE emission[e].chain_length
<1> USE DEF Typed, TypeOK
<1>1. /\ Len(Seen) \in Nat /\ Len(lines) \in Nat
      /\ Len(Seen) >= Len(lines)
  BY SeenType, ParseType, LenProperties, AppendProperties DEF Seen
<1>2. /\ emission[e] \in Reading /\ emission[e].at \in Counting
      /\ read \in Nat /\ read <= Len(lines) /\ before \in Nat
  BY DEF CountLines, Count, Reading
<1>3. ASSUME NEW r \in Reading, emission' = [emission EXCEPT ![e] = r],
             r.at # "idle", r.at \in Counting => r.lines_read <= Len(lines)
      PROVE  Typed'
  <2>1. UNCHANGED <<fileVars, callVars>>
    BY DEF CountLines, Count
  <2>2. emission' \in [Emission -> Reading]
    BY <1>3 DEF Reading
  <2>3. \A f \in Emission : emission'[f] = IF f = e THEN r ELSE emission[f]
    BY <1>3
  <2> QED BY <1>3, <2>1, <2>2, <2>3 DEF fileVars, callVars, Reading
<1>4. CASE emission' = [emission EXCEPT ![e] = Unread("raised")]
  BY <1>3, <1>4, UnreadType DEF Counting
<1>5. CASE emission' = [emission EXCEPT ![e].at = "counted", ![e].chain_length = before,
                                        ![e].tail_read = << >>]
  <2> DEFINE r == [emission[e] EXCEPT !.at = "counted", !.chain_length = before,
                                      !.tail_read = << >>]
  <2>1. r \in Reading /\ r.at = "counted"
    <3>1. << >> \in Seq(Fragment)
      OBVIOUS
    <3> HIDE DEF before
    <3> QED BY <1>2, <3>1 DEF Reading
  <2>2. emission' = [emission EXCEPT ![e] = r]
    BY <1>5
  <2> HIDE DEF r
  <2> QED BY <1>3, <2>1, <2>2 DEF Counting
<1>6. ASSUME NEW blank \in RestIsBlank(read, emission[e].tail_read),
             emission' = [emission EXCEPT
                 ![e].at = "counting",
                 ![e].chain_length = before + (Len(Seen) - read) - (IF blank THEN 1 ELSE 0),
                 ![e].lines_read = Len(lines),
                 ![e].tail_read = tail]
      PROVE  Typed'
  <2> DEFINE n == before + (Len(Seen) - read) - (IF blank THEN 1 ELSE 0)
             r == [emission[e] EXCEPT !.at = "counting", !.chain_length = n,
                                      !.lines_read = Len(lines), !.tail_read = tail]
  <2>1. blank => read + 1 <= Len(lines)
    <3>1. CASE read + 1 > Len(lines)
      <4>1. RestIsBlank(read, emission[e].tail_read) = {FALSE}
        BY <3>1 DEF RestIsBlank
      <4> QED BY <4>1
    <3> QED BY <1>1, <1>2, <3>1
  <2>2. n \in Nat
    BY <1>1, <1>2, <2>1
  <2>3. r \in Reading /\ r.at = "counting" /\ r.lines_read = Len(lines)
    <3> HIDE DEF n
    <3> QED BY <1>1, <1>2, <2>2 DEF Counting, Reading
  <2>4. emission' = [emission EXCEPT ![e] = r]
    BY <1>6
  <2>5. Len(lines) <= Len(lines) /\ r.at # "idle"
    BY <1>1, <2>3
  <2> HIDE DEF r
  <2> QED BY <1>3, <2>3, <2>4, <2>5
<1> QED BY <1>4, <1>5, <1>6 DEF CountLines, Count

(* Each step of append and emit_sth, and each failure, keeps the types. *)
LEMMA TypedStep == Typed /\ [Next \/ Stop \/ DiskError]_vars => Typed'
<1> SUFFICES ASSUME Typed, [Next \/ Stop \/ DiskError]_vars PROVE Typed'
  OBVIOUS
<1> USE DEF Typed, TypeOK
<1>1. ASSUME NEW c \in Call, Begin(c) PROVE Typed'
  BY <1>1 DEF Begin, GoTo, Finished, fileVars
<1>2. ASSUME NEW c \in Call, TakeWriteLock(c) PROVE Typed'
  BY <1>2 DEF TakeWriteLock, GoTo, fileVars
<1>3. ASSUME NEW c \in Call, TakeFlock(c) PROVE Typed'
  BY <1>3 DEF TakeFlock, GoTo, fileVars
<1>4. ASSUME NEW c \in Call, Scan(c) PROVE Typed'
  <2>1. NewRecord(LastRecord(Seen), c, KeyOf[LogOf[c]]) \in SignedRecord
    BY SeenType, LastRecordType, KeyType, NewRecordType DEF Signer
  <2> QED BY <1>4, <2>1 DEF Scan, Build, GoTo, fileVars
<1>5. ASSUME NEW c \in Call, WriteFront(c) PROVE Typed'
  <2>1. PICK cut \in CutsOf(c) : /\ Write(<<Front(draft[c], cut)>>, FALSE)
                                 /\ unwritten' = [unwritten EXCEPT ![c] = cut]
    BY <1>5 DEF WriteFront
  <2>2. cut \in Cut /\ draft[c] \in SignedRecord
    BY <1>5 DEF CutsOf, WriteFront
  <2>3. <<Front(draft[c], cut)>> \in Seq(Fragment)
    BY <2>2 DEF Front, Fragment
  <2>4. /\ lines' \in Seq(Line) /\ tail' \in Seq(Fragment)
        /\ images' \subseteq [lines : Seq(Line), tail : Seq(Fragment)]
        /\ Len(lines') >= Len(lines) /\ Len(lines) \in Nat /\ Len(lines') \in Nat
    BY <2>1, <2>3, WriteType, LenProperties
  <2> QED BY <1>5, <2>1, <2>2, <2>4 DEF WriteFront, Cut
<1>6. ASSUME NEW c \in Call, WriteRest(c) PROVE Typed'
  <2>1. Rest(draft[c], unwritten[c]) \in Seq(Fragment)
    BY <1>6, RestType DEF WriteRest
  <2>2. /\ lines' \in Seq(Line) /\ tail' \in Seq(Fragment)
        /\ images' \subseteq [lines : Seq(Line), tail : Seq(Fragment)]
        /\ Len(lines') >= Len(lines) /\ Len(lines) \in Nat /\ Len(lines') \in Nat
    BY <1>6, <2>1, WriteType, LenProperties DEF WriteRest
  <2> QED BY <1>6, <2>2 DEF WriteRest, GoTo
<1>7. ASSUME NEW c \in Call, Sync(c) PROVE Typed'
  BY <1>7 DEF Sync, GoTo, Image
<1>8. ASSUME NEW c \in Call, Unlock(c) PROVE Typed'
  BY <1>8 DEF Unlock, GoTo, fileVars
<1>9. ASSUME NEW c \in Call, Close(c) PROVE Typed'
  BY <1>9 DEF Close, Leave, GoTo, Finished, fileVars
<1>10. ASSUME NEW e \in Emission, CountLines(e) PROVE Typed'
  BY <1>10, CountType
<1>11. ASSUME NEW e \in Emission, ReadHead(e) PROVE Typed'
  <2>1. HeadHash(LastRecord(Seen)) \in Hash
    BY SeenType, LastRecordType, HeadHashType
  <2>2. ZERO_HASH \in Hash /\ << >> \in Seq(Fragment)
    BY DEF ZERO_HASH, Hash
  <2>3. emission[e].at = "counted"
    BY <1>11 DEF ReadHead
  <2> QED BY <1>11, <2>1, <2>2, <2>3 DEF ReadHead, fileVars, callVars, Unread, Counting
<1>12. ASSUME NEW c \in Call, IOError(c) PROVE Typed'
  BY <1>12 DEF IOError, GoTo, fileVars
<1>13. ASSUME NEW c \in Call, CloseFlushes(c) PROVE Typed'
  <2>1. /\ draft[c] \in SignedRecord
        /\ unwritten[c] \in {"all"} \cup Cut
    BY <1>13 DEF CloseFlushes
  <2> DEFINE Kept == /\ lines' \in Seq(Line) /\ tail' \in Seq(Fragment)
                     /\ images' \subseteq [lines : Seq(Line), tail : Seq(Fragment)]
                     /\ Len(lines') >= Len(lines)
                     /\ Len(lines) \in Nat /\ Len(lines') \in Nat
  <2>2. Kept
    <3>1. CASE Write(Rest(draft[c], unwritten[c]), TRUE)
      BY <2>1, <3>1, RestType, WriteType, LenProperties
    <3>2. ASSUME NEW cut \in CutsOf(c), Write(<<Front(draft[c], cut)>>, FALSE)
          PROVE  Kept
      <4>1. <<Front(draft[c], cut)>> \in Seq(Fragment)
        BY <2>1 DEF Front, Fragment, CutsOf
      <4> QED BY <3>2, <4>1, WriteType, LenProperties
    <3>3. CASE UNCHANGED fileVars
      BY <3>3, LenProperties DEF fileVars
    <3> QED BY <1>13, <3>1, <3>2, <3>3 DEF CloseFlushes
  <2>3. \A e \in Emission : emission[e].lines_read \in Nat /\ emission' = emission
    BY <1>13 DEF CloseFlushes, Leave
  <2>4. \A e \in Emission : emission'[e].at \in Counting =>
             emission'[e].lines_read <= Len(lines')
    BY <2>2, <2>3
  <2> QED BY <1>13, <2>2, <2>4 DEF CloseFlushes, Leave, GoTo, Finished
<1>14. ASSUME NEW logs \in SUBSET Log, Kill(logs), lines' = lines \/ logs = Log,
              lines' \in Seq(Line), tail' \in Seq(Fragment),
              images' \subseteq [lines : Seq(Line), tail : Seq(Fragment)]
       PROVE  Typed'
  <2>1. /\ emission' \in [Emission -> Reading]
        /\ \A e \in Emission : emission'[e].at \in Counting =>
               emission'[e].lines_read <= Len(lines')
    <3>1. /\ Unread("dead") \in Reading /\ Unread("dead").at = "dead"
          /\ "dead" \notin Counting /\ Unread("dead").lines_read = 0
      BY UnreadType
    <3>2. \A e \in Emission : emission'[e] =
              IF LogOf[e] \in logs /\ emission[e].at \in {"counting", "counted"}
              THEN Unread("dead") ELSE emission[e]
      BY <1>14 DEF Kill
    <3>3. emission' \in [Emission -> Reading]
      BY <1>14, <3>1 DEF Kill, Reading
    <3>4. Len(lines') \in Nat
      BY <1>14, LenProperties
    <3> SUFFICES ASSUME NEW e \in Emission, emission'[e].at \in Counting
                 PROVE  emission'[e].lines_read <= Len(lines')
      BY <3>3
    <3>5. /\ emission'[e] = emission[e] /\ emission[e].at \in Counting
          /\ LogOf[e] \in logs => emission[e].at = "idle"
      BY <3>1, <3>2 DEF Counting
    <3>6. CASE LogOf[e] \in logs
      BY <3>4, <3>5, <3>6
    <3>7. CASE LogOf[e] \notin logs
      BY <1>14, <3>5, <3>7, KeyType
    <3> QED BY <3>6, <3>7
  <2>2. \A e \in Emission : emission'[e].at = "idle" => emission'[e] = emission[e]
    BY <1>14, UnreadType DEF Kill
  <2>3. emission' \in [Emission -> [at : Counting \cup {"counted", "signed", "raised", "dead"},
                                    chain_length : Nat, head_hash : Hash,
                                    lines_read : Nat, tail_read : Seq(Fragment)]]
    BY <2>1 DEF Reading
  <2> QED BY <1>14, <2>1, <2>2, <2>3 DEF Kill, InFlight, Finished
<1>15. ASSUME NEW l \in Log, Crash(l) PROVE Typed'
  BY <1>14, <1>15 DEF Crash, fileVars
<1>16. CASE PowerLoss
  BY <1>14, <1>16 DEF PowerLoss
<1>17. CASE UNCHANGED vars
  BY <1>17 DEF vars
<1> QED BY <1>1, <1>2, <1>3, <1>4, <1>5, <1>6, <1>7, <1>8, <1>9, <1>10, <1>11,
           <1>12, <1>13, <1>15, <1>16, <1>17
        DEF Next, Step, Stop, DiskError, Idle

(* TypeOK holds through every failure the model has. *)
THEOREM FaultTypeCorrect == FaultSpec => []TypeOK
<1>1. Typed => TypeOK
  BY DEF Typed
<1> QED BY <1>1, TypedInit, TypedStep, PTL DEF FaultSpec
-----------------------------------------------------------------------------
(* Without failures: the log is one chain *)

(* Position and predecessor, spelled out for a log of records only. *)
Linked(ls) ==
    \A i \in 1..Len(ls) :
        /\ ls[i].seq = i - 1
        /\ ls[i].prev_hash = IF i = 1 THEN ZERO_HASH ELSE EntryHash(ls[i - 1])

(* The steps of append between which its record is in the file. *)
Written(c) == \/ pc[c] \in {"sync", "unlock", "close"} /\ ~ failed[c]
              \/ pc[c] = "returned"

(* What is in the file of r when the buffer still holds `part` of it. *)
Begun(r, part) == IF part = "all" THEN << >> ELSE <<Front(r, part)>>
TailOf(c) == Begun(draft[c], unwritten[c])

FlockExclusive == \A c \in Call : pc[c] \in Holding <=> flock = c
FailedLeaves == \A c \in Call : failed[c] => pc[c] \in {"unlock", "close", "raised"}
WritesWhileHolding == \A c \in Call : unwritten[c] # "none" => pc[c] = "write"
TailInHand == /\ \A c \in Call : pc[c] = "write" => tail = TailOf(c)
              /\ (\A c \in Call : pc[c] # "write") => tail = << >>
DraftsFollow == \A c \in Call : pc[c] = "write" =>
                    draft[c] = NewRecord(LastRecord(lines), c, KeyOf[LogOf[c]])
WriterHasKey == \A c \in Call : pc[c] \notin {"idle", "raised", "dead"} => KeyOf[LogOf[c]] \in Key
RecordsKept == \A c \in Call : Written(c) =>
                   /\ draft[c] \in SignedRecord
                   /\ draft[c].call = c
                   /\ draft[c].seq + 1 \in 1..Len(lines)
                   /\ lines[draft[c].seq + 1] = draft[c]

(* What makes the chain hold at every step: whoever is past its scan holds *)
(* the flock, so that nothing comes between its scan and its write.        *)
ChainInv == /\ Typed
            /\ FlockExclusive
            /\ FailedLeaves
            /\ WritesWhileHolding
            /\ TailInHand
            /\ DraftsFollow
            /\ lines \in Seq(SignedRecord)
            /\ Linked(lines)
            /\ RecordsKept
            /\ WriterHasKey

(* In a log of records only, the last record is the last line. *)
LEMMA LastOfRecords ==
    ASSUME NEW ls \in Seq(SignedRecord)
    PROVE  LastRecord(ls) = IF ls = << >> THEN NoRecord ELSE ls[Len(ls)]
<1> DEFINE last == {i \in 1..Len(ls) : /\ ls[i] \notin Junk
                                       /\ \A j \in i + 1..Len(ls) : ls[j] \in Junk}
<1>1. \A i \in 1..Len(ls) : ls[i] \notin Junk
  BY ElementOfSeq, JunkAssumption
<1>2. CASE ls = << >>
  <2>1. last = {}
    BY <1>2
  <2> QED BY <1>2, <2>1 DEF LastRecord
<1>3. CASE ls # << >>
  <2>1. Len(ls) \in Nat /\ Len(ls) > 0
    BY <1>3, EmptySeq
  <2>2. last = {Len(ls)}
    BY <1>1, <2>1
  <2>3. (CHOOSE i \in last : TRUE) = Len(ls)
    BY <2>2
  <2> QED BY <1>3, <2>2, <2>3 DEF LastRecord
<1> QED BY <1>2, <1>3

(* A linked log of records is a readable chain with no line left out. *)
LEMMA LinkedIsChain ==
    ASSUME lines \in Seq(SignedRecord), Linked(lines)
    PROVE  ChainIntact
<1>1. \A i \in 1..Len(lines) : lines[i] \notin Junk
  BY ElementOfSeq, JunkAssumption
<1>2. ASSUME NEW i \in 1..Len(lines)
      PROVE  Extends(lines[i], LastRecord(SubSeq(lines, 1, i - 1)))
  <2> DEFINE before == SubSeq(lines, 1, i - 1)
  <2>1. /\ before \in Seq(SignedRecord)
        /\ Len(before) = i - 1
        /\ \A j \in 1..i - 1 : before[j] = lines[j]
    <3>1. \A j \in 1..i - 1 : lines[j] \in SignedRecord
      BY ElementOfSeq, LenProperties
    <3>2. 1 \in Int /\ i - 1 \in Int
      BY LenProperties
    <3> QED BY <3>1, <3>2, SubSeqProperties
  <2>2. CASE i = 1
    <3>1. before = << >>
      BY <2>1, <2>2, EmptySeq
    <3>2. LastRecord(before) = NoRecord
      BY <2>1, <3>1, LastOfRecords
    <3>3. lines[i].seq = 0 /\ lines[i].prev_hash = ZERO_HASH
      BY <2>2 DEF Linked
    <3> QED BY <3>2, <3>3 DEF Extends, NextSeq, HeadHash
  <2>3. CASE i # 1
    <3>1. before # << >> /\ before[Len(before)] = lines[i - 1]
      BY <2>1, <2>3, EmptySeq
    <3>2. LastRecord(before) = lines[i - 1]
      BY <2>1, <3>1, LastOfRecords
    <3>3. lines[i - 1] \in SignedRecord
      BY <2>3, ElementOfSeq, LenProperties
    <3>4. lines[i].seq = lines[i - 1].seq + 1 /\ lines[i].prev_hash = EntryHash(lines[i - 1])
      BY <2>3, LenProperties DEF Linked
    <3> QED BY <3>2, <3>3, <3>4, RecordAssumption DEF Line, Extends, NextSeq, HeadHash
  <2> QED BY <2>2, <2>3
<1> QED BY <1>1, <1>2 DEF ChainIntact, ReadableChain

(* A record built on the last one keeps the log linked, at its own index. *)
LEMMA AppendLinked ==
    ASSUME NEW ls \in Seq(SignedRecord), Linked(ls),
           NEW c \in Call, NEW key \in Signer,
           NEW r, r = NewRecord(LastRecord(ls), c, key)
    PROVE  /\ r \in SignedRecord /\ r.call = c /\ r.seq = Len(ls)
           /\ Append(ls, r) \in Seq(SignedRecord)
           /\ Linked(Append(ls, r))
<1> DEFINE new == Append(ls, r)
<1>1. LastRecord(ls) \in SignedRecord \cup {NoRecord}
  BY LastRecordType, LastOfRecords, EmptySeq, ElementOfSeq
<1>2. r \in SignedRecord
  BY <1>1, NewRecordType
<1>3. /\ new \in Seq(SignedRecord) /\ Len(new) = Len(ls) + 1
      /\ \A i \in 1..Len(ls) : new[i] = ls[i]
      /\ new[Len(ls) + 1] = r
  BY <1>2, AppendProperties
<1>4. /\ r.seq = Len(ls)
      /\ r.prev_hash = IF Len(ls) = 0 THEN ZERO_HASH ELSE EntryHash(ls[Len(ls)])
  <2>1. CASE ls = << >>
    BY <2>1, LastOfRecords DEF NewRecord, NextSeq, HeadHash
  <2>2. CASE ls # << >>
    <3>1. Len(ls) \in Nat /\ Len(ls) > 0
      BY <2>2, EmptySeq
    <3>2. ls[Len(ls)] \in SignedRecord
      BY <3>1, ElementOfSeq
    <3>3. LastRecord(ls) = ls[Len(ls)] /\ LastRecord(ls) # NoRecord
      BY <2>2, <3>2, LastOfRecords, RecordAssumption DEF Line
    <3>4. ls[Len(ls)].seq = Len(ls) - 1
      BY <3>1 DEF Linked
    <3> QED BY <3>1, <3>3, <3>4 DEF NewRecord, NextSeq, HeadHash
  <2> QED BY <2>1, <2>2
<1>5. Linked(new)
  <2>1. ASSUME NEW i \in 1..Len(new)
        PROVE  /\ new[i].seq = i - 1
               /\ new[i].prev_hash = IF i = 1 THEN ZERO_HASH ELSE EntryHash(new[i - 1])
    <3>1. CASE i \in 1..Len(ls)
      BY <1>3, <3>1, LenProperties DEF Linked
    <3>2. CASE i = Len(ls) + 1
      BY <1>3, <1>4, <3>2, LenProperties
    <3> QED BY <1>3, <3>1, <3>2, LenProperties
  <2> QED BY <2>1 DEF Linked
<1>6. r.call = c
  BY DEF NewRecord
<1> QED BY <1>2, <1>3, <1>4, <1>5, <1>6

(* Two pieces, one behind the other. *)
LEMMA TwoPieces ==
    ASSUME NEW f \in Fragment, NEW g \in Fragment
    PROVE  /\ <<f>> \o <<g>> = <<f, g>>
           /\ Len(<<f, g>>) = 2 /\ <<f, g>>[1] = f /\ <<f, g>>[2] = g
<1> DEFINE joined == <<f>> \o <<g>>
           pair == <<f, g>>
<1>1. <<f>> \in Seq(Fragment) /\ <<g>> \in Seq(Fragment) /\ pair \in Seq(Fragment)
  OBVIOUS
<1>2. /\ Len(<<f>>) = 1 /\ <<f>>[1] = f /\ Len(<<g>>) = 1 /\ <<g>>[1] = g
      /\ Len(pair) = 2 /\ pair[1] = f /\ pair[2] = g
  OBVIOUS
<1>3. joined \in Seq(Fragment) /\ Len(joined) = 2 /\ joined[1] = f /\ joined[2] = g
  BY <1>1, <1>2, ConcatProperties
<1>4. \A i \in 1..Len(joined) : joined[i] = pair[i]
  BY <1>2, <1>3
<1> HIDE DEF joined, pair
<1>5. joined = pair
  BY <1>1, <1>2, <1>3, <1>4, SeqEqual
<1> QED BY <1>2, <1>5 DEF joined, pair

(* A front and the back that joins it parse to their record. *)
LEMMA JoinedPieces ==
    ASSUME NEW f \in Fragment, NEW g \in Fragment, Joins(f, g)
    PROVE  <<f, g>> # << >> /\ Parse(<<f, g>>) = f.record
<1> DEFINE pair == <<f, g>>
<1>1. Len(pair) = 2 /\ pair[1] = f /\ pair[2] = g
  BY TwoPieces
<1> HIDE DEF pair
<1>2. Whole(pair)
  BY <1>1 DEF Whole
<1>3. pair # << >> /\ Parse(pair) = f.record
  BY <1>1, <1>2, EmptySeq DEF Parse
<1> QED BY <1>3 DEF pair

(* The two parts of a record, with nothing between them, parse to it. *)
LEMMA ParseOwn ==
    ASSUME NEW r \in SignedRecord, NEW part \in {"all"} \cup Cut
    PROVE  /\ Begun(r, part) \o Rest(r, part) # << >>
           /\ Parse(Begun(r, part) \o Rest(r, part)) = r
<1> DEFINE whole == Front(r, "end")
           text == Begun(r, part) \o Rest(r, part)
<1>1. CASE part \in {"all", "end"}
  <2>1. whole \in Fragment /\ whole.record = r /\ whole.cut = "end"
    BY DEF Front, Fragment, Cut
  <2>2. <<whole>> \in Seq(Fragment)
    BY <2>1
  <2>3. text = <<whole>>
    BY <1>1, <2>2, ConcatEmptySeq DEF Rest, Begun
  <2>4. Len(text) = 1 /\ text[1] = whole
    BY <2>3
  <2> HIDE DEF whole
  <2>5. Whole(text)
    BY <2>1, <2>4 DEF Whole
  <2> QED BY <2>1, <2>3, <2>4, <2>5 DEF Parse
<1>2. CASE part \in {"text", "char"}
  <2> DEFINE front == Front(r, part)
             back == Back(r, part)
  <2>1. /\ front \in Fragment /\ back \in Fragment
        /\ front.record = r /\ Joins(front, back)
    BY <1>2 DEF Front, Back, Fragment, Cut, Joins
  <2>2. text = <<front, back>>
    BY <1>2, <2>1, TwoPieces DEF Rest, Begun
  <2> QED BY <2>1, <2>2, JoinedPieces
<1> QED BY <1>1, <1>2 DEF Cut

(* An empty log is a chain. *)
LEMMA ChainInit == Init => ChainInv
<1> SUFFICES ASSUME Init PROVE ChainInv
  OBVIOUS
<1>1. Typed
  BY TypedInit
<1>2. lines = << >> /\ lines \in Seq(SignedRecord)
  BY DEF Init
<1>3. Linked(lines)
  BY <1>2 DEF Linked
<1>4. FlockExclusive
  BY CallAssumption DEF Init, FlockExclusive, Holding
<1>5. RecordsKept
  BY DEF Init, RecordsKept, Written
<1> QED BY <1>1, <1>2, <1>3, <1>4, <1>5
        DEF Init, ChainInv, FailedLeaves, WritesWhileHolding, TailInHand, DraftsFollow,
            WriterHasKey

(* Who has come past the first check of append has a key to sign with. *)
LEMMA WriterHasKeyStep == Typed /\ WriterHasKey /\ [Next]_vars => WriterHasKey'
<1> SUFFICES ASSUME Typed, WriterHasKey, [Next]_vars PROVE WriterHasKey'
  OBVIOUS
<1> USE DEF Typed, TypeOK, WriterHasKey
<1>1. ASSUME NEW c \in Call, Begin(c) PROVE WriterHasKey'
  <2>1. KeyOf[LogOf[c]] \in Key \/ KeyOf[LogOf[c]] = NoKey
    BY KeyType
  <2> QED BY <1>1, <2>1 DEF Begin, GoTo
<1>2. ASSUME NEW c \in Call, Step(c) PROVE WriterHasKey'
  <2>1. pc[c] \notin {"idle", "raised", "dead"} /\ \E step : GoTo(c, step) \/ pc' = pc
    BY <1>2 DEF Step, TakeWriteLock, TakeFlock, Scan, Build, WriteFront, WriteRest, Sync,
                Unlock, Close, Leave
  <2> QED BY <2>1 DEF GoTo
<1>3. CASE pc' = pc
  BY <1>3
<1> QED BY <1>1, <1>2, <1>3
        DEF Next, CountLines, Count, ReadHead, callVars, Idle, vars

(* No step of append lets another writer in between its scan and its       *)
(* write: the locks, the line under way and the chain stay as ChainInv has *)
(* them.                                                                   *)
LEMMA ChainStep == ChainInv /\ [Next]_vars => ChainInv'
<1> SUFFICES ASSUME ChainInv, [Next]_vars PROVE ChainInv'
  OBVIOUS
<1>1. Typed' /\ WriterHasKey'
  BY TypedStep, WriterHasKeyStep DEF ChainInv
<1> DEFINE Others == /\ FlockExclusive /\ FailedLeaves /\ WritesWhileHolding
                     /\ TailInHand /\ DraftsFollow
                     /\ lines \in Seq(SignedRecord) /\ Linked(lines) /\ RecordsKept
<1> SUFFICES Others'
  BY <1>1 DEF ChainInv
<1> USE DEF ChainInv, Typed, TypeOK
<1>2. ASSUME NEW c \in Call, Begin(c) PROVE Others'
  <2>1. PICK step \in {"raised", "lock"} : pc' = [pc EXCEPT ![c] = step]
    BY <1>2 DEF Begin, GoTo
  <2>2. pc[c] = "idle" /\ UNCHANGED <<fileVars, wlock, flock, draft, unwritten, failed, emission>>
    BY <1>2 DEF Begin
  <2>3. \A d \in Call : pc'[d] = IF d = c THEN step ELSE pc[d]
    BY <2>1
  <2>4. \A d \in Call : Written(d)' <=> Written(d)
    BY <2>2, <2>3 DEF Written
  <2>5. \A d \in Call : /\ pc'[d] \in Holding <=> pc[d] \in Holding
                        /\ pc'[d] = "write" <=> pc[d] = "write"
    BY <2>2, <2>3 DEF Holding
  <2>6. FlockExclusive' /\ WritesWhileHolding' /\ DraftsFollow'
    BY <2>2, <2>5 DEF fileVars, FlockExclusive, WritesWhileHolding, DraftsFollow
  <2>7. TailInHand' /\ RecordsKept' /\ Linked(lines)'
    BY <2>2, <2>4, <2>5 DEF fileVars, TailInHand, TailOf, RecordsKept, Linked
  <2>8. FailedLeaves'
    BY <2>2, <2>3 DEF FailedLeaves
  <2> QED BY <2>2, <2>6, <2>7, <2>8 DEF fileVars
<1>3. ASSUME NEW c \in Call, TakeWriteLock(c) PROVE Others'
  BY <1>3 DEF TakeWriteLock, GoTo, fileVars, FlockExclusive, Holding, FailedLeaves,
              WritesWhileHolding, TailInHand, TailOf, Begun, DraftsFollow, RecordsKept,
              Written, Linked
<1>4. ASSUME NEW c \in Call, TakeFlock(c) PROVE Others'
  BY <1>4, CallAssumption
     DEF TakeFlock, GoTo, fileVars, FlockExclusive, Holding, FailedLeaves,
              WritesWhileHolding, TailInHand, TailOf, Begun, DraftsFollow, RecordsKept,
              Written, Linked
<1>5. ASSUME NEW c \in Call, Scan(c) PROVE Others'
  <2>1. \A d \in Call : d # c => pc[d] \notin Holding
    BY <1>5 DEF Scan, FlockExclusive, Holding
  <2>2. tail = << >>
    BY <1>5, <2>1 DEF Scan, TailInHand, Holding
  <2>3. Seen = lines
    BY <2>2 DEF Seen
  <2>4. pc[c] = "scan" /\ UNCHANGED <<fileVars, wlock, flock, emission>>
    BY <1>5 DEF Scan, Build
  <2>5. CASE Build(c, LastRecord(lines))
    <3>1. \A d \in Call :
            /\ pc'[d] = IF d = c THEN "write" ELSE pc[d]
            /\ unwritten'[d] = IF d = c THEN "all" ELSE unwritten[d]
            /\ draft'[d] = IF d = c THEN NewRecord(LastRecord(lines), c, KeyOf[LogOf[c]])
                           ELSE draft[d]
      BY <2>5 DEF Build, GoTo
    <3>2. lines' = lines /\ tail' = << >> /\ flock' = flock /\ failed' = failed
      BY <2>2, <2>4, <2>5 DEF Build, fileVars
    <3>3. FlockExclusive' /\ WritesWhileHolding' /\ FailedLeaves'
      BY <2>4, <3>1, <3>2 DEF FlockExclusive, Holding, WritesWhileHolding, FailedLeaves
    <3>4. TailInHand' /\ DraftsFollow'
      BY <2>1, <3>1, <3>2 DEF TailInHand, TailOf, Begun, DraftsFollow, Holding
    <3>5. \A d \in Call : Written(d)' => d # c /\ Written(d)
      BY <3>1, <3>2 DEF Written
    <3>6. RecordsKept'
      BY <3>1, <3>2, <3>5 DEF RecordsKept
    <3> QED BY <3>2, <3>3, <3>4, <3>6 DEF Linked
  <2>6. CASE /\ failed' = [failed EXCEPT ![c] = TRUE]
             /\ GoTo(c, "unlock")
             /\ UNCHANGED <<draft, unwritten>>
    BY <2>1, <2>2, <2>4, <2>6
       DEF GoTo, fileVars, FlockExclusive, Holding, FailedLeaves,
           WritesWhileHolding, TailInHand, TailOf, Begun, DraftsFollow, RecordsKept,
           Written, Linked
  <2> QED BY <1>5, <2>3, <2>5, <2>6 DEF Scan
<1>6. ASSUME NEW c \in Call, WriteFront(c) PROVE Others'
  <2>1. PICK cut \in CutsOf(c) : /\ Write(<<Front(draft[c], cut)>>, FALSE)
                                 /\ unwritten' = [unwritten EXCEPT ![c] = cut]
    BY <1>6 DEF WriteFront
  <2>2. cut \in Cut /\ cut # "all" /\ cut # "none" /\ draft[c] \in SignedRecord
    BY <1>6 DEF CutsOf, Cut, WriteFront
  <2>3. tail = << >>
    BY <1>6 DEF WriteFront, TailInHand, TailOf, Begun
  <2>4. <<Front(draft[c], cut)>> \in Seq(Fragment)
    BY <2>2 DEF Front, Fragment
  <2>5. lines' = lines /\ tail' = <<Front(draft[c], cut)>>
    BY <2>1, <2>3, <2>4, ConcatEmptySeq DEF Write
  <2>6. \A d \in Call : d # c => pc[d] \notin Holding
    BY <1>6 DEF WriteFront, FlockExclusive, Holding
  <2> QED BY <1>6, <2>1, <2>2, <2>5, <2>6
     DEF WriteFront, FlockExclusive, Holding, FailedLeaves,
              WritesWhileHolding, TailInHand, TailOf, Begun, DraftsFollow, RecordsKept,
              Written, Linked
<1>7. ASSUME NEW c \in Call, WriteRest(c) PROVE Others'
  <2> DEFINE text == tail \o Rest(draft[c], unwritten[c])
  <2>1. /\ pc[c] = "write" /\ draft[c] \in SignedRecord
        /\ unwritten[c] \in {"all"} \cup Cut
    BY <1>7 DEF WriteRest
  <2>2. text # << >> /\ Parse(text) = draft[c]
    <3>1. tail = Begun(draft[c], unwritten[c])
      BY <2>1 DEF TailInHand, TailOf
    <3> QED BY <2>1, <3>1, ParseOwn
  <2>3. lines' = Append(lines, draft[c]) /\ tail' = << >>
    BY <1>7, <2>2 DEF WriteRest, Write
  <2>4. draft[c] = NewRecord(LastRecord(lines), c, KeyOf[LogOf[c]])
    BY <2>1 DEF DraftsFollow
  <2>5. /\ draft[c].call = c /\ draft[c].seq = Len(lines)
        /\ lines' \in Seq(SignedRecord) /\ Linked(lines')
    BY <2>3, <2>4, KeyType, AppendLinked DEF Signer
  <2>6. \A d \in Call : d # c => pc[d] \notin Holding
    BY <2>1 DEF FlockExclusive, Holding
  <2>7. /\ Len(lines') = Len(lines) + 1 /\ lines'[Len(lines) + 1] = draft[c]
        /\ \A i \in 1..Len(lines) : lines'[i] = lines[i]
        /\ Len(lines) \in Nat
    BY <2>1, <2>3, AppendProperties, LenProperties
  <2>8. /\ pc' = [pc EXCEPT ![c] = "sync"] /\ unwritten' = [unwritten EXCEPT ![c] = "none"]
        /\ draft' = draft /\ failed' = failed /\ flock' = flock
    BY <1>7 DEF WriteRest, GoTo
  <2>9. RecordsKept'
    <3> SUFFICES ASSUME NEW d \in Call, Written(d)'
                 PROVE  /\ draft[d] \in SignedRecord /\ draft[d].call = d
                        /\ draft[d].seq + 1 \in 1..Len(lines')
                        /\ lines'[draft[d].seq + 1] = draft[d]
      BY <2>8 DEF RecordsKept
    <3>1. CASE d = c
      BY <2>1, <2>5, <2>7, <3>1
    <3>2. CASE d # c
      <4>1. Written(d)
        BY <2>8, <3>2 DEF Written
      <4>2. /\ draft[d] \in SignedRecord /\ draft[d].call = d
            /\ draft[d].seq + 1 \in 1..Len(lines)
            /\ lines[draft[d].seq + 1] = draft[d]
        BY <4>1 DEF RecordsKept
      <4> QED BY <2>7, <4>2
    <3> QED BY <3>1, <3>2
  <2>10. FlockExclusive' /\ FailedLeaves' /\ WritesWhileHolding'
    BY <2>1, <2>8 DEF FlockExclusive, Holding, FailedLeaves, WritesWhileHolding
  <2>11. TailInHand' /\ DraftsFollow'
    BY <2>1, <2>3, <2>6, <2>8 DEF TailInHand, DraftsFollow, Holding
  <2>12. Linked(lines)'
    BY <2>5 DEF Linked
  <2> QED BY <2>5, <2>9, <2>10, <2>11, <2>12
<1>8. ASSUME NEW c \in Call, Sync(c) PROVE Others'
  BY <1>8 DEF Sync, GoTo, FlockExclusive, Holding, FailedLeaves,
              WritesWhileHolding, TailInHand, TailOf, Begun, DraftsFollow, RecordsKept,
              Written, Linked
<1>9. ASSUME NEW c \in Call, Unlock(c) PROVE Others'
  BY <1>9, CallAssumption
     DEF Unlock, GoTo, fileVars, FlockExclusive, Holding, FailedLeaves,
              WritesWhileHolding, TailInHand, TailOf, Begun, DraftsFollow, RecordsKept,
              Written, Linked
<1>10. ASSUME NEW c \in Call, Close(c) PROVE Others'
  BY <1>10 DEF Close, Leave, GoTo, fileVars, FlockExclusive, Holding, FailedLeaves,
              WritesWhileHolding, TailInHand, TailOf, Begun, DraftsFollow, RecordsKept,
              Written, Linked
<1>11. CASE UNCHANGED <<fileVars, callVars>>
  BY <1>11 DEF fileVars, callVars, FlockExclusive, Holding, FailedLeaves,
              WritesWhileHolding, TailInHand, TailOf, Begun, DraftsFollow, RecordsKept,
              Written, Linked
<1>12. ASSUME NEW e \in Emission, CountLines(e) \/ ReadHead(e) PROVE Others'
  BY <1>11, <1>12 DEF CountLines, Count, ReadHead
<1>13. CASE UNCHANGED vars
  BY <1>11, <1>13 DEF vars, fileVars, callVars
<1> QED BY <1>2, <1>3, <1>4, <1>5, <1>6, <1>7, <1>8, <1>9, <1>10, <1>12, <1>13
        DEF Next, Step, Idle

(* With no failure, every line of the log is a record, and they are one    *)
(* chain, whatever the calls, processes and threads do.                    *)
THEOREM ChainCorrect == Spec => []ChainIntact
<1>1. ChainInv => ChainIntact
  BY LinkedIsChain DEF ChainInv
<1> QED BY <1>1, ChainInit, ChainStep, PTL DEF Spec

(* With no failure, every receipt finds its record by its seq.             *)
THEOREM ReceiptsCorrect == Spec => []ReceiptsFindRecord
<1>1. ChainInv => ReceiptsFindRecord
  BY DEF ChainInv, RecordsKept, ReceiptsFindRecord, Returned, Written
<1> QED BY <1>1, ChainInit, ChainStep, PTL DEF Spec

(* An exception on its way out is that of an entry that cannot be signed.  *)
BadCallsFail == /\ OnlyBadCallsRaise
                /\ \A c \in Call : failed[c] => c \in Unsignable

(* Where no failure leaves junk in the file, the scan decodes every line:  *)
(* what it meets under the flock is the log, with nothing under way.       *)
LEMMA BadCallsStep == ChainInv /\ BadCallsFail /\ [Next]_vars => BadCallsFail'
<1> SUFFICES ASSUME ChainInv, BadCallsFail, [Next]_vars PROVE BadCallsFail'
  OBVIOUS
<1> USE DEF BadCallsFail, OnlyBadCallsRaise, ChainInv, Typed, TypeOK
<1>1. ASSUME NEW c \in Call, Begin(c) PROVE BadCallsFail'
  BY <1>1 DEF Begin, GoTo
<1>2. ASSUME NEW c \in Call, Scan(c) PROVE BadCallsFail'
  <2>1. tail = << >>
    BY <1>2 DEF Scan, TailInHand, FlockExclusive, Holding
  <2>2. \A i \in 1..Len(lines) : lines[i] # Undecodable
    <3>1. \A i \in 1..Len(lines) : lines[i] \in SignedRecord
      BY ElementOfSeq
    <3> QED BY <3>1, JunkAssumption DEF Junk
  <2>3. Undecodable \notin {Seen[i] : i \in 1..Len(Seen)}
    BY <2>1, <2>2 DEF Seen
  <2>4. CASE c \in Unsignable
    BY <1>2, <2>3, <2>4 DEF Scan, GoTo
  <2>5. CASE c \notin Unsignable
    BY <1>2, <2>3, <2>5 DEF Scan, Build, GoTo
  <2> QED BY <2>4, <2>5
<1>3. ASSUME NEW c \in Call, Close(c) PROVE BadCallsFail'
  BY <1>3 DEF Close, Leave, GoTo
<1>4. ASSUME NEW c \in Call, TakeWriteLock(c) \/ TakeFlock(c) \/ WriteFront(c)
                             \/ WriteRest(c) \/ Sync(c) \/ Unlock(c)
      PROVE  BadCallsFail'
  BY <1>4 DEF TakeWriteLock, TakeFlock, WriteFront, WriteRest, Sync, Unlock, GoTo
<1>5. CASE UNCHANGED <<pc, failed>>
  BY <1>5
<1> QED BY <1>1, <1>2, <1>3, <1>4, <1>5
        DEF Next, Step, CountLines, Count, ReadHead, callVars, Idle, vars

(* With no failure, append raises only for a log without a key or a call   *)
(* with no canonical form: never for contention or for what it reads.      *)
THEOREM OnlyCallersAtFault == Spec => []OnlyBadCallsRaise
<1>1. Init => BadCallsFail
  BY DEF Init, BadCallsFail, OnlyBadCallsRaise
<1>2. BadCallsFail => OnlyBadCallsRaise
  BY DEF BadCallsFail
<1> QED BY <1>1, <1>2, ChainInit, ChainStep, BadCallsStep, PTL DEF Spec

-----------------------------------------------------------------------------
(* Without failures: append is atomic *)

(* How far a call has come, from its step and whether it failed. *)
LEMMA OutcomeValue ==
    ASSUME NEW c \in Call, Typed
    PROVE  /\ Outcome(c) = "attested" <=>
                  pc[c] \in {"sync", "unlock", "close"} /\ ~ failed[c]
           /\ Outcome(c) = "returned" <=> pc[c] = "returned"
           /\ Outcome(c) = "raised" <=> pc[c] = "raised"
           /\ Outcome(c) \in {"pending", "attested", "returned", "raised"}
BY DEF Outcome

(* Every step is a step of the atomic log or leaves it as it is: the write *)
(* of the newline attests, the close of the file returns or rejects, and   *)
(* append's other steps are not seen.                                      *)
LEMMA AtomicStep ==
    ChainInv /\ ChainInv' /\ [Next]_vars => [Atomic!Next]_(Atomic!vars)
<1> SUFFICES ASSUME ChainInv, ChainInv', [Next]_vars
             PROVE  Atomic!Next \/ UNCHANGED Atomic!vars
  OBVIOUS
<1> DEFINE outcome == [c \in Call |-> Outcome(c)]
<1>1. \A c \in Call : outcome[c] = Outcome(c) /\ outcome'[c] = Outcome(c)'
  OBVIOUS
<1>2. ASSUME lines' = lines, \A c \in Call : Outcome(c)' = Outcome(c)
      PROVE  UNCHANGED Atomic!vars
  BY <1>2 DEF Atomic!vars
<1>3. ASSUME NEW c \in Call, NEW step,
             \A d \in Call : Outcome(d)' = IF d = c THEN step ELSE Outcome(d)
      PROVE  outcome' = [outcome EXCEPT ![c] = step]
  BY <1>3
<1>4. ASSUME NEW c \in Call, Begin(c) PROVE Atomic!Next \/ UNCHANGED Atomic!vars
  <2>1. lines' = lines /\ pc[c] = "idle" /\ failed' = failed
    BY <1>4 DEF Begin, fileVars
  <2>2. CASE pc' = [pc EXCEPT ![c] = "raised"]
    <3>1. \A d \in Call : Outcome(d)' = IF d = c THEN "raised" ELSE Outcome(d)
      BY <2>1, <2>2 DEF Outcome, ChainInv, Typed, TypeOK
    <3>2. Outcome(c) = "pending"
      BY <2>1 DEF Outcome
    <3> QED BY <1>3, <2>1, <3>1, <3>2 DEF Atomic!Next, Atomic!Reject
  <2>3. CASE pc' = [pc EXCEPT ![c] = "lock"]
    <3>1. \A d \in Call : Outcome(d)' = Outcome(d)
      BY <2>1, <2>3 DEF Outcome, ChainInv, Typed, TypeOK
    <3> QED BY <1>2, <2>1, <3>1
  <2> QED BY <1>4, <2>2, <2>3 DEF Begin, GoTo
<1>5. ASSUME NEW c \in Call,
             TakeWriteLock(c) \/ TakeFlock(c) \/ WriteFront(c) \/ Sync(c) \/ Unlock(c)
      PROVE  UNCHANGED Atomic!vars
  <2>1. lines' = lines /\ failed' = failed
    <3>1. CASE WriteFront(c)
      BY <3>1 DEF WriteFront, Write
    <3> QED BY <1>5, <3>1 DEF TakeWriteLock, TakeFlock, Sync, Unlock, fileVars
  <2>2. \A d \in Call : Outcome(d)' = Outcome(d)
    BY <1>5, <2>1 DEF TakeWriteLock, TakeFlock, WriteFront, Sync, Unlock, GoTo,
                      Outcome, ChainInv, Typed, TypeOK, FailedLeaves
  <2> QED BY <1>2, <2>1, <2>2
<1>6. ASSUME NEW c \in Call, Scan(c) PROVE UNCHANGED Atomic!vars
  <2>1. lines' = lines /\ ~ failed[c] /\ pc[c] = "scan"
    BY <1>6 DEF Scan, Build, fileVars, ChainInv, FailedLeaves
  <2>2. CASE GoTo(c, "write") /\ failed' = failed
    BY <1>2, <2>1, <2>2 DEF GoTo, Outcome, ChainInv, Typed, TypeOK
  <2>3. CASE GoTo(c, "unlock") /\ failed' = [failed EXCEPT ![c] = TRUE]
    BY <1>2, <2>1, <2>3 DEF GoTo, Outcome, ChainInv, Typed, TypeOK
  <2> QED BY <1>6, <2>2, <2>3 DEF Scan, Build
<1>7. ASSUME NEW c \in Call, WriteRest(c) PROVE Atomic!Next
  <2>1. /\ pc[c] = "write" /\ ~ failed[c] /\ failed' = failed
        /\ pc' = [pc EXCEPT ![c] = "sync"] /\ draft' = draft
    BY <1>7 DEF WriteRest, GoTo, ChainInv, FailedLeaves
  <2>2. /\ tail = Begun(draft[c], unwritten[c])
        /\ draft[c] \in SignedRecord /\ unwritten[c] \in {"all"} \cup Cut
        /\ draft[c] = NewRecord(LastRecord(lines), c, KeyOf[LogOf[c]])
    BY <2>1 DEF ChainInv, Typed, TypeOK, TailInHand, TailOf, DraftsFollow
  <2>3. lines' = Append(lines, draft[c])
    BY <1>7, <2>2, ParseOwn DEF WriteRest, Write
  <2>4. LastRecord(lines) = Atomic!Last
    BY LastOfRecords DEF ChainInv, Atomic!Last
  <2>5. \A d \in Call : Outcome(d)' = IF d = c THEN "attested" ELSE Outcome(d)
    BY <2>1 DEF Outcome, ChainInv, Typed, TypeOK
  <2>6. Outcome(c) = "pending"
    BY <2>1 DEF Outcome
  <2>7. [d \in Call |-> KeyOf[LogOf[d]]][c] = KeyOf[LogOf[c]]
    OBVIOUS
  <2>8. KeyOf[LogOf[c]] \in Key
    BY <2>1 DEF ChainInv, WriterHasKey
  <2>9. outcome' = [outcome EXCEPT ![c] = "attested"]
    BY <1>3, <2>5
  <2>10. outcome[c] = "pending"
    BY <1>1, <2>6
  <2>11. lines' = Append(lines, NewRecord(Atomic!Last, c, [d \in Call |-> KeyOf[LogOf[d]]][c]))
    BY <2>2, <2>3, <2>4, <2>7
  <2>12. NewRecord(Atomic!Last, c, [d \in Call |-> KeyOf[LogOf[d]]][c])
           = Atomic!NewRecord(Atomic!Last, c, [d \in Call |-> KeyOf[LogOf[d]]][c])
    BY DEF NewRecord, NextSeq, HeadHash, EntryHash, ZERO_HASH, Atomic!NewRecord,
           Atomic!NextSeq, Atomic!HeadHash, Atomic!EntryHash, Atomic!ZERO_HASH
  <2>13. Atomic!Attest(c)
    BY <2>7, <2>8, <2>9, <2>10, <2>11, <2>12 DEF Atomic!Attest
  <2> QED BY <2>13 DEF Atomic!Next
<1>8. ASSUME NEW c \in Call, Close(c) PROVE Atomic!Next
  <2>1. /\ pc[c] = "close" /\ lines' = lines /\ failed' = failed
        /\ pc' = [pc EXCEPT ![c] = IF failed[c] THEN "raised" ELSE "returned"]
    BY <1>8 DEF Close, Leave, GoTo, fileVars
  <2>2. CASE failed[c]
    <3>1. /\ \A d \in Call : Outcome(d)' = IF d = c THEN "raised" ELSE Outcome(d)
          /\ Outcome(c) = "pending"
      BY <2>1, <2>2 DEF Outcome, ChainInv, Typed, TypeOK
    <3> QED BY <1>3, <2>1, <3>1 DEF Atomic!Next, Atomic!Reject
  <2>3. CASE ~ failed[c]
    <3>1. /\ \A d \in Call : Outcome(d)' = IF d = c THEN "returned" ELSE Outcome(d)
          /\ Outcome(c) = "attested"
      BY <2>1, <2>3 DEF Outcome, ChainInv, Typed, TypeOK
    <3> QED BY <1>3, <2>1, <3>1 DEF Atomic!Next, Atomic!Return
  <2> QED BY <2>2, <2>3
<1>9. CASE UNCHANGED <<fileVars, callVars>>
  BY <1>2, <1>9 DEF fileVars, callVars, Outcome
<1>10. ASSUME NEW e \in Emission, CountLines(e) \/ ReadHead(e)
       PROVE  UNCHANGED Atomic!vars
  BY <1>9, <1>10, <1>2 DEF CountLines, Count, ReadHead, fileVars, callVars, Outcome
<1>11. CASE UNCHANGED vars
  BY <1>2, <1>11 DEF vars, Outcome
<1> QED BY <1>4, <1>5, <1>6, <1>7, <1>8, <1>10, <1>11 DEF Next, Step, Idle

(* With no failure, append implements the atomic log: a record is in the   *)
(* log all at once, behind all before it, and a receipt comes after it.    *)
THEOREM AppendIsAtomic == Spec => ImplementsAtomicLog
<1>1. Init => Atomic!Init
  BY DEF Init, Atomic!Init, Outcome
<1> QED BY <1>1, ChainInit, ChainStep, AtomicStep, PTL
        DEF Spec, ImplementsAtomicLog, Atomic!Spec
-----------------------------------------------------------------------------
(* Without failures: the tree heads emit_sth signs *)

(* The hash of a record is as long as its position is far in the log. *)
HashLengths(ls) == \A i \in 1..Len(ls) : Len(ls[i].prev_hash) = i - 1

(* The head of the log when its first n lines were all there was. *)
HeadOf(n) == IF n = 0 THEN ZERO_HASH ELSE EntryHash(Seen[n])

(* The line a signed head is of, which was there when it was signed. *)
HeadAt(e, n) ==
    /\ n \in emission[e].lines_read..Len(Seen)
    /\ n # 0 => Seen[n] \in SignedRecord
    /\ emission[e].head_hash = HeadOf(n)
    /\ Len(emission[e].head_hash) = n

HeadInv == /\ HashLengths(lines)
           /\ \A e \in Emission : emission[e].lines_read <= Len(lines)
           /\ \A e \in Signed : \E n \in Nat : HeadAt(e, n)

-----------------------------------------------------------------------------
(* The head hash of a log of records has a link for each of them. *)
LEMMA HeadLength ==
    ASSUME NEW ls \in Seq(SignedRecord), HashLengths(ls)
    PROVE  /\ HeadHash(LastRecord(ls)) = IF Len(ls) = 0 THEN ZERO_HASH ELSE EntryHash(ls[Len(ls)])
           /\ Len(HeadHash(LastRecord(ls))) = Len(ls)
<1>1. CASE ls = << >>
  BY <1>1, LastOfRecords DEF HeadHash, ZERO_HASH
<1>2. CASE ls # << >>
  <2> DEFINE r == ls[Len(ls)]
             link == [seq |-> r.seq, call |-> r.call, signer |-> r.signer]
  <2>1. Len(ls) \in Nat /\ Len(ls) > 0 /\ r \in SignedRecord
    BY <1>2, EmptySeq, ElementOfSeq
  <2>2. LastRecord(ls) = r /\ r # NoRecord
    BY <1>2, <2>1, LastOfRecords, RecordAssumption DEF Line
  <2>3. link \in Link /\ r.prev_hash \in Seq(Link) /\ Len(r.prev_hash) = Len(ls) - 1
    <3>1. Len(r.prev_hash) = Len(ls) - 1
      BY <2>1 DEF HashLengths
    <3>2. link \in Link /\ r.prev_hash \in Seq(Link)
      <4> HIDE DEF r
      <4> QED BY <2>1 DEF SignedRecord, Link, Hash
    <3> QED BY <3>1, <3>2
  <2>4. Len(Append(r.prev_hash, link)) = Len(ls)
    <3> HIDE DEF r, link
    <3> QED BY <2>1, <2>3, AppendProperties
  <2> QED BY <2>1, <2>2, <2>4 DEF HeadHash, EntryHash
<1> QED BY <1>1, <1>2

(* What follows the last newline is of the call that holds the flock: its  *)
(* whole record, or nothing a reader can parse.                            *)
LEMMA TailOfWriter ==
    ASSUME ChainInv, tail # << >>
    PROVE  \E c \in Call : pc[c] = "write" /\ Parse(tail) \in {draft[c]} \cup Junk
<1>1. PICK c \in Call : pc[c] = "write"
  BY DEF ChainInv, TailInHand
<1> DEFINE f == Front(draft[c], unwritten[c])
<1>2. tail = <<f>>
  BY <1>1 DEF ChainInv, TailInHand, TailOf, Begun
<1>3. Len(tail) = 1 /\ tail[1] = f /\ f.record = draft[c]
  BY <1>2 DEF Front
<1>4. Parse(tail) \in {draft[c]} \cup Junk
  <2> HIDE DEF f
  <2> QED BY <1>3 DEF Parse, Junk
<1> QED BY <1>1, <1>4

(* The file grows by pieces after its last newline or by the record of the *)
(* call that holds the flock.                                              *)
LEMMA FileSteps ==
    ASSUME ChainInv, [Next]_vars
    PROVE  \/ UNCHANGED <<lines, tail>>
           \/ tail = << >> /\ lines' = lines
           \/ \E c \in Call : /\ pc[c] = "write"
                              /\ lines' = Append(lines, draft[c]) /\ tail' = << >>
<1>1. ASSUME NEW c \in Call, WriteFront(c) PROVE tail = << >> /\ lines' = lines
  BY <1>1 DEF WriteFront, Write, ChainInv, TailInHand, TailOf, Begun
<1>2. ASSUME NEW c \in Call, WriteRest(c)
      PROVE  pc[c] = "write" /\ lines' = Append(lines, draft[c]) /\ tail' = << >>
  <2>1. /\ pc[c] = "write" /\ tail = Begun(draft[c], unwritten[c])
        /\ draft[c] \in SignedRecord /\ unwritten[c] \in {"all"} \cup Cut
    BY <1>2 DEF WriteRest, ChainInv, Typed, TypeOK, TailInHand, TailOf
  <2> QED BY <1>2, <2>1, ParseOwn DEF WriteRest, Write
<1>3. ASSUME NEW c \in Call, \/ Begin(c) \/ TakeWriteLock(c) \/ TakeFlock(c) \/ Scan(c)
                             \/ Sync(c) \/ Unlock(c) \/ Close(c)
      PROVE  UNCHANGED <<lines, tail>>
  BY <1>3 DEF Begin, TakeWriteLock, TakeFlock, Scan, Build, Sync, Unlock, Close, fileVars
<1>4. ASSUME NEW e \in Emission, CountLines(e) \/ ReadHead(e)
      PROVE  UNCHANGED <<lines, tail>>
  BY <1>4 DEF CountLines, Count, ReadHead, fileVars
<1> QED BY <1>1, <1>2, <1>3, <1>4 DEF Next, Step, Idle, vars

(* What a reader sees: the lines, and one more when there is a tail. *)
SeenLines ==
    /\ Len(lines) \in Nat /\ Len(Seen) \in Nat /\ Len(lines) <= Len(Seen)
    /\ \A i \in 1..Len(lines) : Seen[i] = lines[i] /\ Seen[i] \in SignedRecord
    /\ tail = << >> => Seen = lines
    /\ tail # << >> => Len(Seen) = Len(lines) + 1 /\ Seen[Len(Seen)] = Parse(tail)

(* A reader sees every line whole, and what is being written. *)
LEMMA SeenIsLines == ChainInv => SeenLines
<1> SUFFICES ASSUME ChainInv PROVE SeenLines
  OBVIOUS
<1> USE DEF SeenLines
<1>1. lines \in Seq(Line) /\ tail \in Seq(Fragment) /\ lines \in Seq(SignedRecord)
  BY DEF ChainInv, Typed, TypeOK
<1>2. \A i \in 1..Len(lines) : lines[i] \in SignedRecord
  BY <1>1, ElementOfSeq
<1>3. CASE tail = << >>
  BY <1>1, <1>2, <1>3, LenProperties DEF Seen
<1>4. CASE tail # << >>
  <2>1. Parse(tail) \in Line /\ Seen = Append(lines, Parse(tail))
    BY <1>1, <1>4, ParseType DEF Seen
  <2> QED BY <1>1, <1>2, <1>4, <2>1, AppendProperties, LenProperties
<1> QED BY <1>3, <1>4

(* A record that a reader has seen stays the line it was. *)
LEMMA SeenGrows ==
    ASSUME ChainInv, ChainInv', [Next]_vars,
           NEW n \in 1..Len(Seen), Seen[n] \in SignedRecord
    PROVE  n \in 1..Len(Seen') /\ Seen'[n] = Seen[n]
<1>1. SeenLines /\ SeenLines'
  BY SeenIsLines, PTL
<1> USE <1>1 DEF SeenLines
<1>2. CASE UNCHANGED <<lines, tail>>
  BY <1>2 DEF Seen
<1>3. CASE tail = << >> /\ lines' = lines
  BY <1>3
<1>4. ASSUME NEW c \in Call, pc[c] = "write", lines' = Append(lines, draft[c]), tail' = << >>
      PROVE  n \in 1..Len(Seen') /\ Seen'[n] = Seen[n]
  <2>1. draft[c] \in SignedRecord /\ lines \in Seq(SignedRecord)
    BY <1>4 DEF ChainInv, Typed, TypeOK, DraftsFollow
  <2>2. /\ Len(lines') = Len(lines) + 1 /\ lines'[Len(lines) + 1] = draft[c]
        /\ \A i \in 1..Len(lines) : lines'[i] = lines[i]
    BY <1>4, <2>1, AppendProperties
  <2>3. CASE n \in 1..Len(lines)
    BY <2>2, <2>3
  <2>4. CASE n = Len(lines) + 1
    <3>1. tail # << >> /\ Seen[n] = Parse(tail)
      BY <2>4
    <3>2. PICK d \in Call : pc[d] = "write" /\ Parse(tail) \in {draft[d]} \cup Junk
      BY <3>1, TailOfWriter
    <3>3. d = c
      BY <1>4, <3>2 DEF ChainInv, FlockExclusive, Holding
    <3>4. Seen[n] = draft[c]
      BY <3>1, <3>2, <3>3, JunkAssumption
    <3> QED BY <2>2, <2>4, <3>4
  <2> QED BY <2>3, <2>4
<1> QED BY <1>2, <1>3, <1>4, FileSteps

-----------------------------------------------------------------------------
(* Nothing is signed yet. *)
LEMMA HeadInit == Init => HeadInv
<1> SUFFICES ASSUME Init PROVE HeadInv
  OBVIOUS
<1>1. lines = << >> /\ HashLengths(lines)
  BY DEF Init, HashLengths
<1>2. \A e \in Emission : emission[e].at = "idle" /\ emission[e].lines_read = 0
  BY DEF Init, Unread
<1> QED BY <1>1, <1>2 DEF HeadInv, Signed

(* A signed head stays that of its line, whatever is appended. *)
LEMMA HeadKept ==
    ASSUME ChainInv, ChainInv', [Next]_vars, NEW e \in Emission, NEW n \in Nat,
           HeadAt(e, n), emission'[e] = emission[e], emission[e].lines_read \in Nat
    PROVE  HeadAt(e, n)'
<1>1. SeenLines /\ SeenLines'
  BY SeenIsLines, PTL
<1>2. n # 0 => n \in 1..Len(Seen') /\ Seen'[n] = Seen[n]
  BY <1>1, SeenGrows DEF SeenLines, HeadAt
<1>3. HeadOf(n)' = HeadOf(n)
  BY <1>2 DEF HeadOf, EntryHash, ZERO_HASH
<1> QED BY <1>1, <1>2, <1>3 DEF HeadAt, SeenLines

(* Each record commits to as many links as there are lines before it. *)
LEMMA LengthsStep == ChainInv /\ [Next]_vars /\ HashLengths(lines) => HashLengths(lines')
<1> SUFFICES ASSUME ChainInv, [Next]_vars, HashLengths(lines) PROVE HashLengths(lines')
  OBVIOUS
<1>1. ASSUME NEW c \in Call, pc[c] = "write", lines' = Append(lines, draft[c])
      PROVE  HashLengths(lines')
  <2>1. /\ lines \in Seq(SignedRecord) /\ draft[c] \in SignedRecord
        /\ draft[c] = NewRecord(LastRecord(lines), c, KeyOf[LogOf[c]])
    BY <1>1 DEF ChainInv, Typed, TypeOK, DraftsFollow
  <2>2. Len(draft[c].prev_hash) = Len(lines)
    BY <2>1, HeadLength DEF NewRecord
  <2>3. /\ Len(lines') = Len(lines) + 1 /\ lines'[Len(lines) + 1] = draft[c]
        /\ \A i \in 1..Len(lines) : lines'[i] = lines[i]
        /\ Len(lines) \in Nat
    BY <1>1, <2>1, AppendProperties, LenProperties
  <2>4. ASSUME NEW i \in 1..Len(lines') PROVE Len(lines'[i].prev_hash) = i - 1
    <3>1. CASE i \in 1..Len(lines)
      BY <2>3, <3>1 DEF HashLengths
    <3>2. CASE i = Len(lines) + 1
      BY <2>2, <2>3, <3>2
    <3> QED BY <2>3, <3>1, <3>2
  <2> QED BY <2>4 DEF HashLengths
<1>2. CASE lines' = lines
  BY <1>2
<1> QED BY <1>1, <1>2, FileSteps

(* What a reader sees that finds no junk is a log with its lengths. *)
LEMMA SeenRecords ==
    ASSUME ChainInv, HashLengths(lines), \A i \in 1..Len(Seen) : Seen[i] \notin Junk
    PROVE  Seen \in Seq(SignedRecord) /\ HashLengths(Seen)
<1>1. SeenLines
  BY SeenIsLines
<1>2. CASE tail = << >>
  BY <1>1, <1>2 DEF SeenLines, ChainInv
<1>3. CASE tail # << >>
  <2>1. PICK c \in Call : pc[c] = "write" /\ Parse(tail) \in {draft[c]} \cup Junk
    BY <1>3, TailOfWriter
  <2>2. Seen[Len(Seen)] = draft[c] /\ Len(Seen) = Len(lines) + 1
    BY <1>1, <1>3, <2>1 DEF SeenLines
  <2>3. /\ lines \in Seq(SignedRecord) /\ draft[c] \in SignedRecord
        /\ draft[c] = NewRecord(LastRecord(lines), c, KeyOf[LogOf[c]])
    BY <2>1 DEF ChainInv, Typed, TypeOK, DraftsFollow
  <2>4. Len(draft[c].prev_hash) = Len(lines)
    BY <2>3, HeadLength DEF NewRecord
  <2>5. HashLengths(Seen)
    <3>1. ASSUME NEW i \in 1..Len(Seen) PROVE Len(Seen[i].prev_hash) = i - 1
      <4>1. CASE i \in 1..Len(lines)
        BY <1>1, <4>1 DEF SeenLines, HashLengths
      <4>2. CASE i = Len(Seen)
        BY <1>1, <2>2, <2>4, <4>2 DEF SeenLines
      <4> QED BY <1>1, <2>2, <4>1, <4>2 DEF SeenLines
    <3> QED BY <3>1 DEF HashLengths
  <2>6. Seen \in Seq(SignedRecord)
    <3>1. Seen = Append(lines, Parse(tail))
      BY <1>3 DEF Seen
    <3>2. Parse(tail) = draft[c]
      BY <1>1, <1>3, <2>2 DEF SeenLines
    <3> QED BY <2>3, <3>1, <3>2, AppendProperties
  <2> QED BY <2>5, <2>6
<1> QED BY <1>2, <1>3

(* A head that is signed is that of the last line there is. *)
LEMMA HeadSigned ==
    ASSUME ChainInv, HeadInv, NEW e \in Emission, ReadHead(e), emission'[e].at = "signed"
    PROVE  \E n \in Nat : HeadAt(e, n)'
<1>1. SeenLines
  BY SeenIsLines
<1>2. lines' = lines /\ tail' = tail /\ Seen' = Seen
  BY DEF ReadHead, fileVars, Seen
<1>3. \A i \in 1..Len(Seen) : Seen[i] \notin Junk
  BY DEF ReadHead, Unread, ChainInv, Typed, TypeOK
<1>4. Seen \in Seq(SignedRecord) /\ HashLengths(Seen)
  BY <1>3, SeenRecords DEF HeadInv
<1>5. /\ emission'[e].head_hash = HeadHash(LastRecord(Seen))
      /\ emission'[e].lines_read = emission[e].lines_read
  BY <1>3 DEF ReadHead, ChainInv, Typed, TypeOK
<1>6. Seen # << >> => Seen[Len(Seen)] \in SignedRecord
  BY <1>1, <1>4, EmptySeq, ElementOfSeq DEF SeenLines
<1>7. Len(Seen) # 0 => Seen # << >>
  OBVIOUS
<1>8. /\ emission'[e].head_hash = HeadOf(Len(Seen))
      /\ Len(emission'[e].head_hash) = Len(Seen)
  BY <1>4, <1>5, HeadLength DEF HeadOf
<1>9. emission[e].lines_read \in Nat /\ emission[e].lines_read <= Len(Seen)
  BY <1>1 DEF SeenLines, HeadInv, ChainInv, Typed, TypeOK
<1>10. HeadOf(Len(Seen))' = HeadOf(Len(Seen))
  BY <1>2 DEF HeadOf, EntryHash, ZERO_HASH
<1>11. HeadAt(e, Len(Seen))'
  BY <1>1, <1>2, <1>5, <1>6, <1>7, <1>8, <1>9, <1>10 DEF HeadAt, SeenLines
<1>12. Len(Seen)' = Len(Seen) /\ Len(Seen) \in Nat
  BY <1>1, <1>2 DEF SeenLines
<1> QED BY <1>11, <1>12

(* Counting moves the scan no further than the lines there are. *)
LEMMA HeadStep == ChainInv /\ HeadInv /\ ChainInv' /\ [Next]_vars => HeadInv'
<1> SUFFICES ASSUME ChainInv, HeadInv, ChainInv', [Next]_vars PROVE HeadInv'
  OBVIOUS
<1> USE DEF HeadInv
<1>1. HashLengths(lines')
  BY LengthsStep
<1>2. Len(lines) \in Nat /\ Len(lines') \in Nat /\ Len(lines) <= Len(lines')
  <2>1. lines \in Seq(SignedRecord) /\ \A c \in Call : pc[c] = "write" => draft[c] \in SignedRecord
    BY DEF ChainInv, Typed, TypeOK
  <2>2. ASSUME NEW c \in Call, pc[c] = "write", lines' = Append(lines, draft[c])
        PROVE  Len(lines) \in Nat /\ Len(lines') = Len(lines) + 1
    BY <2>1, <2>2, AppendProperties, LenProperties
  <2>3. CASE lines' = lines
    BY <2>1, <2>3, LenProperties
  <2> QED BY <2>2, <2>3, FileSteps
<1>3. \A e \in Emission : emission[e].lines_read \in Nat
  BY DEF ChainInv, Typed, TypeOK
<1>4. ASSUME NEW e \in Emission, emission'[e] = emission[e]
      PROVE  /\ emission'[e].lines_read <= Len(lines')
             /\ emission'[e].at = "signed" => \E n \in Nat : HeadAt(e, n)'
  BY <1>2, <1>3, <1>4, HeadKept DEF Signed
<1>5. ASSUME NEW e \in Emission, CountLines(e) \/ ReadHead(e), emission'[e] # emission[e]
      PROVE  /\ emission'[e].lines_read <= Len(lines')
             /\ emission'[e].at = "signed" => \E n \in Nat : HeadAt(e, n)'
  <2>1. CASE CountLines(e)
    <3> DEFINE read == emission[e].lines_read
               before == IF emission[e].at = "idle" THEN 0 ELSE emission[e].chain_length
    <3>1. emission'[e].lines_read \in {0, read, Len(lines)} /\ emission'[e].at # "signed"
      <4>1. CASE emission' = [emission EXCEPT ![e] = Unread("raised")]
        BY <4>1 DEF Unread, ChainInv, Typed, TypeOK
      <4>2. CASE emission' = [emission EXCEPT ![e].at = "counted", ![e].chain_length = before,
                                              ![e].tail_read = << >>]
        <5> HIDE DEF before
        <5> QED BY <4>2 DEF ChainInv, Typed, TypeOK
      <4>3. ASSUME NEW n, emission' = [emission EXCEPT ![e].at = "counting",
                                          ![e].chain_length = n,
                                          ![e].lines_read = Len(lines), ![e].tail_read = tail]
            PROVE  emission'[e].lines_read = Len(lines) /\ emission'[e].at = "counting"
        BY <4>3 DEF ChainInv, Typed, TypeOK
      <4> QED BY <2>1, <4>1, <4>2, <4>3 DEF CountLines, Count
    <3>2. lines' = lines
      BY <2>1 DEF CountLines, Count, fileVars
    <3> QED BY <1>2, <1>3, <3>1, <3>2
  <2>2. CASE ReadHead(e)
    <3>1. emission'[e].lines_read \in {0, emission[e].lines_read}
      BY <2>2 DEF ReadHead, Unread, ChainInv, Typed, TypeOK
    <3> QED BY <1>2, <1>3, <2>2, <3>1, HeadSigned
  <2> QED BY <1>5, <2>1, <2>2
<1>6. \A e \in Emission : emission'[e] = emission[e] \/ CountLines(e) \/ ReadHead(e)
  <2>1. ASSUME NEW f \in Emission, CountLines(f) \/ ReadHead(f)
        PROVE  \A e \in Emission : e # f => emission'[e] = emission[e]
    BY <2>1 DEF CountLines, Count, ReadHead, ChainInv, Typed, TypeOK
  <2>2. ASSUME NEW c \in Call, Begin(c) \/ Step(c) PROVE emission' = emission
    BY <2>2 DEF Begin, Step, TakeWriteLock, TakeFlock, Scan, Build, WriteFront, WriteRest,
                Sync, Unlock, Close, Leave
  <2> QED BY <2>1, <2>2 DEF Next, Idle, vars
<1>7. ASSUME NEW e \in Emission
      PROVE  /\ emission'[e].lines_read <= Len(lines')
             /\ emission'[e].at = "signed" => \E n \in Nat : HeadAt(e, n)'
  BY <1>4, <1>5, <1>6
<1> QED BY <1>1, <1>7 DEF Signed

(* What a reader saw up to a record that is whole ends with that record. *)
LEMMA PrefixHead ==
    ASSUME ChainInv, NEW e \in Emission, NEW n \in Nat, HeadAt(e, n)
    PROVE  HeadOf(n) = HeadHash(LastRecord(SubSeq(Seen, 1, n)))
<1> DEFINE before == SubSeq(Seen, 1, n)
<1>1. SeenLines /\ n <= Len(Seen)
  BY SeenIsLines DEF HeadAt
<1>2. \A i \in 1..n : Seen[i] \in SignedRecord
  BY <1>1 DEF SeenLines, HeadAt
<1>3. /\ before \in Seq(SignedRecord) /\ Len(before) = n
      /\ \A i \in 1..n : before[i] = Seen[i]
  BY <1>1, <1>2, SubSeqProperties
<1>4. CASE n = 0
  <2>1. before = << >>
    BY <1>3, <1>4, EmptySeq
  <2> QED BY <1>3, <1>4, <2>1, LastOfRecords DEF HeadOf, HeadHash
<1>5. CASE n # 0
  <2>1. before # << >> /\ before[n] = Seen[n] /\ Seen[n] \in SignedRecord
    <3>1. n \in 1..n
      BY <1>5
    <3>2. before # << >>
      BY <1>3, <1>5
    <3> QED BY <1>2, <1>3, <3>1, <3>2
  <2>2. LastRecord(before) = Seen[n] /\ Seen[n] # NoRecord
    BY <1>3, <2>1, LastOfRecords, RecordAssumption DEF Line
  <2> QED BY <1>5, <2>2 DEF HeadOf, HeadHash
<1> QED BY <1>4, <1>5

(* HeadInv holds beside ChainInv. *)
LEMMA HeadInvariance == Spec => [](ChainInv /\ HeadInv)
BY ChainInit, ChainStep, HeadInit, HeadStep, PTL DEF Spec

(* With no failure, a signed tree head names a head the log has had since  *)
(* its lines were counted.                                                 *)
THEOREM HeadsAreFresh == Spec => []TreeHeadsFresh
<1>1. ChainInv /\ HeadInv => TreeHeadsFresh
  <2> SUFFICES ASSUME ChainInv, HeadInv, NEW e \in Signed
               PROVE  \E n \in emission[e].lines_read..Len(Seen) :
                          emission[e].head_hash = HeadHash(LastRecord(SubSeq(Seen, 1, n)))
    BY DEF TreeHeadsFresh
  <2>1. PICK n \in Nat : HeadAt(e, n)
    BY DEF HeadInv
  <2> QED BY <2>1, PrefixHead DEF HeadAt, Signed
<1> QED BY <1>1, HeadInvariance, PTL

(* With no failure, two tree heads that each name the head of the length   *)
(* they state never accuse the server: the one wrong pair emit_sth signs   *)
(* is that of an append between its two scans.                             *)
THEOREM SettledHeadsNeverAccuse == Spec => []SettledHeadsAgree
<1>1. HeadInv => SettledHeadsAgree
  <2> SUFFICES ASSUME HeadInv, NEW e \in Signed, NEW f \in Signed, Settled(e), Settled(f),
                      emission[e].chain_length = emission[f].chain_length
               PROVE  emission[e].head_hash = emission[f].head_hash
    BY DEF SettledHeadsAgree
  <2>1. PICK n \in Nat : HeadAt(e, n)
    BY DEF HeadInv
  <2>2. PICK m \in Nat : HeadAt(f, m)
    BY DEF HeadInv
  <2>3. n = m
    BY <2>1, <2>2 DEF HeadAt, Settled
  <2> QED BY <2>1, <2>2, <2>3 DEF HeadAt
<1> QED BY <1>1, HeadInvariance, PTL
=============================================================================
