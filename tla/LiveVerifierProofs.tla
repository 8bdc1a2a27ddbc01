------------------------- MODULE LiveVerifierProofs -------------------------
(* What verify_chain says of a log that is being appended to, for any      *)
(* number of calls and processes.                                          *)
EXTENDS LiveVerifier, FailureProofs

-----------------------------------------------------------------------------
(* Stops: where the record of a receipt is *)

(* The record of c is a line of ls, or one that does not parse is. *)
Landed(c, ls) == \E i \in 1..Len(ls) : ls[i] = draft[c] \/ ls[i] \in Junk

(* A record that was written for c is in the file, and on the disk once it *)
(* is synced, unless it was written behind what a crash had left.          *)
LandedInv ==
    /\ \A c \in Call : pc[c] = "sync" \/ Synced(c) => Landed(c, lines)
    /\ \A c \in Call : Synced(c) => \A image \in images : Landed(c, image.lines)

LogInv == StopInv /\ DurableInv /\ LandedInv

(* No call has begun. *)
LEMMA LogInit == Init => LogInv
<1>1. Init => LandedInv
  BY DEF Init, LandedInv, Synced
<1> QED BY <1>1, StopInit, DurableInit DEF LogInv

(* As long as the lines stay, so does what has landed in them. *)
LEMMA LandedStays ==
    ASSUME NEW c, NEW ls, NEW more, Len(ls) \in Nat, Len(more) \in Nat, Len(ls) <= Len(more),
           \A i \in 1..Len(ls) : more[i] = ls[i], draft'[c] = draft[c], Landed(c, ls)
    PROVE  \E i \in 1..Len(more) : more[i] = draft'[c] \/ more[i] \in Junk
BY DEF Landed

(* A call that is at "sync" or past it, and did not fail, was so before,   *)
(* or has written its record; only the sync makes it synced.               *)
LEMMA SyncedSteps ==
    ASSUME Typed, [Next \/ Stop]_vars, NEW c \in Call, pc'[c] = "sync" \/ Synced(c)'
    PROVE  /\ WriteRest(c) \/ (pc[c] = "sync" \/ Synced(c))
           /\ Synced(c)' => Synced(c) \/ Sync(c)
           /\ draft'[c] = draft[c]
<1> USE DEF Typed, TypeOK
<1>1. ASSUME NEW d \in Call, Begin(d) \/ Step(d), d # c
      PROVE  pc'[c] = pc[c] /\ failed'[c] = failed[c] /\ draft'[c] = draft[c]
  BY <1>1 DEF Begin, Step, TakeWriteLock, TakeFlock, Scan, Build, WriteFront, WriteRest, Sync,
              Unlock, Close, Leave, GoTo
<1>2. CASE Begin(c) \/ TakeWriteLock(c) \/ TakeFlock(c) \/ Scan(c) \/ WriteFront(c)
  BY <1>2 DEF Begin, TakeWriteLock, TakeFlock, Scan, Build, WriteFront, GoTo, Synced
<1>3. CASE WriteRest(c) \/ Sync(c) \/ Unlock(c) \/ Close(c)
  BY <1>3 DEF WriteRest, Sync, Unlock, Close, Leave, GoTo, Synced
<1>4. CASE Stop
  <2>1. pc'[c] # "dead"
    BY DEF Synced
  <2>2. pc'[c] = pc[c] /\ failed'[c] = failed[c] /\ draft'[c] = draft[c]
    BY <1>4, <2>1 DEF Stop, PowerLoss, Crash, Kill
  <2> QED BY <2>2 DEF Synced
<1>5. CASE UNCHANGED <<pc, draft, failed>>
  BY <1>5 DEF Synced
<1> QED BY <1>1, <1>2, <1>3, <1>4, <1>5
        DEF Next, Step, CountLines, Count, ReadHead, callVars, Idle, vars, Synced

(* A power loss leaves on the disk what was synced; no other step takes a  *)
(* line away.                                                              *)
LEMMA LandedStep == LogInv /\ [Next \/ Stop]_vars => LandedInv'
<1> SUFFICES ASSUME LogInv, [Next \/ Stop]_vars PROVE LandedInv'
  OBVIOUS
<1> USE DEF LogInv, StopInv
<1>1. ASSUME NEW c \in Call, Synced(c), Synced(c)' PROVE \A image \in images' : Landed(c, image.lines)'
  <2> SUFFICES ASSUME NEW image \in images' PROVE Landed(c, image.lines)'
    OBVIOUS
  <2>1. draft'[c] = draft[c]
    BY <1>1, SyncedSteps
  <2>2. CASE image \in images
    BY <1>1, <2>1, <2>2 DEF LandedInv, Landed
  <2>3. CASE image = Image(lines', tail') /\ ~ PowerLoss
    <3>1. /\ Len(lines) \in Nat /\ Len(lines') \in Nat /\ Len(lines) <= Len(lines')
          /\ \A i \in 1..Len(lines) : lines'[i] = lines[i]
      BY <2>3, LinesGrow DEF Stop
    <3>2. Landed(c, lines)
      BY <1>1 DEF LandedInv
    <3>3. Landed(c, lines)'
      BY <2>1, <3>1, <3>2, LandedStays DEF Landed
    <3> QED BY <2>3, <3>3 DEF Image
  <2>4. PowerLoss => images' \subseteq images
    BY DEF PowerLoss
  <2>5. ASSUME NEW d \in Call, Sync(d) PROVE images' = {Image(lines', tail')}
    BY <2>5 DEF Sync
  <2> QED BY <2>2, <2>3, <2>4, <2>5, ImageSteps
<1>2. ASSUME NEW c \in Call, pc'[c] = "sync" \/ Synced(c)' PROVE Landed(c, lines)'
  <2>1. draft'[c] = draft[c]
    BY <1>2, SyncedSteps
  <2>2. CASE WriteRest(c)
    <3>1. pc[c] = "write" /\ unwritten[c] # "none"
      BY <2>2 DEF WriteRest, Typed
    <3>2. Behind(c)
      BY <3>1 DEF WritesBehind
    <3>3. PICK line \in {draft[c]} \cup Junk : line \in Line /\ lines' = Append(lines, line)
      BY <2>2, <3>1, <3>2, RestWritten DEF WriteRest
    <3>4. Len(lines') \in 1..Len(lines') /\ lines'[Len(lines')] = line
      BY <3>3, AppendProperties, LenProperties DEF Typed, TypeOK
    <3> QED BY <2>1, <3>3, <3>4 DEF Landed
  <2>3. CASE PowerLoss
    <3>1. PICK image \in images : lines' = image.lines
      BY <2>3 DEF PowerLoss
    <3>2. pc'[c] = "returned" /\ pc[c] = "returned"
      BY <1>2, <2>3, KeyType DEF PowerLoss, Kill, InFlight, Finished, Synced, Typed, TypeOK
    <3>3. Landed(c, image.lines)
      BY <3>2 DEF LandedInv, Synced
    <3> QED BY <2>1, <3>1, <3>3 DEF Landed
  <2>4. CASE ~ PowerLoss /\ (pc[c] = "sync" \/ Synced(c))
    <3>1. /\ Len(lines) \in Nat /\ Len(lines') \in Nat /\ Len(lines) <= Len(lines')
          /\ \A i \in 1..Len(lines) : lines'[i] = lines[i]
      BY <2>4, LinesGrow DEF Stop
    <3>2. Landed(c, lines)
      BY <2>4 DEF LandedInv
    <3> QED BY <2>1, <3>1, <3>2, LandedStays DEF Landed
  <2> QED BY <1>2, <2>2, <2>3, <2>4, SyncedSteps
<1>3. ASSUME NEW c \in Call, Synced(c)', ~ Synced(c) PROVE \A image \in images' : Landed(c, image.lines)'
  <2>1. Sync(c)
    BY <1>3, SyncedSteps
  <2>2. images' = {Image(lines', tail')}
    BY <2>1 DEF Sync
  <2>3. Landed(c, lines)'
    BY <1>2, <1>3
  <2> QED BY <2>2, <2>3 DEF Image
<1> QED BY <1>1, <1>2, <1>3 DEF LandedInv

(* The three together are kept by every step and stop. *)
LEMMA LogStep == LogInv /\ [Next \/ Stop]_vars => LogInv'
BY StopStep, DurableStep, LandedStep DEF LogInv

-----------------------------------------------------------------------------
(* What the verifier reads *)

(* The log's step, a stop of some of it, or a step of the verifier. *)
LEMMA LiveSteps ==
    ASSUME [LiveNext \/ LiveStop]_liveVars
    PROVE  /\ [Next \/ Stop]_vars
           /\ \/ Verify \/ Read \/ Check
              \/ ([Next]_vars \/ \E l \in Log : Crash(l)) /\ UNCHANGED verifierVars
              \/ PowerLoss /\ Restart
BY DEF LiveNext, LiveStop, liveVars, verifierVars, Stop, Verify, Read, Check, logVars

(* A reader makes a line of whatever it is given. *)
LEMMA ParseAny == \A text \in Seq(Fragment) : Parse(text) \in Line
<1>1. Parse(<< >>) \in Line
  BY DEF Parse, Whole, Line, Junk
<1> QED BY <1>1, ParseType

(* A text that parses to a record is whole. *)
LEMMA ParsedIsWhole ==
    ASSUME NEW text \in Seq(Fragment), Parse(text) \notin Junk
    PROVE  Whole(text)
BY DEF Parse, Junk

PositionType == [lines : Seq(Line), tail : Seq(Fragment)]

(* How far the verifier is in the log, and what it has found in order. *)
ReadInv ==
    /\ file \in Seq(Line)
    /\ position \in PositionType
    /\ Len(position.lines) <= Len(lines)
    /\ checked \in 0..Len(file)
    /\ \A i \in 1..checked : file[i] \notin Junk

(* What comes behind a line that was read without its newline. *)
LEMMA RestOfLineType ==
    ASSUME Typed, ReadInv
    PROVE  RestOfLine \subseteq Seq(Line)
<1> DEFINE part == position.tail
           read == Len(position.lines)
           found == Append(SubSeq(lines, 1, read), Parse(part))
<1>1. /\ lines \in Seq(Line) /\ tail \in Seq(Fragment)
      /\ part \in Seq(Fragment) /\ read \in Nat /\ Len(part) \in Nat
      /\ read <= Len(lines) /\ Len(lines) \in Nat
  BY LenProperties DEF Typed, TypeOK, ReadInv, PositionType
<1>2. Parse(SubSeq(tail, Len(part) + 1, Len(tail))) \in Line
  <2>1. \A i \in Len(part) + 1..Len(tail) : tail[i] \in Fragment
    BY <1>1, LenProperties, ElementOfSeq
  <2>2. SubSeq(tail, Len(part) + 1, Len(tail)) \in Seq(Fragment)
    BY <1>1, <2>1, LenProperties, SubSeqProperties
  <2> QED BY <2>2, ParseAny
<1>3. \A c \in Call : NewRecord(LastRecord(found), c, PublicKey) \in SignedRecord
  <2>1. \A i \in 1..read : lines[i] \in Line
    BY <1>1, ElementOfSeq
  <2>2. SubSeq(lines, 1, read) \in Seq(Line)
    BY <1>1, <2>1, SubSeqProperties
  <2>3. found \in Seq(Line)
    BY <1>1, <2>2, ParseAny, AppendProperties
  <2> QED BY <2>3, LastRecordType, NewRecordType, OneServerAssumption DEF Signer
<1>4. \A line \in Line : <<line>> \in Seq(Line)
  OBVIOUS
<1>5. Junk \subseteq Line /\ SignedRecord \subseteq Line /\ << >> \in Seq(Line)
  BY DEF Line
<1> HIDE DEF part, read, found
<1> QED BY <1>2, <1>3, <1>4, <1>5 DEF RestOfLine, part, read, found

(* The lines that are read come behind those that were. *)
LEMMA ReadStep ==
    ASSUME Typed, ReadInv, Read
    PROVE  /\ file' \in Seq(Line) /\ Len(file) <= Len(file')
           /\ \A i \in 1..Len(file) : file'[i] = file[i]
           /\ position = Start => \A i \in 1..Len(lines) :
                  Len(file) + i \in 1..Len(file') /\ file'[Len(file) + i] = lines[i]
<1> DEFINE read == Len(position.lines)
           From(n) == SubSeq(Seen, n, Len(Seen))
<1>1. /\ file \in Seq(Line) /\ Len(file) \in Nat /\ read \in Nat
      /\ Seen \in Seq(Line) /\ Len(Seen) \in Nat
  BY SeenType, LenProperties DEF Typed, TypeOK, ReadInv, PositionType
<1>2. \A n \in Nat \ {0} : From(n) \in Seq(Line)
  <2> SUFFICES ASSUME NEW n \in Nat \ {0} PROVE From(n) \in Seq(Line)
    OBVIOUS
  <2>1. \A i \in n..Len(Seen) : Seen[i] \in Line
    BY <1>1, ElementOfSeq
  <2> QED BY <1>1, <2>1, SubSeqProperties
<1>3. ASSUME NEW more \in Seq(Line), file' = file \o more
      PROVE  /\ file' \in Seq(Line) /\ Len(file) <= Len(file')
             /\ \A i \in 1..Len(file) : file'[i] = file[i]
  BY <1>1, <1>3, ConcatProperties, LenProperties
<1>4. CASE position.tail = << >>
  <2>1. file' = file \o From(read + 1)
    BY <1>4 DEF Read
  <2>2. ASSUME position = Start, NEW i \in 1..Len(lines)
        PROVE  Len(file) + i \in 1..Len(file') /\ file'[Len(file) + i] = lines[i]
    <3>1. read = 0 /\ read + 1 = 1 /\ 1 \in Nat \ {0}
      BY <2>2 DEF Start, Image
    <3>2. Len(lines) \in Nat /\ i <= Len(Seen) /\ Seen[i] = lines[i]
      BY <2>2, ParseType, LenProperties, AppendProperties DEF Typed, TypeOK, Seen
    <3>3. \A j \in 1..Len(Seen) : Seen[j] \in Line
      BY <1>1, ElementOfSeq
    <3>4. Len(From(1)) = Len(Seen) /\ From(1)[i] = Seen[i]
      BY <1>1, <3>2, <3>3, SubSeqProperties
    <3>5. From(1) \in Seq(Line) /\ file' = file \o From(1)
      BY <1>2, <2>1, <3>1
    <3> HIDE DEF From
    <3> QED BY <1>1, <3>2, <3>4, <3>5, ConcatProperties
  <2>3. From(read + 1) \in Seq(Line)
    BY <1>1, <1>2
  <2> QED BY <1>3, <2>1, <2>2, <2>3
<1>5. CASE position.tail # << >>
  <2>1. PICK rest \in RestOfLine : file' = file \o rest \o From(read + 2)
    BY <1>5 DEF Read
  <2>2. rest \in Seq(Line) /\ From(read + 2) \in Seq(Line)
    BY <1>1, <1>2, RestOfLineType
  <2>3. file' = file \o (rest \o From(read + 2)) /\ rest \o From(read + 2) \in Seq(Line)
    <3> DEFINE more == From(read + 2)
    <3>1. more \in Seq(Line) /\ file' = (file \o rest) \o more
      BY <2>1, <2>2
    <3> HIDE DEF more
    <3>2. (file \o rest) \o more = file \o (rest \o more)
      BY <1>1, <2>2, <3>1, ConcatAssociative
    <3>3. rest \o more \in Seq(Line)
      BY <2>2, <3>1, ConcatProperties
    <3> QED BY <3>1, <3>2, <3>3 DEF more
  <2>4. position # Start
    BY <1>5 DEF Start, Image
  <2> QED BY <1>3, <2>3, <2>4
<1> QED BY <1>4, <1>5

(* What a check of the loop comes to: the next line, or a verdict. *)
LEMMA CheckSteps ==
    ASSUME Check
    PROVE  /\ UNCHANGED <<logVars, file, position, witness>>
           /\ result = V!Running /\ result' # NotBegun
           /\ \/ /\ V!Linked /\ V!Verifies(file[checked + 1])
                 /\ checked < Len(file) /\ file[checked + 1] \notin Junk
                 /\ checked' = checked + 1 /\ expected_prev' = EntryHash(file[checked + 1])
                 /\ result' = result
              \/ /\ UNCHANGED <<checked, expected_prev>>
                 /\ result'.status = "raised"
              \/ /\ UNCHANGED <<checked, expected_prev>>
                 /\ V!SeqMismatch \/ V!PrevHashMismatch \/ V!SignatureInvalid
              \/ /\ UNCHANGED <<checked, expected_prev>>
                 /\ result'.status = "ok" /\ checked = Len(file)
                 /\ position = Image(lines, tail)
<1> USE DEF V!Stop, V!Verdict, V!Running, NotBegun
<1>1. CASE V!Unreadable \/ V!SignatureNotHex
  BY <1>1 DEF Check, V!Unreadable, V!SignatureNotHex, V!Linked, V!AtRecord
<1>2. CASE V!SeqMismatch \/ V!PrevHashMismatch \/ V!SignatureInvalid
  BY <1>2 DEF Check, V!SeqMismatch, V!PrevHashMismatch, V!SignatureInvalid, V!Linked, V!AtRecord
<1>3. CASE V!InOrder
  BY <1>3 DEF Check, V!InOrder, V!Linked, V!AtRecord, V!Current, V!EntryHash, EntryHash,
              V!Junk, Junk
<1>4. CASE position = Image(lines, tail) /\ V!EndOfFile
  BY <1>4 DEF Check, V!EndOfFile
<1> QED BY <1>1, <1>2, <1>3, <1>4 DEF Check, V!Walk

(* From the first read on, the records of the receipts that were out when  *)
(* it began are among the lines that were read.                            *)
WitnessInv ==
    /\ ReadInv
    /\ witness \subseteq Returned
    /\ result = NotBegun => position = Start
    /\ position # Start => \A c \in witness : Landed(c, file)
    /\ result.status = "ok" => checked = Len(file) /\ \A c \in witness : Landed(c, file)

(* Nothing is read. *)
LEMMA WitnessInit == LiveInit => WitnessInv
<1> SUFFICES ASSUME LiveInit PROVE WitnessInv
  OBVIOUS
<1>1. << >> \in Seq(Line) /\ << >> \in Seq(Fragment) /\ Len(<< >>) = 0
  OBVIOUS
<1>2. ReadInv
  BY <1>1 DEF LiveInit, Init, ReadInv, PositionType, Start, Image
<1> QED BY <1>2 DEF LiveInit, WitnessInv, NotBegun, V!Verdict

(* Whoever has a receipt when the verifier begins has its record in the    *)
(* lines that any later read reaches.                                      *)
LEMMA WitnessStep ==
    LogInv /\ WitnessInv /\ [LiveNext \/ LiveStop]_liveVars => WitnessInv'
<1> SUFFICES ASSUME LogInv, WitnessInv, [LiveNext \/ LiveStop]_liveVars PROVE WitnessInv'
  OBVIOUS
<1> USE DEF WitnessInv, LogInv, StopInv
<1>log. [Next \/ Stop]_vars
  BY LiveSteps
<1>out. \A c \in witness : /\ c \in Call /\ Synced(c)
                           /\ c \in Returned' /\ draft'[c] = draft[c]
  BY <1>log, OverIsOver DEF Returned, Synced, Finished
<1>1. CASE Verify
  <2>1. UNCHANGED <<lines, pc, draft, file, position, checked>> /\ position = Start
        /\ result' = V!Running /\ witness' = Returned
    BY <1>1 DEF Verify, logVars, vars
  <2>2. ReadInv' /\ Returned' = Returned
    BY <2>1 DEF ReadInv, Returned
  <2> QED BY <2>1, <2>2 DEF V!Running, NotBegun, V!Verdict
<1>2. CASE Read
  <2>1. /\ UNCHANGED <<lines, tail, pc, draft, checked, result, witness>>
        /\ result = V!Running /\ position' = Image(lines, tail)
    BY <1>2 DEF Read, logVars, vars
  <2>2. /\ file' \in Seq(Line) /\ Len(file) <= Len(file')
        /\ \A i \in 1..Len(file) : file'[i] = file[i]
        /\ position = Start => \A i \in 1..Len(lines) :
               Len(file) + i \in 1..Len(file') /\ file'[Len(file) + i] = lines[i]
    BY <1>2, ReadStep
  <2>3. Len(file) \in Nat /\ Len(file') \in Nat /\ Len(lines) \in Nat
    BY <2>2, LenProperties DEF ReadInv, Typed, TypeOK
  <2>4. ReadInv'
    <3>1. position' \in PositionType /\ Len(position'.lines) <= Len(lines')
      BY <2>1, <2>3 DEF PositionType, Image, Typed, TypeOK
    <3>2. checked' \in 0..Len(file') /\ \A i \in 1..checked' : file'[i] \notin Junk
      <4>1. checked' = checked /\ checked \in 0..Len(file)
        BY <2>1 DEF ReadInv
      <4>2. ASSUME NEW i \in 1..checked PROVE file'[i] \notin Junk
        <5>1. i \in 1..Len(file)
          BY <2>3, <4>1
        <5> QED BY <2>2, <5>1 DEF ReadInv
      <4> QED BY <2>2, <2>3, <4>1, <4>2
    <3> QED BY <2>2, <3>1, <3>2 DEF ReadInv
  <2>5. ASSUME NEW c \in witness PROVE Landed(c, file)'
    <3>1. CASE position = Start
      <4>1. PICK i \in 1..Len(lines) : lines[i] = draft[c] \/ lines[i] \in Junk
        BY <1>out DEF LandedInv, Landed
      <4> QED BY <1>out, <2>2, <3>1, <4>1 DEF Landed
    <3>2. CASE position # Start
      BY <1>out, <2>2, <2>3, <3>2 DEF Landed
    <3> QED BY <3>1, <3>2
  <2>6. witness' \subseteq Returned' /\ result' # NotBegun /\ result'.status # "ok"
    BY <1>out, <2>1 DEF V!Running, NotBegun, V!Verdict
  <2> QED BY <2>1, <2>4, <2>5, <2>6
<1>3. CASE Check
  <2>1. /\ UNCHANGED <<lines, tail, pc, draft, file, position, witness>>
        /\ result = V!Running /\ result' # NotBegun
    BY <1>3, CheckSteps DEF logVars, vars
  <2>2. ReadInv'
    BY <1>3, <2>1, CheckSteps, LenProperties DEF ReadInv
  <2>3. \A c \in Call : Landed(c, file)' <=> Landed(c, file)
    BY <2>1 DEF Landed
  <2>4. ASSUME result'.status = "ok"
        PROVE  checked' = Len(file') /\ \A c \in witness' : Landed(c, file)'
    <3>1. checked' = Len(file') /\ position = Image(lines, tail)
      BY <1>3, <2>1, <2>4, CheckSteps
         DEF V!Running, V!SeqMismatch, V!PrevHashMismatch, V!SignatureInvalid, V!Stop, V!Verdict
    <3>2. ASSUME NEW c \in witness PROVE Landed(c, file)
      <4>1. PICK i \in 1..Len(lines) : TRUE
        BY <1>out DEF LandedInv, Landed
      <4>2. position # Start
        BY <3>1, <4>1 DEF Image, Start
      <4> QED BY <4>2
    <3> QED BY <1>out, <2>1, <2>3, <3>1, <3>2
  <2> QED BY <1>out, <2>1, <2>2, <2>3, <2>4
<1>4. CASE ([Next]_vars \/ \E l \in Log : Crash(l)) /\ UNCHANGED verifierVars
  <2>1. UNCHANGED <<file, position, checked, result, witness>>
    BY <1>4 DEF verifierVars
  <2>2. Len(lines) \in Nat /\ Len(lines') \in Nat /\ Len(lines) <= Len(lines')
    BY <1>4, LinesGrow
  <2>3. ReadInv'
    BY <2>1, <2>2, LenProperties DEF ReadInv, PositionType
  <2>4. \A c \in witness : Landed(c, file) => Landed(c, file)'
    BY <1>out, <2>1 DEF Landed
  <2> QED BY <1>out, <2>1, <2>3, <2>4
<1>5. CASE PowerLoss /\ Restart
  <2>1. << >> \in Seq(Line) /\ << >> \in Seq(Fragment) /\ Len(<< >>) = 0
    OBVIOUS
  <2>2. Typed'
    BY <1>log, StopStep
  <2>3. ReadInv'
    BY <1>5, <2>1, <2>2, LenProperties DEF Restart, ReadInv, PositionType, Start, Image,
       Typed, TypeOK
  <2> QED BY <1>5, <2>3 DEF Restart, NotBegun, V!Verdict
<1> QED BY <1>1, <1>2, <1>3, <1>4, <1>5, LiveSteps

(* Whatever dies or loses power, a log that verify_chain calls good holds  *)
(* the record of every receipt that was out when it began.                 *)
THEOREM ReceiptsAreSeen == LiveSpec => []VerifierSeesReceipts
<1>1. LiveInit => LogInv /\ WitnessInv
  BY LogInit, WitnessInit DEF LiveInit
<1>2. LogInv /\ WitnessInv /\ [LiveNext \/ LiveStop]_liveVars => LogInv' /\ WitnessInv'
  BY LiveSteps, LogStep, WitnessStep
<1>3. WitnessInv => VerifierSeesReceipts
  BY DEF WitnessInv, ReadInv, VerifierSeesReceipts, Landed
<1> QED BY <1>1, <1>2, <1>3, PTL DEF LiveSpec

-----------------------------------------------------------------------------
(* Nobody died: what is read is the log *)

SignedByServer == \A i \in 1..Len(lines) : lines[i].signer = PublicKey

(* The lines that were read are those of the log; one that was read        *)
(* without its newline is so as well, unless it did not parse.             *)
ReadsLog ==
    LET n == Len(position.lines)
        part == position.tail
    IN  /\ \A i \in 1..n : position.lines[i] = lines[i] /\ file[i] = lines[i]
        /\ part = << >> => Len(file) = n
        /\ part # << >> => /\ Len(file) = n + 1 /\ file[n + 1] = Parse(part)
                           /\ n = Len(lines) => part = tail
                           /\ n < Len(lines) => Parse(part) \in {lines[n + 1]} \cup Junk

Progress ==
    /\ ReadInv
    /\ expected_prev = IF checked = 0 THEN ZERO_HASH ELSE EntryHash(file[checked])
    /\ result.status # "failed"

HonestLog == ChainInv /\ SignedByServer /\ DiskHasAll
Honest == HonestLog /\ ReadsLog /\ Progress

-----------------------------------------------------------------------------
(* The key an append signs with is that which the verifier was given. *)
LEMMA WriterSigns ==
    ASSUME ChainInv, NEW c \in Call, pc[c] = "write"
    PROVE  /\ draft[c] = NewRecord(LastRecord(lines), c, PublicKey)
           /\ draft[c].signer = PublicKey
<1>1. KeyOf[LogOf[c]] = PublicKey
  BY KeyType, OneServerAssumption, KeyAssumption DEF ChainInv, WriterHasKey
<1> QED BY <1>1 DEF ChainInv, DraftsFollow, NewRecord

(* Nothing is signed. *)
LEMMA HonestLogInit == Init => HonestLog
<1>1. Init => ChainInv
  BY ChainInit
<1> QED BY <1>1 DEF Init, HonestLog, SignedByServer, DiskHasAll

(* Nothing is signed, and nothing is read. *)
LEMMA HonestInit == LiveInit => Honest
<1> SUFFICES ASSUME LiveInit PROVE Honest
  OBVIOUS
<1>1. ReadInv
  BY WitnessInit DEF WitnessInv
<1>2. HonestLog
  BY HonestLogInit DEF LiveInit
<1>3. ReadsLog
  BY DEF LiveInit, Init, ReadsLog, Start, Image
<1> QED BY <1>1, <1>2, <1>3 DEF LiveInit, Honest, Progress, NotBegun, V!Verdict

(* Every step of append keeps the log one of the server's. *)
LEMMA HonestLogStep == HonestLog /\ [Next]_vars => HonestLog'
<1> SUFFICES ASSUME HonestLog, [Next]_vars PROVE HonestLog'
  OBVIOUS
<1> USE DEF HonestLog
<1>1. ChainInv'
  BY ChainStep
<1>2. SignedByServer'
  <2>1. CASE lines' = lines
    BY <2>1 DEF SignedByServer
  <2>2. ASSUME NEW c \in Call, pc[c] = "write", lines' = Append(lines, draft[c])
        PROVE  SignedByServer'
    <3>1. draft[c].signer = PublicKey
      BY <2>2, WriterSigns
    <3>2. draft[c] \in SignedRecord /\ lines \in Seq(SignedRecord)
      BY <2>2 DEF ChainInv, Typed
    <3>3. /\ Len(lines') = Len(lines) + 1 /\ lines'[Len(lines) + 1] = draft[c]
          /\ \A i \in 1..Len(lines) : lines'[i] = lines[i]
      BY <2>2, <3>2, AppendProperties
    <3> QED BY <3>1, <3>2, <3>3, LenProperties DEF SignedByServer
  <2> QED BY <2>1, <2>2, FileSteps
<1>3. DiskHasAll'
  BY DiskStep
<1> QED BY <1>1, <1>2, <1>3

(* A stop that meets no call under way takes nothing from it. *)
LEMMA HonestLogStays ==
    HonestLog /\ Stop /\ NobodyDied' => HonestLog' /\ UNCHANGED <<lines, tail>>
BY QuietStop DEF HonestLog, SignedByServer

(* What was read stays what the log holds. *)
LEMMA ReadsLogStep ==
    ASSUME ChainInv, ReadInv, ReadsLog, [Next]_vars, UNCHANGED <<file, position>>
    PROVE  ReadsLog'
<1> DEFINE n == Len(position.lines)
           part == position.tail
<1>1. n \in Nat /\ Len(lines) \in Nat /\ n <= Len(lines) /\ lines \in Seq(SignedRecord)
  BY LenProperties DEF ReadInv, PositionType, ChainInv
<1>2. CASE UNCHANGED <<lines, tail>>
  BY <1>2 DEF ReadsLog
<1>3. CASE tail = << >> /\ lines' = lines
  BY <1>1, <1>3 DEF ReadsLog
<1>4. ASSUME NEW c \in Call, pc[c] = "write", lines' = Append(lines, draft[c]), tail' = << >>
      PROVE  ReadsLog'
  <2>1. draft[c] \in SignedRecord
    BY <1>4 DEF ChainInv, Typed
  <2>2. /\ Len(lines') = Len(lines) + 1 /\ lines'[Len(lines) + 1] = draft[c]
        /\ \A i \in 1..Len(lines) : lines'[i] = lines[i]
    BY <1>1, <1>4, <2>1, AppendProperties
  <2>3. ASSUME part # << >> PROVE n < Len(lines') /\ Parse(part) \in {lines'[n + 1]} \cup Junk
    <3>1. CASE n < Len(lines)
      BY <1>1, <2>2, <2>3, <3>1 DEF ReadsLog
    <3>2. CASE n = Len(lines)
      <4>1. part = tail
        BY <2>3, <3>2 DEF ReadsLog
      <4>2. PICK d \in Call : pc[d] = "write" /\ Parse(tail) \in {draft[d]} \cup Junk
        BY <2>3, <4>1, TailOfWriter
      <4>3. d = c
        BY <1>4, <4>2 DEF ChainInv, FlockExclusive, Holding
      <4> QED BY <1>1, <2>2, <3>2, <4>1, <4>2, <4>3
    <3> QED BY <1>1, <3>1, <3>2
  <2>4. \A i \in 1..n : position.lines[i] = lines'[i] /\ file[i] = lines'[i]
    BY <1>1, <2>2 DEF ReadsLog
  <2> QED BY <1>1, <2>2, <2>3, <2>4 DEF ReadsLog
<1> QED BY <1>2, <1>3, <1>4, FileSteps

(* A read goes on where the last one ended: a line that was read without   *)
(* its newline, and was whole, is not read again.                          *)
LEMMA ReadOn ==
    ASSUME ChainInv, ReadInv, ReadsLog, Read
    PROVE  ReadsLog'
<1> DEFINE n == Len(position.lines)
           part == position.tail
           From(m) == SubSeq(Seen, m, Len(Seen))
<1>1. SeenLines /\ UNCHANGED <<lines, tail>> /\ position' = Image(lines, tail)
  BY SeenIsLines DEF Read, logVars, vars
<1>2. /\ n \in Nat /\ Len(lines) \in Nat /\ n <= Len(lines) /\ Len(Seen) \in Nat
      /\ position \in PositionType /\ lines \in Seq(Line) /\ file \in Seq(Line)
      /\ Seen \in Seq(Line)
  BY <1>1, SeenType, LenProperties DEF ReadInv, PositionType, ChainInv, Typed, TypeOK, SeenLines
<1>3. \A i \in 1..Len(Seen) : Seen[i] \in Line
  BY <1>2, ElementOfSeq
<1>4. ASSUME NEW m \in Nat, m <= Len(Seen), Len(file) = m, \A i \in 1..m : file[i] = Seen[i],
             file' = file \o From(m + 1)
      PROVE  ReadsLog'
  <2>1. /\ From(m + 1) \in Seq(Line) /\ Len(From(m + 1)) = Len(Seen) - m
        /\ \A i \in 1..Len(Seen) - m : From(m + 1)[i] = Seen[m + i]
    BY <1>2, <1>3, <1>4, SubSeqProperties
  <2> HIDE DEF From
  <2>2. /\ Len(file') = Len(Seen)
        /\ \A i \in 1..Len(Seen) : file'[i] = IF i <= m THEN file[i] ELSE From(m + 1)[i - m]
    BY <1>2, <1>4, <2>1, ConcatProperties
  <2>3. \A i \in 1..Len(Seen) : file'[i] = Seen[i]
    BY <1>2, <1>4, <2>1, <2>2
  <2> QED BY <1>1, <1>2, <2>2, <2>3 DEF ReadsLog, SeenLines, Image
<1>5. CASE part = << >>
  <2>1. Len(file) = n /\ \A i \in 1..n : file[i] = Seen[i]
    BY <1>1, <1>2, <1>5 DEF ReadsLog, SeenLines
  <2>2. file' = file \o From(n + 1)
    BY <1>5 DEF Read
  <2>3. n <= Len(Seen)
    BY <1>1, <1>2 DEF SeenLines
  <2> HIDE DEF n, From
  <2> QED BY <1>2, <1>4, <2>1, <2>2, <2>3
<1>6. CASE part # << >>
  <2>1. n < Len(lines)
    <3> SUFFICES ASSUME n = Len(lines) PROVE FALSE
      BY <1>2
    <3>1. part = tail
      BY <1>6 DEF ReadsLog
    <3>2. position.lines = lines
      <4>1. position.lines \in Seq(Line) /\ \A i \in 1..Len(position.lines) : position.lines[i] = lines[i]
        BY <1>2 DEF ReadsLog, PositionType
      <4> QED BY <1>2, <4>1, SeqEqual
    <3>3. position = Image(lines, tail)
      BY <1>2, <3>1, <3>2 DEF PositionType, Image
    <3> QED BY <3>3 DEF Read
  <2>2. Len(file) = n + 1 /\ file[n + 1] = Parse(part) /\ part \in Seq(Fragment)
    BY <1>2, <1>6 DEF ReadsLog, PositionType
  <2>3. Parse(part) \notin Junk
    <3>1. checked = n + 1 /\ n + 1 \in 1..checked
      BY <1>2, <2>2 DEF Read
    <3> QED BY <2>2, <3>1 DEF ReadInv
  <2>4. Whole(part) /\ Parse(part) = lines[n + 1]
    BY <1>6, <2>1, <2>2, <2>3, ParsedIsWhole DEF ReadsLog
  <2>5. RestIsBlank(n, part) = {TRUE}
    <3>1. ~ (part = << >> \/ n + 1 > Len(lines))
      BY <1>2, <1>6, <2>1
    <3> HIDE DEF n, part
    <3> QED BY <2>4, <3>1 DEF RestIsBlank
  <2>6. RestOfLine \subseteq {<< >>}
    <3> SUFFICES ASSUME NEW rest \in RestOfLine PROVE rest = << >>
      OBVIOUS
    <3>1. (rest = << >>) \in RestIsBlank(n, part)
      BY <1>2, <2>1 DEF RestOfLine
    <3>2. (rest = << >>) = TRUE
      <4> HIDE DEF n, part
      <4> QED BY <2>5, <3>1
    <3> QED BY <3>2
  <2>7. file' = (file \o << >>) \o From(n + 2)
    BY <1>6, <2>6 DEF Read
  <2>8. file' = file \o From(n + 2)
    BY <1>2, <2>7, ConcatEmptySeq
  <2>9. n + 1 <= Len(Seen)
    BY <1>1, <1>2, <2>1 DEF SeenLines
  <2>10. \A i \in 1..n + 1 : file[i] = lines[i]
    BY <1>2, <2>1, <2>2, <2>4 DEF ReadsLog
  <2>11. \A i \in 1..n + 1 : file[i] = Seen[i]
    <3> HIDE DEF n
    <3> QED BY <1>1, <1>2, <2>1, <2>10 DEF SeenLines
  <2>12. n + 1 \in Nat /\ n + 1 + 1 = n + 2
    BY <1>2
  <2> HIDE DEF n, From
  <2> QED BY <1>2, <1>4, <2>2, <2>8, <2>9, <2>11, <2>12
<1> QED BY <1>5, <1>6

(* A line the verifier was given, if it parses, is the server's next one. *)
LEMMA ReadableLine ==
    ASSUME HonestLog, ReadInv, ReadsLog, NEW i \in 1..Len(file), file[i] \notin Junk
    PROVE  /\ file[i].seq = i - 1 /\ file[i].signer = PublicKey
           /\ file[i].prev_hash = IF i = 1 THEN ZERO_HASH ELSE EntryHash(file[i - 1])
<1> DEFINE n == Len(position.lines)
           part == position.tail
<1> USE DEF HonestLog
<1>1. /\ n \in Nat /\ Len(lines) \in Nat /\ n <= Len(lines) /\ Len(file) \in Nat
      /\ lines \in Seq(SignedRecord) /\ Linked(lines)
  BY LenProperties DEF ReadInv, PositionType, ChainInv
<1>2. /\ \A j \in 1..n : file[j] = lines[j]
      /\ Len(file) = n \/ (part # << >> /\ Len(file) = n + 1)
  BY DEF ReadsLog
<1>3. CASE i <= Len(lines) /\ file[i] = lines[i]
  <2>1. i \in 1..Len(lines) /\ i - 1 <= n
    BY <1>1, <1>2, <1>3
  <2>2. i # 1 => file[i - 1] = lines[i - 1]
    BY <1>1, <1>2, <2>1
  <2>3. /\ lines[i].seq = i - 1 /\ lines[i].signer = PublicKey
        /\ lines[i].prev_hash = IF i = 1 THEN ZERO_HASH ELSE EntryHash(lines[i - 1])
    BY <1>1, <2>1 DEF Linked, SignedByServer
  <2> HIDE DEF n
  <2> QED BY <1>3, <2>2, <2>3
<1>4. CASE i <= n
  BY <1>1, <1>2, <1>3, <1>4
<1>5. CASE i = n + 1 /\ part # << >>
  <2>1. /\ file[i] = Parse(part)
        /\ n = Len(lines) => part = tail
        /\ n < Len(lines) => Parse(part) \in {lines[n + 1]} \cup Junk
    BY <1>5 DEF ReadsLog
  <2>2. CASE n < Len(lines)
    BY <1>1, <1>3, <1>5, <2>1, <2>2
  <2>3. CASE n = Len(lines)
    <3>1. PICK c \in Call : pc[c] = "write" /\ Parse(tail) \in {draft[c]} \cup Junk
      BY <1>5, <2>1, <2>3, TailOfWriter
    <3>2. file[i] = draft[c] /\ draft[c] = NewRecord(LastRecord(lines), c, PublicKey)
      BY <2>1, <2>3, <3>1, WriterSigns
    <3> DEFINE new == Append(lines, draft[c])
    <3>3. draft[c] \in SignedRecord /\ Linked(new)
      BY <1>1, <3>2, AppendLinked, OneServerAssumption DEF Signer
    <3>4. /\ Len(new) = n + 1 /\ new[n + 1] = draft[c] /\ \A j \in 1..n : new[j] = lines[j]
      BY <1>1, <2>3, <3>3, AppendProperties
    <3> HIDE DEF new
    <3>5. /\ draft[c].seq = n
          /\ draft[c].prev_hash = IF n + 1 = 1 THEN ZERO_HASH ELSE EntryHash(new[n])
      BY <1>1, <3>3, <3>4 DEF Linked
    <3>6. n # 0 => new[n] = file[n]
      BY <1>1, <1>2, <3>4
    <3>7. draft[c].signer = PublicKey
      BY <3>1, WriterSigns
    <3> QED BY <1>1, <1>5, <3>2, <3>5, <3>6, <3>7
  <2> QED BY <1>1, <2>2, <2>3
<1> QED BY <1>1, <1>2, <1>4, <1>5

(* No check of the loop fails on such a line. *)
LEMMA CheckOn ==
    ASSUME Honest, Check
    PROVE  Progress'
<1> DEFINE k == checked + 1
<1>1. /\ UNCHANGED <<lines, file, position>> /\ Len(file) \in Nat /\ checked \in 0..Len(file)
  BY CheckSteps, LenProperties DEF logVars, vars, Honest, Progress, ReadInv
<1>2. ASSUME k \in 1..Len(file), file[k] \notin Junk
      PROVE  /\ file[k].seq = checked /\ file[k].prev_hash = expected_prev
             /\ V!Verifies(file[k])
  <2>1. /\ file[k].seq = checked /\ file[k].signer = PublicKey
        /\ file[k].prev_hash = IF k = 1 THEN ZERO_HASH ELSE EntryHash(file[checked])
    BY <1>1, <1>2, ReadableLine DEF Honest, Progress
  <2>2. PublicKey \notin OddSignature
    BY OneServerAssumption, KeyAssumption
  <2> QED BY <1>1, <2>1, <2>2 DEF V!Verifies, V!KeyUnder, Honest, Progress
<1>3. ~ (V!SeqMismatch \/ V!PrevHashMismatch \/ V!SignatureInvalid)
  <2> SUFFICES ASSUME V!SeqMismatch \/ V!PrevHashMismatch \/ V!SignatureInvalid PROVE FALSE
    OBVIOUS
  <2>1. V!AtRecord
    BY DEF V!SeqMismatch, V!PrevHashMismatch, V!SignatureInvalid, V!Linked
  <2>2. k \in 1..Len(file) /\ file[k] \notin Junk
    BY <1>1, <2>1 DEF V!AtRecord, V!Current, V!Junk, Junk
  <2> QED BY <1>2, <2>2 DEF V!SeqMismatch, V!PrevHashMismatch, V!SignatureInvalid, V!Current
<1>4. CASE UNCHANGED <<checked, expected_prev>> /\ result'.status \in {"raised", "ok"}
  BY <1>1, <1>4 DEF Honest, Progress, ReadInv
<1>5. CASE /\ k <= Len(file) /\ file[k] \notin Junk
           /\ checked' = k /\ expected_prev' = EntryHash(file[k]) /\ result' = result
  <2>1. ReadInv'
    <3>1. checked' \in 0..Len(file') /\ \A i \in 1..checked' : file'[i] \notin Junk
      BY <1>1, <1>5 DEF Honest, Progress, ReadInv
    <3> QED BY <1>1, <3>1 DEF Honest, Progress, ReadInv
  <2> QED BY <1>1, <1>5, <2>1 DEF Honest, Progress
<1> QED BY <1>1, <1>3, <1>4, <1>5, CheckSteps

(* As long as nobody dies, what verify_chain reads is the server's log and *)
(* what it has checked of it is in order.                                  *)
LEMMA HonestStep ==
    LogInv /\ (NobodyDied => Honest) /\ [LiveNext \/ LiveStop]_liveVars /\ NobodyDied'
        => Honest'
<1> SUFFICES ASSUME LogInv, NobodyDied => Honest, [LiveNext \/ LiveStop]_liveVars, NobodyDied'
             PROVE  Honest'
  OBVIOUS
<1>1. Honest
  <2>1. \A c \in Call : pc[c] = "dead" => pc'[c] = "dead"
    BY LiveSteps, OverIsOver DEF LogInv, StopInv, Finished
  <2> QED BY <2>1 DEF NobodyDied
<1> USE <1>1 DEF Honest
<1>same. UNCHANGED logVars => HonestLog'
  <2> SUFFICES ASSUME UNCHANGED logVars PROVE HonestLog'
    OBVIOUS
  <2>1. [Next]_vars
    BY DEF logVars
  <2> QED BY <2>1, HonestLogStep
<1>2. CASE Verify
  <2>1. UNCHANGED <<lines, tail, file, position, checked, expected_prev>> /\ result' = V!Running
    BY <1>2 DEF Verify, logVars, vars
  <2> QED BY <1>2, <1>same, <2>1 DEF Verify, ReadsLog, Progress, ReadInv, V!Running
<1>3. CASE Read
  <2>1. ReadsLog'
    BY <1>3, ReadOn DEF HonestLog, Progress
  <2>2. /\ UNCHANGED <<logVars, lines, tail, checked, expected_prev, result>>
        /\ position' = Image(lines, tail)
    BY <1>3 DEF Read, logVars, vars
  <2>3. /\ file' \in Seq(Line) /\ Len(file) <= Len(file')
        /\ \A i \in 1..Len(file) : file'[i] = file[i]
    BY <1>3, ReadStep DEF HonestLog, ChainInv, Progress
  <2>4. Len(file) \in Nat /\ Len(file') \in Nat /\ checked \in 0..Len(file)
    BY <2>3, LenProperties DEF Progress, ReadInv
  <2>5. \A i \in 1..checked : file'[i] = file[i]
    BY <2>3, <2>4
  <2>6. ReadInv'
    <3>1. position' \in PositionType /\ Len(position'.lines) <= Len(lines')
      BY <2>2, LenProperties DEF PositionType, Image, HonestLog, ChainInv, Typed, TypeOK
    <3> QED BY <2>2, <2>3, <2>4, <2>5, <3>1 DEF Progress, ReadInv
  <2>7. Progress'
    BY <2>2, <2>4, <2>5, <2>6 DEF Progress
  <2> QED BY <1>same, <2>1, <2>2, <2>7
<1>4. CASE Check
  <2>1. UNCHANGED <<logVars, lines, tail, file, position>>
    BY <1>4, CheckSteps DEF logVars, vars
  <2>2. ReadsLog'
    BY <2>1 DEF ReadsLog
  <2> QED BY <1>4, <1>same, <2>1, <2>2, CheckOn
<1>5. CASE ([Next]_vars \/ \E l \in Log : Crash(l)) /\ UNCHANGED verifierVars
  <2>1. UNCHANGED <<file, position, checked, expected_prev, result>>
    BY <1>5 DEF verifierVars
  <2>2. HonestLog' /\ ReadsLog'
    <3>1. CASE [Next]_vars
      BY <2>1, <3>1, HonestLogStep, ReadsLogStep DEF HonestLog, Progress
    <3>2. CASE \E l \in Log : Crash(l)
      BY <2>1, <3>2, HonestLogStays DEF ReadsLog, Stop
    <3> QED BY <1>5, <3>1, <3>2
  <2>3. Len(lines) <= Len(lines') /\ Len(lines) \in Nat /\ Len(lines') \in Nat
    BY <1>5, LinesGrow DEF LogInv
  <2>4. Progress'
    BY <2>1, <2>3, LenProperties DEF Progress, ReadInv, PositionType
  <2> QED BY <2>2, <2>4
<1>6. CASE PowerLoss /\ Restart
  <2>1. HonestLog' /\ UNCHANGED <<lines, tail>>
    BY <1>6, HonestLogStays DEF Stop
  <2>2. << >> \in Seq(Line) /\ << >> \in Seq(Fragment) /\ Len(<< >>) = 0 /\ Len(lines) \in Nat
    BY LenProperties DEF HonestLog, ChainInv
  <2>3. ReadInv' /\ ReadsLog'
    BY <1>6, <2>1, <2>2 DEF Restart, ReadInv, PositionType, ReadsLog, Start, Image
  <2> QED BY <1>6, <2>1, <2>3 DEF Restart, Progress, NotBegun, V!Verdict
<1> QED BY <1>2, <1>3, <1>4, <1>5, <1>6, LiveSteps

(* verify_chain never reports tampering, wherever the appends of any       *)
(* number of processes are when it reads, as long as no crash has cut one  *)
(* of them off.                                                            *)
THEOREM HonestLogsPass == LiveSpec => []HonestNeverBlamed
<1>1. LiveInit => LogInv /\ (NobodyDied => Honest)
  BY LogInit, HonestInit DEF LiveInit
<1>2. LogInv /\ (NobodyDied => Honest) /\ [LiveNext \/ LiveStop]_liveVars
          => LogInv' /\ (NobodyDied => Honest)'
  BY LiveSteps, LogStep, HonestStep
<1>3. (NobodyDied => Honest) => HonestNeverBlamed
  BY DEF NobodyDied, Honest, Progress, HonestNeverBlamed
<1> QED BY <1>1, <1>2, <1>3, PTL DEF LiveSpec

-----------------------------------------------------------------------------
(* What Verifier assumes of the logs a key has signed *)

LinkOf(r) == [seq |-> r.seq, call |-> r.call, signer |-> r.signer]

Commits(ls) == \A i \in 1..Len(ls) : ls[i].prev_hash = [j \in 1..i - 1 |-> LinkOf(ls[j])]

(* The hash of the last record has a link for every record of the log. *)
LEMMA HeadCommits ==
    ASSUME NEW ls \in Seq(SignedRecord), Commits(ls), ls # << >>
    PROVE  EntryHash(ls[Len(ls)]) = [j \in 1..Len(ls) |-> LinkOf(ls[j])]
<1> DEFINE n == Len(ls)
           before == ls[n].prev_hash
           link == LinkOf(ls[n])
           hash == Append(before, link)
<1>1. n \in Nat /\ n > 0 /\ ls[n] \in SignedRecord
  BY EmptySeq, ElementOfSeq
<1>2. before \in Seq(Link) /\ link \in Link
  <2> HIDE DEF n
  <2> QED BY <1>1 DEF SignedRecord, Hash, Link, LinkOf
<1>3. before = [j \in 1..n - 1 |-> LinkOf(ls[j])]
  BY <1>1 DEF Commits
<1>4. Len(before) = n - 1
  BY <1>1, <1>2, <1>3, LenProperties
<1> HIDE DEF before, link
<1>5. /\ hash \in Seq(Link) /\ Len(hash) = n /\ hash[n] = link
      /\ \A j \in 1..n - 1 : hash[j] = before[j]
  BY <1>1, <1>2, <1>4, AppendProperties
<1>6. \A j \in 1..n : hash[j] = LinkOf(ls[j])
  BY <1>1, <1>3, <1>5 DEF link
<1>7. hash = [j \in 1..n |-> hash[j]]
  BY <1>5, LenProperties
<1>8. EntryHash(ls[n]) = hash
  BY DEF EntryHash, LinkOf, before, link
<1> HIDE DEF hash
<1> QED BY <1>6, <1>7, <1>8

(* A record of the server's commits to all that was in the log before it. *)
LEMMA CommitsStep == HonestLog /\ Commits(lines) /\ [Next]_vars => Commits(lines')
<1> SUFFICES ASSUME HonestLog, Commits(lines), [Next]_vars PROVE Commits(lines')
  OBVIOUS
<1> USE DEF HonestLog
<1>1. CASE lines' = lines
  BY <1>1
<1>2. ASSUME NEW c \in Call, pc[c] = "write", lines' = Append(lines, draft[c])
      PROVE  Commits(lines')
  <2> DEFINE n == Len(lines)
  <2>1. /\ n \in Nat /\ lines \in Seq(SignedRecord) /\ draft[c] \in SignedRecord
        /\ draft[c] = NewRecord(LastRecord(lines), c, PublicKey)
    BY <1>2, WriterSigns, LenProperties DEF ChainInv, Typed
  <2>2. /\ Len(lines') = n + 1 /\ lines'[n + 1] = draft[c]
        /\ \A i \in 1..n : lines'[i] = lines[i]
    BY <1>2, <2>1, AppendProperties
  <2>3. draft[c].prev_hash = [j \in 1..n |-> LinkOf(lines[j])]
    <3>1. CASE lines = << >>
      <4>1. draft[c].prev_hash = << >>
        <5>1. LastRecord(lines) = NoRecord
          BY <2>1, <3>1, LastOfRecords
        <5> QED BY <2>1, <5>1 DEF NewRecord, HeadHash, ZERO_HASH
      <4>2. n = 0
        BY <3>1
      <4>3. [j \in 1..0 |-> LinkOf(lines[j])] = << >>
        OBVIOUS
      <4> HIDE DEF n
      <4> QED BY <4>1, <4>2, <4>3
    <3>2. CASE lines # << >>
      <4>1. LastRecord(lines) = lines[n] /\ lines[n] # NoRecord
        <5>1. lines[n] \in SignedRecord
          BY <2>1, <3>2, EmptySeq, ElementOfSeq
        <5> QED BY <2>1, <3>2, <5>1, LastOfRecords, RecordAssumption DEF Line
      <4>2. draft[c].prev_hash = EntryHash(lines[n])
        BY <2>1, <4>1 DEF NewRecord, HeadHash
      <4> QED BY <2>1, <3>2, <4>2, HeadCommits
    <3> QED BY <3>1, <3>2
  <2>4. ASSUME NEW i \in 1..n + 1
        PROVE  lines'[i].prev_hash = [j \in 1..i - 1 |-> LinkOf(lines'[j])]
    <3>1. [j \in 1..i - 1 |-> LinkOf(lines'[j])] = [j \in 1..i - 1 |-> LinkOf(lines[j])]
      BY <2>1, <2>2
    <3>2. CASE i \in 1..n
      BY <2>2, <3>1, <3>2 DEF Commits
    <3>3. CASE i = n + 1
      BY <2>1, <2>2, <2>3, <3>1, <3>3
    <3> QED BY <2>1, <3>2, <3>3
  <2> QED BY <2>2, <2>4 DEF Commits
<1> QED BY <1>1, <1>2, FileSteps

(* The log that appends write under one key is what Verifier takes for one *)
(* that the key has signed: each record in its position, signed with the   *)
(* key, its prev_hash spelling out all that comes before.                  *)
THEOREM LogsAreHistories ==
    Spec => [](\A i \in 1..Len(lines) :
                  /\ lines[i].seq = i - 1
                  /\ lines[i].prev_hash = [j \in 1..i - 1 |-> LinkOf(lines[j])]
                  /\ lines[i].signer = PublicKey)
<1> DEFINE IsHistory == \A i \in 1..Len(lines) :
                  /\ lines[i].seq = i - 1
                  /\ lines[i].prev_hash = [j \in 1..i - 1 |-> LinkOf(lines[j])]
                  /\ lines[i].signer = PublicKey
<1>1. Init => HonestLog /\ Commits(lines)
  BY HonestLogInit DEF Init, Commits
<1>2. HonestLog /\ Commits(lines) => IsHistory
  BY DEF HonestLog, ChainInv, Linked, Commits, SignedByServer
<1>3. HonestLog /\ Commits(lines) /\ [Next]_vars => HonestLog' /\ Commits(lines)'
  <2>1. Commits(lines') => Commits(lines)'
    BY DEF Commits
  <2> QED BY <2>1, HonestLogStep, CommitsStep
<1> QED BY <1>1, <1>2, <1>3, PTL DEF Spec
=============================================================================
