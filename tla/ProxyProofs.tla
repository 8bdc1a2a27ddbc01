---------------------------- MODULE ProxyProofs ----------------------------
(***************************************************************************)
(* For any number of calls and any upstream, disk errors included: who got *)
(* a receipt has one record in the log, or the disk spoilt it, and what is *)
(* in the log of any call is its own request and its own response.         *)
(***************************************************************************)
EXTENDS Proxy, TLAPS

Shape ==
    /\ log \in Seq(Line)
    /\ captured = [h \in Call |-> captured[h]]
    /\ sent = [h \in Call |-> sent[h]]
    /\ response = [h \in Call |-> response[h]]
    /\ entry = [h \in Call |-> entry[h]]
    /\ pc = [h \in Call |-> pc[h]]
    /\ outcome = [h \in Call |-> outcome[h]]
    /\ content = [o \in Params |-> content[o]]

Current(h, params) == params = sent[h] \/ ParamsOf[h] \in changed

(* A call in flight knows its own id, and its params object still holds    *)
(* what was sent, or is known to have been changed.                        *)
InFlight(h) ==
    pc[h] \in {"waiting", "answered"} =>
        captured[h] = RequestId(h) /\ Current(h, content[ParamsOf[h]])

(* How far handle is and how far its append is. *)
InStep(h) ==
    /\ outcome[h] \in {"pending", "raised", "written", "broken", "returned"}
    /\ pc[h] \in {"idle", "waiting", "answered"} => outcome[h] = "pending"
    /\ pc[h] = "appended" <=> outcome[h] = "written"
    /\ pc[h] = "returned" <=> outcome[h] = "returned"

(* A call has a record once append has written it, and none before; none   *)
(* after that either, if the disk spoilt its line.                         *)
Logged(h) ==
    /\ Records(h) # {} => /\ \E i \in 1..Len(log) : Records(h) = {i}
                          /\ outcome[h] \in {"written", "broken", "returned"}
                          /\ OwnEntry(h)
    /\ outcome[h] \in {"written", "returned"} => OwnEntry(h) /\ (Records(h) # {} \/ DiskFailed)

IInv == Shape /\ \A h \in Call : InFlight(h) /\ InStep(h) /\ Logged(h)

(* CrashLog builds its records by the same rule. *)
LEMMA SameRecord == \A x, c, k : Log!NewRecord(x, c, k) = NewRecord(x, c, k)
BY DEF Log!NewRecord, NewRecord, Log!NextSeq, NextSeq, Log!HeadHash, HeadHash,
       Log!EntryHash, EntryHash, Log!ZERO_HASH, ZERO_HASH

(* append's record is one. *)
LEMMA NewRecordType ==
    ASSUME log \in Seq(Line), NEW h \in Call, SignerOf[h] \in Key
    PROVE  /\ NewRecord(Log!Last, h, SignerOf[h]) \in SignedRecord
           /\ NewRecord(Log!Last, h, SignerOf[h]).call = h
<1> DEFINE last == Log!Last
<1>1. last = NoRecord \/ last \in SignedRecord
  <2> DEFINE read == {i \in 1..Len(log) : /\ log[i] \notin Junk
                                         /\ \A j \in i + 1..Len(log) : log[j] \in Junk}
  <2>1. last = IF read = {} THEN NoRecord ELSE log[CHOOSE i \in read : TRUE]
    BY DEF Log!Last, Log!Junk, Junk
  <2>2. \A i \in read : log[i] \in SignedRecord
    BY DEF Line
  <2> QED BY <2>1, <2>2
<1>2. NextSeq(last) \in Nat
  BY <1>1 DEF NextSeq, SignedRecord
<1>3. HeadHash(last) \in Hash
  <2>1. CASE last = NoRecord
    BY <2>1 DEF HeadHash, ZERO_HASH, Hash
  <2>2. CASE last # NoRecord
    <3>1. last.prev_hash \in Seq(Link)
      BY <1>1, <2>2 DEF SignedRecord, Hash
    <3>2. [seq |-> last.seq, call |-> last.call, signer |-> last.signer] \in Link
      BY <1>1, <2>2 DEF SignedRecord, Link
    <3> QED BY <2>2, <3>1, <3>2 DEF HeadHash, EntryHash, Hash
  <2> QED BY <2>1, <2>2
<1> QED BY <1>2, <1>3 DEF NewRecord, SignedRecord, Signer

(* A call writes its record, or a line nobody can read where a disk error  *)
(* has been.                                                               *)
LEMMA WhatIsWritten ==
    ASSUME IInv, NEW g \in Call, Log!Writes(g)
    PROVE  \E line \in Line : /\ log' = Append(log, line)
                              /\ line \in Junk => DiskFailed
                              /\ line \notin Junk => line.call = g
<1>1. log \in Seq(Line) /\ SignerOf[g] \in Key
  BY DEF IInv, Shape, Log!Writes
<1>2. PICK line \in {NewRecord(Log!Last, g, SignerOf[g])} \cup Log!Spoilt : log' = Append(log, line)
  BY SameRecord DEF Log!Writes
<1>3. CASE line \in Log!Spoilt
  <2>1. line \in Junk /\ \E c \in Call : outcome[c] \in {"dead", "broken"}
    BY <1>3 DEF Log!Spoilt, Log!Junk, Junk
  <2>2. DiskFailed
    BY <2>1 DEF DiskFailed, IInv, InStep
  <2> QED BY <1>2, <2>1, <2>2 DEF Line
<1>4. CASE line = NewRecord(Log!Last, g, SignerOf[g])
  BY <1>1, <1>2, <1>4, NewRecordType, JunkAssumption DEF Line
<1> QED BY <1>2, <1>3, <1>4

(* What Append does to a log. *)
LEMMA AppendedLine ==
    ASSUME NEW s \in Seq(Line), NEW line \in Line, NEW t, t = Append(s, line)
    PROVE  /\ Len(s) \in Nat /\ t \in Seq(Line) /\ Len(t) = Len(s) + 1 /\ t[Len(s) + 1] = line
           /\ \A i \in 1..Len(s) : t[i] = s[i]
OBVIOUS

(* Nothing is under way. *)
LEMMA InitInv == Init => IInv
BY DEF Init, Log!Init, IInv, Shape, InFlight, InStep, Logged, Records

(* What a step leaves alone of a call keeps what was logged of it, and     *)
(* that the disk has failed is not forgotten.                              *)
LEMMA LoggedStays ==
    ASSUME IInv, NEW h \in Call, Records(h)' = Records(h), Len(log) <= Len(log'),
           Len(log') \in Nat, outcome'[h] = outcome[h],
           entry'[h] = entry[h], sent'[h] = sent[h], response'[h] = response[h],
           changed \subseteq changed', DiskFailed => DiskFailed'
    PROVE  Logged(h)'
<1>1. Logged(h) /\ Len(log) \in Nat
  BY DEF IInv, Shape
<1>2. OwnEntry(h) => OwnEntry(h)'
  BY DEF OwnEntry, RequestId
<1>3. (\E i \in 1..Len(log) : Records(h) = {i}) => \E i \in 1..Len(log') : Records(h)' = {i}
  BY <1>1
<1> QED BY <1>1, <1>2, <1>3 DEF Logged

(* What append is given is of the call itself. *)
LEMMA GivenIsOwn ==
    ASSUME IInv, NEW g \in Call, pc[g] = "answered", entry'[g] = EntryFor(g),
           UNCHANGED <<sent, response, changed>>
    PROVE  OwnEntry(g)'
<1>1. captured[g] = RequestId(g) /\ Current(g, content[ParamsOf[g]])
  BY DEF IInv, InFlight
<1>2. EntryFor(g).id = RequestId(g) /\ EntryFor(g).params = content[ParamsOf[g]]
  BY <1>1 DEF EntryFor
<1>3. LET e == EntryFor(g)
      IN  /\ e.payload = IF e.status = "ok" THEN response[g].result ELSE response[g].error
          /\ e.status = "error" <=> response[g].result = Absent
  BY DEF EntryFor, Payload, Status
<1> QED BY <1>1, <1>2, <1>3 DEF OwnEntry, Current, RequestId

(* A step of append, or its end, of one call leaves all others as they     *)
(* were.                                                                   *)
LEMMA OthersStay ==
    ASSUME IInv, NEW g \in Call, outcome[g] # "broken",
           pc'[g] \notin {"waiting", "answered"},
           pc' = [pc EXCEPT ![g] = pc'[g]],
           outcome' = [outcome EXCEPT ![g] = outcome'[g]],
           entry' = [entry EXCEPT ![g] = entry'[g]],
           UNCHANGED <<content, changed, sent, captured, response>>,
           UNCHANGED log \/ \E line \in Line : /\ log' = Append(log, line)
                                               /\ line \notin Junk => line.call = g,
           InStep(g)', Logged(g)'
    PROVE  IInv'
<1>1. DiskFailed => DiskFailed'
  BY DEF DiskFailed, IInv, Shape
<1>2. Len(log) \in Nat /\ Len(log') \in Nat /\ Len(log) <= Len(log') /\ log' \in Seq(Line)
  <2>1. log \in Seq(Line)
    BY DEF IInv, Shape
  <2> QED BY <2>1, AppendedLine
<1>3. Shape'
  BY <1>2 DEF IInv, Shape
<1>4. ASSUME NEW h \in Call, h # g
      PROVE  /\ pc'[h] = pc[h] /\ outcome'[h] = outcome[h] /\ entry'[h] = entry[h]
             /\ Records(h)' = Records(h)
  <2>1. pc'[h] = pc[h] /\ outcome'[h] = outcome[h] /\ entry'[h] = entry[h]
    BY <1>4 DEF IInv, Shape
  <2>2. ASSUME NEW line \in Line, log' = Append(log, line), line \notin Junk => line.call = g
        PROVE  Records(h)' = Records(h)
    <3>1. Len(log') = Len(log) + 1 /\ log'[Len(log) + 1] = line
          /\ \A i \in 1..Len(log) : log'[i] = log[i]
      BY <2>2, AppendedLine DEF IInv, Shape
    <3> QED BY <1>2, <1>4, <2>2, <3>1 DEF Records
  <2>3. UNCHANGED log => Records(h)' = Records(h)
    BY DEF Records
  <2> QED BY <2>1, <2>2, <2>3
<1>5. ASSUME NEW h \in Call, h # g PROVE InFlight(h)' /\ InStep(h)' /\ Logged(h)'
  <2>1. Logged(h)'
    BY <1>1, <1>2, <1>4, <1>5, LoggedStays
  <2> QED BY <1>4, <1>5, <2>1 DEF IInv, InFlight, InStep, Current, RequestId
<1>6. InFlight(g)'
  BY DEF InFlight
<1> QED BY <1>3, <1>5, <1>6 DEF IInv

(* append writes its line and goes on, or raises, its line written or not. *)
LEMMA AppendInv ==
    ASSUME IInv, NEW g \in Call, Attest(g) \/ DiskError(g)
    PROVE  IInv'
<1>1. pc[g] = "answered" /\ outcome[g] = "pending" /\ Records(g) = {}
  BY DEF Attest, DiskError, IInv, InStep, Logged
<1>2. /\ UNCHANGED <<content, changed, sent, captured, response>>
      /\ entry' = [entry EXCEPT ![g] = EntryFor(g)] /\ entry'[g] = EntryFor(g)
  BY DEF Attest, DiskError, IInv, Shape
<1>3. \/ /\ pc' = [pc EXCEPT ![g] = "appended"] /\ pc'[g] = "appended"
         /\ outcome' = [outcome EXCEPT ![g] = "written"] /\ outcome'[g] = "written"
         /\ Log!Writes(g)
      \/ /\ pc' = [pc EXCEPT ![g] = "raised"] /\ pc'[g] = "raised"
         /\ outcome' = [outcome EXCEPT ![g] = "raised"] /\ outcome'[g] = "raised"
         /\ UNCHANGED log
      \/ /\ pc' = [pc EXCEPT ![g] = "raised"] /\ pc'[g] = "raised"
         /\ outcome' = [outcome EXCEPT ![g] = "broken"] /\ outcome'[g] = "broken"
         /\ Log!Writes(g) \/ UNCHANGED log
  BY <1>1 DEF Attest, DiskError, GoTo, Log!Write, Log!Reject, Log!Break, IInv, Shape
<1>4. OwnEntry(g)'
  BY <1>1, <1>2, GivenIsOwn
<1>5. InStep(g)'
  BY <1>3 DEF InStep
<1>6. DiskFailed => DiskFailed'
  BY <1>1, <1>3 DEF DiskFailed, IInv, Shape
<1>7. CASE UNCHANGED log
  <2>1. Records(g)' = {}
    BY <1>1, <1>7 DEF Records
  <2>2. ~ Log!Writes(g)
    <3> SUFFICES ASSUME Log!Writes(g) PROVE FALSE
      OBVIOUS
    <3>1. \E line \in Line : log' = Append(log, line)
      BY WhatIsWritten
    <3>2. Len(log') = Len(log) + 1 /\ Len(log) \in Nat
      BY <3>1, AppendedLine DEF IInv, Shape
    <3> QED BY <1>7, <3>2
  <2>3. Logged(g)'
    BY <1>3, <2>1, <2>2 DEF Logged
  <2> QED BY <1>1, <1>2, <1>3, <1>5, <1>7, <2>3, OthersStay
<1>8. CASE Log!Writes(g)
  <2>1. PICK line \in Line : /\ log' = Append(log, line)
                             /\ line \in Junk => DiskFailed
                             /\ line \notin Junk => line.call = g
    BY <1>8, WhatIsWritten
  <2>2. Len(log') = Len(log) + 1 /\ Len(log) \in Nat /\ log'[Len(log) + 1] = line
        /\ \A i \in 1..Len(log) : log'[i] = log[i]
    BY <2>1, AppendedLine DEF IInv, Shape
  <2>3. Records(g)' = IF line \in Junk THEN {} ELSE {Len(log) + 1}
    BY <1>1, <2>1, <2>2 DEF Records
  <2>4. outcome'[g] # "raised"
    <3> SUFFICES ASSUME outcome'[g] = "raised" PROVE FALSE
      OBVIOUS
    <3>1. UNCHANGED log
      BY <1>3
    <3> QED BY <2>2, <3>1
  <2>5. Records(g)' # {} => \E i \in 1..Len(log') : Records(g)' = {i}
    BY <2>2, <2>3
  <2>6. Records(g)' # {} \/ DiskFailed'
    BY <1>6, <2>1, <2>3
  <2>7. Logged(g)'
    BY <1>3, <1>4, <2>4, <2>5, <2>6 DEF Logged
  <2> QED BY <1>1, <1>2, <1>3, <1>5, <2>1, <2>7, OthersStay
<1> QED BY <1>3, <1>7, <1>8

(* The ends of handle that leave the log alone. *)
LEMMA EndInv ==
    ASSUME IInv, NEW g \in Call, Refuse(g) \/ SyncError(g) \/ Return(g)
    PROVE  IInv'
<1>1. /\ UNCHANGED <<content, changed, sent, captured, response, entry, log>>
      /\ entry' = [entry EXCEPT ![g] = entry'[g]]
  BY DEF Refuse, SyncError, Return, Log!Reject, Log!Break, Log!Return, IInv, InStep, Shape
<1>2. \/ /\ pc[g] = "answered" /\ outcome[g] = "pending"
         /\ pc' = [pc EXCEPT ![g] = "raised"] /\ pc'[g] = "raised"
         /\ outcome' = [outcome EXCEPT ![g] = "raised"] /\ outcome'[g] = "raised"
      \/ /\ pc[g] = "appended" /\ outcome[g] = "written"
         /\ pc' = [pc EXCEPT ![g] = "raised"] /\ pc'[g] = "raised"
         /\ outcome' = [outcome EXCEPT ![g] = "broken"] /\ outcome'[g] = "broken"
      \/ /\ pc[g] = "appended" /\ outcome[g] = "written"
         /\ pc' = [pc EXCEPT ![g] = "returned"] /\ pc'[g] = "returned"
         /\ outcome' = [outcome EXCEPT ![g] = "returned"] /\ outcome'[g] = "returned"
  BY DEF Refuse, SyncError, Return, GoTo, Log!Reject, Log!Break, Log!Return, IInv, InStep, Shape
<1>3. InStep(g)'
  BY <1>2 DEF InStep
<1>4. Records(g)' = Records(g) /\ (OwnEntry(g) => OwnEntry(g)')
  BY <1>1 DEF Records, OwnEntry, RequestId
<1>5. DiskFailed => DiskFailed'
  BY <1>2 DEF DiskFailed, IInv, Shape
<1>6. Logged(g)'
  BY <1>1, <1>2, <1>4, <1>5 DEF IInv, Logged
<1> QED BY <1>1, <1>2, <1>3, <1>6, OthersStay

(* The request on its way, and upstream: nothing of the log. *)
LEMMA UpstreamInv ==
    ASSUME IInv, NEW g \in Call,
           \/ Forward(g)
           \/ (\E x \in Response : Answer(g, x))
           \/ \E way \in {"raised", "cancelled"} : Abandon(g, way)
    PROVE  IInv'
<1> USE DEF Forward, Answer, Abandon, GoTo, logVars
<1>1. UNCHANGED <<content, changed, entry, log, outcome>> /\ Shape'
  BY DEF IInv, Shape
<1>2. ASSUME NEW h \in Call, h # g
      PROVE  pc'[h] = pc[h] /\ captured'[h] = captured[h] /\ sent'[h] = sent[h]
             /\ response'[h] = response[h]
  BY <1>2 DEF IInv, Shape
<1>3. pc[g] \in {"idle", "waiting", "answered"}
      /\ pc'[g] \in {"waiting", "answered", "raised", "cancelled"}
  BY DEF IInv, Shape
<1>4. ASSUME NEW h \in Call PROVE Logged(h)'
  <2>1. Records(h)' = Records(h) /\ (DiskFailed => DiskFailed') /\ Len(log) \in Nat
    BY <1>1 DEF Records, DiskFailed, IInv, Shape
  <2>2. CASE h # g
    BY <1>1, <1>2, <2>1, <2>2, LoggedStays
  <2>3. CASE h = g
    <3>1. outcome[g] = "pending" /\ Records(g) = {}
      BY <1>3 DEF IInv, InStep, Logged
    <3> QED BY <1>1, <2>1, <2>3, <3>1 DEF Logged
  <2> QED BY <2>2, <2>3
<1>5. ASSUME NEW h \in Call PROVE InStep(h)'
  BY <1>1, <1>2, <1>3 DEF IInv, InStep
<1>6. ASSUME NEW h \in Call, h # g PROVE InFlight(h)'
  BY <1>1, <1>2, <1>6 DEF IInv, InFlight, Current, RequestId
<1>7. InFlight(g)'
  BY <1>1 DEF IInv, Shape, InFlight, Current, RequestId
<1> QED BY <1>1, <1>4, <1>5, <1>6, <1>7 DEF IInv

(* A change in place is remembered. *)
LEMMA ChangeInv ==
    ASSUME IInv, NEW o \in Params, NEW v \in Value, Change(o, v)
    PROVE  IInv'
<1>1. Shape' /\ UNCHANGED <<sent, captured, response, entry, pc, log, outcome>>
      /\ changed' = changed \cup {o} /\ \A p \in Params : p # o => content'[p] = content[p]
  BY DEF Change, logVars, IInv, Shape
<1>2. ASSUME NEW h \in Call PROVE InFlight(h)' /\ InStep(h)'
  BY <1>1, ParamsAssumption DEF IInv, InFlight, InStep, Current, RequestId
<1>3. ASSUME NEW h \in Call PROVE Logged(h)'
  <2>1. Records(h)' = Records(h) /\ (DiskFailed => DiskFailed') /\ Len(log) \in Nat
    BY <1>1 DEF Records, DiskFailed, IInv, Shape
  <2> QED BY <1>1, <2>1, LoggedStays
<1> QED BY <1>1, <1>2, <1>3 DEF IInv

(* IInv is an invariant. *)
LEMMA Invariance == Spec => []IInv
<1>1. IInv /\ [Next]_vars => IInv'
  <2> SUFFICES ASSUME IInv, [Next]_vars PROVE IInv'
    OBVIOUS
  <2>1. CASE UNCHANGED vars
    <3>1. UNCHANGED <<content, changed, sent, captured, response, entry, pc, log, outcome>>
      BY <2>1 DEF vars
    <3> QED BY <3>1 DEF IInv, Shape, InFlight, InStep, Logged, OwnEntry, DiskFailed, Current,
                        Records, RequestId
  <2> QED BY <2>1, AppendInv, EndInv, UpstreamInv, ChangeInv DEF Next, Upstream, Proceed, Done
<1> QED BY <1>1, InitInv, PTL DEF Spec

(* A caller with a receipt has one record in the log, of its own id, its   *)
(* own response and, unless they were changed, the params that were sent,  *)
(* if no disk error spoilt it; of all others only one whom the disk failed *)
(* within append may have a record, and that is its own too.               *)
THEOREM ProxyCorrect == Spec => []ReceiptsAttestAnswers
<1>1. IInv => ReceiptsAttestAnswers
  BY DEF IInv, InStep, Logged, ReceiptsAttestAnswers
<1> QED BY <1>1, Invariance, PTL
=============================================================================
