--------------------------- MODULE FailureProofs ----------------------------
(* Under process deaths, power losses and disk errors: what a receipt was  *)
(* handed out for stays in the log, and with one process, what can be read *)
(* of the log is one chain and append the operation of CrashLog; whoever   *)
(* waits for a lock waits for the living.  Under deaths and power losses   *)
(* alone the first two hold of any number of processes, and only a torn    *)
(* text makes an append raise.                                             *)
EXTENDS AttestationLogProofs

(* The calls whose records have pieces in the text. *)
CallsIn(text) == {text[i].record.call : i \in 1..Len(text)}

Own(c, line) == line \notin Junk /\ line.call = c

(* c has been through fsync, and nothing failed. *)
Synced(c) == pc[c] = "returned" \/ (pc[c] \in {"unlock", "close"} /\ ~ failed[c])

(* The disk holds the lines of c wherever they are in the file, whatever   *)
(* of the later writes reaches it, and no open line is of c.               *)
Kept(c, image) ==
    /\ c \notin CallsIn(image.tail)
    /\ \A i \in 1..Len(lines) :
          Own(c, lines[i]) => i \in 1..Len(image.lines) /\ image.lines[i] = lines[i]

DurableInv ==
    /\ Typed
    /\ \A c \in Call : draft[c] # NoRecord => draft[c].call = c
    /\ \A c \in Call : Synced(c) \/ pc[c] = "sync" => unwritten[c] = "none"
    /\ \A c \in Call : Synced(c) \/ pc[c] = "sync" => c \notin CallsIn(tail)
    /\ \A c \in Call : Synced(c) => \A image \in images : Kept(c, image)

-----------------------------------------------------------------------------
(* No call has begun. *)
LEMMA DurableInit == Init => DurableInv
<1>1. Init => Typed
  BY TypedInit
<1> QED BY <1>1 DEF Init, DurableInv, Synced

(* A call whose pieces are not in the open line is not that of the line    *)
(* it becomes.                                                             *)
LEMMA ParseOthers ==
    ASSUME NEW text \in Seq(Fragment), text # << >>, NEW c, c \notin CallsIn(text)
    PROVE  ~ Own(c, Parse(text))
<1>1. 1 \in 1..Len(text)
  BY EmptySeq
<1>2. text[1].record.call \in CallsIn(text)
  BY <1>1 DEF CallsIn
<1> QED BY <1>2 DEF Own, Parse, Junk

(* Pieces of others' records leave the open line without c's. *)
LEMMA CallsInBoth ==
    ASSUME NEW s \in Seq(Fragment), NEW t \in Seq(Fragment), NEW c,
           c \notin CallsIn(s), c \notin CallsIn(t)
    PROVE  c \notin CallsIn(s \o t)
<1> SUFFICES ASSUME NEW i \in 1..Len(s \o t), (s \o t)[i].record.call = c PROVE FALSE
  BY DEF CallsIn
<1>1. Len(s) \in Nat /\ Len(t) \in Nat
  BY LenProperties
<1>2. CASE i \in 1..Len(s)
  BY <1>2, ConcatProperties DEF CallsIn
<1>3. CASE i \in Len(s) + 1..Len(s) + Len(t)
  <2>1. (s \o t)[i] = t[i - Len(s)] /\ i - Len(s) \in 1..Len(t)
    BY <1>1, <1>3, ConcatProperties
  <2> QED BY <2>1 DEF CallsIn
<1> QED BY <1>1, <1>2, <1>3, ConcatProperties

(* A write of other calls' pieces takes nothing from a synced call. *)
LEMMA WriteKeeps ==
    ASSUME Typed, NEW text \in Seq(Fragment), NEW newline \in BOOLEAN, Write(text, newline),
           NEW c \in Call, c \notin CallsIn(tail), c \notin CallsIn(text)
    PROVE  /\ c \notin CallsIn(tail')
           /\ (\A image \in images : Kept(c, image)) => \A image \in images' : Kept(c, image)'
<1> DEFINE open == tail \o text
<1>1. lines \in Seq(Line) /\ tail \in Seq(Fragment)
  BY DEF Typed, TypeOK
<1>2. open \in Seq(Fragment) /\ c \notin CallsIn(open)
  BY <1>1, ConcatProperties, CallsInBoth
<1>3. c \notin CallsIn(tail')
  <2>1. c \notin CallsIn(<< >>)
    BY DEF CallsIn
  <2> QED BY <1>2, <2>1 DEF Write
<1>4. /\ Len(lines) \in Nat /\ Len(lines') \in Nat
      /\ \A i \in 1..Len(lines') : Own(c, lines'[i]) => i \in 1..Len(lines) /\ lines'[i] = lines[i]
  <2>1. CASE newline /\ open # << >>
    <3>1. Parse(open) \in Line /\ ~ Own(c, Parse(open))
      BY <1>2, <2>1, ParseType, ParseOthers
    <3>2. lines' = Append(lines, Parse(open))
      BY <2>1 DEF Write
    <3>3. /\ Len(lines') = Len(lines) + 1 /\ lines'[Len(lines) + 1] = Parse(open)
          /\ \A i \in 1..Len(lines) : lines'[i] = lines[i]
      BY <1>1, <3>1, <3>2, AppendProperties
    <3> QED BY <1>1, <3>1, <3>3, LenProperties
  <2>2. CASE ~ (newline /\ open # << >>)
    <3>1. lines' = lines
      BY <2>2 DEF Write
    <3> QED BY <1>1, <3>1, LenProperties
  <2> QED BY <2>1, <2>2
<1>5. ASSUME \A image \in images : Kept(c, image), NEW image \in images'
      PROVE  Kept(c, image)'
  <2>1. CASE image = Image(lines', tail')
    BY <1>3, <2>1 DEF Image, Kept
  <2>2. CASE image \in images
    <3>1. Kept(c, image)
      BY <1>5, <2>2
    <3> QED BY <1>4, <3>1 DEF Kept
  <2> QED BY <1>5, <2>1, <2>2 DEF Write
<1> QED BY <1>3, <1>5

(* What a call writes is pieces of its own record. *)
LEMMA WritesOwn ==
    ASSUME DurableInv, NEW c \in Call, unwritten[c] # "none"
    PROVE  /\ Rest(draft[c], unwritten[c]) \in Seq(Fragment)
           /\ CallsIn(Rest(draft[c], unwritten[c])) \subseteq {c}
           /\ \A cut \in CutsOf(c) : /\ <<Front(draft[c], cut)>> \in Seq(Fragment)
                                     /\ CallsIn(<<Front(draft[c], cut)>>) \subseteq {c}
<1>1. draft[c] \in SignedRecord /\ unwritten[c] \in {"all"} \cup Cut
  BY DEF DurableInv, Typed, TypeOK
<1>2. draft[c].call = c
  BY <1>1, RecordAssumption DEF DurableInv, Line
<1>3. \A f : f.record.call = c => CallsIn(<<f>>) \subseteq {c}
  <2> SUFFICES ASSUME NEW f, f.record.call = c, NEW i \in 1..Len(<<f>>)
               PROVE  <<f>>[i].record.call = c
    BY DEF CallsIn
  <2>1. Len(<<f>>) = 1 /\ <<f>>[1] = f
    OBVIOUS
  <2>2. i = 1
    BY <2>1
  <2> QED BY <2>1, <2>2
<1>4. CallsIn(<< >>) \subseteq {c}
  BY DEF CallsIn
<1>5. \A cut \in CutsOf(c) : Front(draft[c], cut) \in Fragment
  BY <1>1 DEF Front, Fragment, CutsOf
<1>6. \A cut : Front(draft[c], cut).record.call = c /\ Back(draft[c], cut).record.call = c
  BY <1>2 DEF Front, Back
<1>7. CallsIn(Rest(draft[c], unwritten[c])) \subseteq {c}
  BY <1>3, <1>4, <1>6 DEF Rest
<1>8. \A f \in Fragment : <<f>> \in Seq(Fragment)
  OBVIOUS
<1>9. Rest(draft[c], unwritten[c]) \in Seq(Fragment)
  BY <1>1, RestType
<1> QED BY <1>3, <1>5, <1>6, <1>7, <1>8, <1>9

-----------------------------------------------------------------------------
(* A write by one call keeps what the others, and itself, have synced: its *)
(* own pieces are in the open line only while it is none of them.          *)
LEMMA WriteStep ==
    ASSUME DurableInv, Typed', NEW d \in Call, NEW text \in Seq(Fragment),
           NEW newline \in BOOLEAN, Write(text, newline), CallsIn(text) \subseteq {d},
           unwritten[d] # "none", draft' = draft,
           \A c \in Call : c # d => /\ pc'[c] = pc[c] /\ failed'[c] = failed[c]
                                    /\ unwritten'[c] = unwritten[c],
           ~ Synced(d)',
           pc'[d] = "sync" => unwritten'[d] = "none" /\ tail' = << >>
    PROVE  DurableInv'
<1> USE DEF DurableInv
<1>1. ~ Synced(d) /\ pc[d] # "sync"
  OBVIOUS
<1>2. ASSUME NEW c \in Call, Synced(c)' \/ pc'[c] = "sync", c # d
      PROVE  /\ unwritten'[c] = "none" /\ c \notin CallsIn(tail')
             /\ Synced(c)' => \A image \in images' : Kept(c, image)'
  <2>1. /\ Synced(c) \/ pc[c] = "sync"
        /\ Synced(c)' => Synced(c)
    BY <1>2 DEF Synced
  <2>2. c \notin CallsIn(tail) /\ c \notin CallsIn(text)
    BY <1>2, <2>1
  <2> QED BY <1>2, <2>1, <2>2, WriteKeeps
<1>3. << >> = tail' => d \notin CallsIn(tail')
  BY DEF CallsIn
<1>4. \A c \in Call : Synced(c)' \/ pc'[c] = "sync" => unwritten'[c] = "none"
  BY <1>2
<1>5. \A c \in Call : Synced(c)' \/ pc'[c] = "sync" => c \notin CallsIn(tail')
  BY <1>2, <1>3
<1>6. \A c \in Call : Synced(c)' => \A image \in images' : Kept(c, image)'
  BY <1>2
<1> QED BY <1>4, <1>5, <1>6

(* A step that leaves the file alone and syncs nothing new. *)
LEMMA QuietStep ==
    ASSUME DurableInv, Typed', UNCHANGED fileVars,
           \A c \in Call : draft'[c] \in {draft[c], NoRecord} \/ draft'[c].call = c,
           \A c \in Call : Synced(c)' => Synced(c) /\ unwritten'[c] \in {unwritten[c], "none"},
           \A c \in Call : pc'[c] = "sync" => pc[c] = "sync" /\ unwritten'[c] = unwritten[c]
    PROVE  DurableInv'
<1>1. lines' = lines /\ tail' = tail /\ images' = images
  BY DEF fileVars
<1>2. \A c \in Call, image \in images : Kept(c, image)' <=> Kept(c, image)
  BY <1>1 DEF Kept
<1> QED BY <1>1, <1>2 DEF DurableInv

(* Every step of the code, and every failure, keeps it. *)
LEMMA DurableStep == DurableInv /\ [Next \/ Stop \/ DiskError]_vars => DurableInv'
<1> SUFFICES ASSUME DurableInv, [Next \/ Stop \/ DiskError]_vars PROVE DurableInv'
  OBVIOUS
<1>types. Typed'
  BY TypedStep DEF DurableInv
<1> USE DEF DurableInv, Typed, TypeOK
<1>1. ASSUME NEW c \in Call,
             Begin(c) \/ TakeWriteLock(c) \/ TakeFlock(c) \/ Unlock(c) \/ Close(c) \/ IOError(c)
      PROVE  DurableInv'
  BY <1>types, <1>1, QuietStep
     DEF Begin, TakeWriteLock, TakeFlock, Unlock, Close, Leave, IOError, GoTo, Synced, fileVars
<1>2. ASSUME NEW c \in Call, Scan(c) PROVE DurableInv'
  <2>1. NewRecord(LastRecord(Seen), c, KeyOf[LogOf[c]]).call = c
    BY DEF NewRecord
  <2> QED BY <1>types, <1>2, <2>1, QuietStep DEF Scan, Build, GoTo, Synced, fileVars
<1>3. ASSUME NEW c \in Call, WriteFront(c) PROVE DurableInv'
  <2>1. PICK cut \in CutsOf(c) : /\ Write(<<Front(draft[c], cut)>>, FALSE)
                                 /\ unwritten' = [unwritten EXCEPT ![c] = cut]
    BY <1>3 DEF WriteFront
  <2>2. /\ unwritten[c] # "none" /\ pc[c] = "write"
        /\ pc' = pc /\ failed' = failed /\ draft' = draft
    BY <1>3 DEF WriteFront
  <2>3. <<Front(draft[c], cut)>> \in Seq(Fragment) /\ CallsIn(<<Front(draft[c], cut)>>) \subseteq {c}
    BY <2>2, WritesOwn
  <2>4. ~ Synced(c)'
    BY <2>2 DEF Synced
  <2> QED BY <1>types, <2>1, <2>2, <2>3, <2>4, WriteStep
<1>4. ASSUME NEW c \in Call, WriteRest(c) PROVE DurableInv'
  <2>1. /\ unwritten[c] # "none" /\ draft' = draft /\ failed' = failed
        /\ pc' = [pc EXCEPT ![c] = "sync"] /\ unwritten' = [unwritten EXCEPT ![c] = "none"]
        /\ Write(Rest(draft[c], unwritten[c]), TRUE) /\ tail' = << >>
    BY <1>4 DEF WriteRest, GoTo, Write
  <2>2. /\ Rest(draft[c], unwritten[c]) \in Seq(Fragment)
        /\ CallsIn(Rest(draft[c], unwritten[c])) \subseteq {c}
    BY <2>1, WritesOwn
  <2>3. ~ Synced(c)'
    BY <2>1 DEF Synced
  <2> QED BY <1>types, <2>1, <2>2, <2>3, WriteStep
<1>5. ASSUME NEW c \in Call, Sync(c) PROVE DurableInv'
  <2>1. /\ lines' = lines /\ tail' = tail /\ images' = {Image(lines, tail)}
        /\ pc[c] = "sync" /\ pc' = [pc EXCEPT ![c] = "unlock"]
        /\ unwritten' = unwritten /\ failed' = failed /\ draft' = draft
    BY <1>5 DEF Sync, GoTo
  <2>2. \A d \in Call : Synced(d)' \/ pc'[d] = "sync" => Synced(d) \/ pc[d] = "sync"
    BY <2>1 DEF Synced
  <2>3. \A d \in Call : d \notin CallsIn(tail) => Kept(d, Image(lines, tail))'
    BY <2>1 DEF Kept, Image
  <2> QED BY <1>types, <2>1, <2>2, <2>3
<1>6. ASSUME NEW e \in Emission, CountLines(e) \/ ReadHead(e) PROVE DurableInv'
  BY <1>types, <1>6, QuietStep DEF CountLines, Count, ReadHead, callVars, Synced
<1>7. ASSUME NEW c \in Call, CloseFlushes(c) PROVE DurableInv'
  <2>1. /\ unwritten[c] # "none" /\ draft' = draft /\ failed' = failed
        /\ pc[c] = "close" /\ failed[c] /\ pc' = [pc EXCEPT ![c] = "raised"]
        /\ unwritten' = [unwritten EXCEPT ![c] = "none"]
    BY <1>7 DEF CloseFlushes, Leave, GoTo, Synced
  <2>2. ~ Synced(c)'
    BY <2>1 DEF Synced
  <2>3. CASE Write(Rest(draft[c], unwritten[c]), TRUE)
    BY <1>types, <2>1, <2>2, <2>3, WritesOwn, WriteStep
  <2>4. ASSUME NEW cut \in CutsOf(c), Write(<<Front(draft[c], cut)>>, FALSE) PROVE DurableInv'
    BY <1>types, <2>1, <2>2, <2>4, WritesOwn, WriteStep
  <2>5. CASE UNCHANGED fileVars
    BY <1>types, <2>1, <2>2, <2>5, QuietStep DEF Synced
  <2> QED BY <1>7, <2>3, <2>4, <2>5 DEF CloseFlushes
<1>8. ASSUME NEW l \in Log, Crash(l) PROVE DurableInv'
  BY <1>types, <1>8, QuietStep DEF Crash, Kill, Synced
<1>9. CASE PowerLoss
  <2>1. PICK image \in images :
            lines' = image.lines /\ tail' = image.tail /\ images' = {image}
    BY <1>9 DEF PowerLoss
  <2>2. ASSUME NEW c \in Call PROVE pc'[c] \notin {"sync", "unlock", "close"}
    BY <1>9, KeyType DEF PowerLoss, Kill, InFlight, Finished
  <2>3. ASSUME NEW c \in Call, pc'[c] = "returned"
        PROVE  pc[c] = "returned" /\ unwritten'[c] = unwritten[c]
    BY <1>9, <2>3, KeyType DEF PowerLoss, Kill, InFlight, Finished
  <2>4. ASSUME NEW c \in Call, draft'[c] # NoRecord PROVE draft'[c].call = c
    <3>1. draft'[c] = draft[c]
      BY <1>9, <2>4 DEF PowerLoss, Kill
    <3>2. draft[c].call = c
      BY <2>4, <3>1
    <3> QED BY <3>1, <3>2
  <2>5. ASSUME NEW c \in Call, Synced(c)' \/ pc'[c] = "sync"
        PROVE  unwritten'[c] = "none" /\ c \notin CallsIn(tail') /\ Kept(c, image)'
    <3>1. pc'[c] = "returned"
      BY <2>2, <2>5 DEF Synced
    <3>2. pc[c] = "returned" /\ unwritten'[c] = unwritten[c]
      BY <2>3, <3>1
    <3>3. unwritten[c] = "none" /\ Kept(c, image)
      BY <3>2 DEF Synced
    <3> QED BY <2>1, <3>2, <3>3 DEF Kept
  <2> QED BY <1>types, <2>1, <2>4, <2>5
<1>10. CASE UNCHANGED vars
  BY <1>types, <1>10, QuietStep DEF vars, fileVars, Synced
<1> QED BY <1>1, <1>2, <1>3, <1>4, <1>5, <1>6, <1>7, <1>8, <1>9, <1>10
        DEF Next, Step, Stop, DiskError, Idle

(* No step takes a line from the file, but for a power loss. *)
LEMMA LinesGrow ==
    ASSUME DurableInv, [Next \/ DiskError]_vars \/ \E l \in Log : Crash(l)
    PROVE  /\ Len(lines) \in Nat /\ Len(lines') \in Nat /\ Len(lines) <= Len(lines')
           /\ \A i \in 1..Len(lines) : lines'[i] = lines[i]
<1> DEFINE Longer == /\ Len(lines) \in Nat /\ Len(lines') \in Nat /\ Len(lines) <= Len(lines')
                     /\ \A i \in 1..Len(lines) : lines'[i] = lines[i]
<1> USE DEF DurableInv, Typed, TypeOK
<1>1. ASSUME NEW text \in Seq(Fragment), NEW newline \in BOOLEAN, Write(text, newline)
      PROVE  Longer
  <2> DEFINE open == tail \o text
  <2>1. open \in Seq(Fragment)
    BY ConcatProperties
  <2>2. CASE newline /\ open # << >>
    <3>1. Parse(open) \in Line /\ lines' = Append(lines, Parse(open))
      BY <1>1, <2>1, <2>2, ParseType DEF Write
    <3> QED BY <3>1, AppendProperties, LenProperties
  <2>3. CASE ~ (newline /\ open # << >>)
    <3>1. lines' = lines
      BY <1>1, <2>3 DEF Write
    <3> QED BY <3>1, LenProperties
  <2> QED BY <2>2, <2>3
<1>2. CASE lines' = lines
  <2>1. Longer
    BY <1>2, LenProperties
  <2> QED BY <2>1
<1>3. ASSUME NEW c \in Call, WriteFront(c) \/ WriteRest(c) \/ CloseFlushes(c)
      PROVE  Longer
  <2>1. unwritten[c] # "none"
    BY <1>3 DEF WriteFront, WriteRest, CloseFlushes
  <2>2. \/ \E cut \in CutsOf(c) : Write(<<Front(draft[c], cut)>>, FALSE)
        \/ Write(Rest(draft[c], unwritten[c]), TRUE)
        \/ lines' = lines
    BY <1>3 DEF WriteFront, WriteRest, CloseFlushes, fileVars
  <2>3. CASE lines' = lines
    BY <2>3, LenProperties
  <2> QED BY <1>1, <2>1, <2>2, <2>3, WritesOwn
<1>4. ASSUME NEW c \in Call, \/ Begin(c) \/ TakeWriteLock(c) \/ TakeFlock(c) \/ Scan(c)
                             \/ Sync(c) \/ Unlock(c) \/ Close(c) \/ IOError(c)
      PROVE  lines' = lines
  BY <1>4 DEF Begin, TakeWriteLock, TakeFlock, Scan, Build, Sync, Unlock, Close, IOError, fileVars
<1>5. ASSUME NEW e \in Emission, CountLines(e) \/ ReadHead(e)
      PROVE  lines' = lines
  BY <1>5 DEF CountLines, Count, ReadHead, fileVars
<1>6. ASSUME NEW l \in Log, Crash(l) PROVE lines' = lines
  BY <1>6 DEF Crash, fileVars
<1> QED BY <1>2, <1>3, <1>4, <1>5, <1>6 DEF Next, Step, DiskError, Idle, vars

(* A power loss leaves one of the images. *)
LEMMA LinesStay ==
    ASSUME DurableInv, [Next \/ Stop \/ DiskError]_vars
    PROVE  \/ /\ Len(lines) \in Nat /\ Len(lines') \in Nat /\ Len(lines) <= Len(lines')
              /\ \A i \in 1..Len(lines) : lines'[i] = lines[i]
           \/ \E image \in images : lines' = image.lines
<1>1. CASE PowerLoss
  BY <1>1 DEF PowerLoss
<1> QED BY <1>1, LinesGrow DEF Stop

(* Whatever dies, loses power or fails: a record that a receipt was handed *)
(* out for stays the line it is.                                           *)
THEOREM ReceiptsSurvive == FaultSpec => ReceiptsDurable
<1>1. DurableInv /\ [Next \/ Stop \/ DiskError]_vars =>
          [\A c \in Returned : \A i \in 1..Len(lines) :
              lines[i] = draft[c] => i \in 1..Len(lines') /\ lines'[i] = lines[i]]_vars
  <2> SUFFICES ASSUME DurableInv, [Next \/ Stop \/ DiskError]_vars,
                      NEW c \in Returned, NEW i \in 1..Len(lines), lines[i] = draft[c]
               PROVE  i \in 1..Len(lines') /\ lines'[i] = lines[i]
    OBVIOUS
  <2>1. Own(c, lines[i])
    <3>1. lines \in Seq(Line) /\ c \in Call /\ draft[c] \in SignedRecord \cup {NoRecord}
      BY DEF DurableInv, Typed, TypeOK, Returned
    <3>2. lines[i] \in Line
      BY <3>1, ElementOfSeq
    <3>3. draft[c] # NoRecord /\ draft[c] \in SignedRecord
      BY <3>1, <3>2, RecordAssumption
    <3> QED BY <3>1, <3>3, JunkAssumption DEF DurableInv, Own
  <2>2. \A image \in images : Kept(c, image)
    BY DEF DurableInv, Returned, Synced
  <2> QED BY <2>1, <2>2, LinesStay DEF Kept
<1> QED BY <1>1, DurableInit, DurableStep, PTL DEF FaultSpec, ReceiptsDurable

-----------------------------------------------------------------------------
(* Stops: the records that can be read are one chain *)

Chained(ls) ==
    \A i \in 1..Len(ls) :
        ls[i] \notin Junk => Extends(ls[i], LastRecord(SubSeq(ls, 1, i - 1)))

(* On disk too, whatever part of the file has reached it. *)
Chains == Chained(lines) /\ \A image \in images : Chained(image.lines)

(* What a writer writes stands behind the pieces a stopped one left, if    *)
(* any; only if there are none does its record follow the last of the log. *)
Behind(c) ==
    \E torn \in Seq(Fragment) :
        /\ tail = torn \o TailOf(c)
        /\ torn = << >> => draft[c] = NewRecord(LastRecord(lines), c, KeyOf[LogOf[c]])
WritesBehind == \A c \in Call : pc[c] = "write" => Behind(c)

StopInv == /\ Typed
           /\ FlockExclusive
           /\ WritesWhileHolding
           /\ WritesBehind
           /\ Chains

(* Nothing is in the file. *)
LEMMA StopInit == Init => StopInv
<1> SUFFICES ASSUME Init PROVE StopInv
  OBVIOUS
<1>1. Typed
  BY TypedInit
<1>2. Chained(<< >>)
  BY DEF Chained
<1>3. FlockExclusive
  BY CallAssumption DEF Init, FlockExclusive, Holding
<1> QED BY <1>1, <1>2, <1>3 DEF Init, StopInv, WritesWhileHolding, WritesBehind, Chains, Image

(* Junk, or a record that follows the last one, keeps a chain a chain. *)
LEMMA AppendChained ==
    ASSUME NEW ls \in Seq(Line), Chained(ls), NEW line \in Line,
           line \in Junk \/ Extends(line, LastRecord(ls))
    PROVE  Chained(Append(ls, line))
<1> DEFINE new == Append(ls, line)
<1>1. /\ new \in Seq(Line) /\ Len(new) = Len(ls) + 1 /\ Len(ls) \in Nat
      /\ \A i \in 1..Len(ls) : new[i] = ls[i]
      /\ new[Len(ls) + 1] = line
  BY AppendProperties, LenProperties
<1>2. ASSUME NEW n \in 0..Len(ls)
      PROVE  SubSeq(new, 1, n) = SubSeq(ls, 1, n)
  <2> DEFINE s == SubSeq(new, 1, n)
             t == SubSeq(ls, 1, n)
  <2>1. \A i \in 1..n : new[i] \in Line /\ ls[i] \in Line
    BY <1>1, ElementOfSeq
  <2>2. /\ s \in Seq(Line) /\ Len(s) = n /\ \A i \in 1..n : s[i] = new[i]
        /\ t \in Seq(Line) /\ Len(t) = n /\ \A i \in 1..n : t[i] = ls[i]
    BY <1>1, <2>1, SubSeqProperties
  <2>3. \A i \in 1..Len(s) : s[i] = t[i]
    BY <1>1, <2>2
  <2> HIDE DEF s, t
  <2>4. s = t
    BY <2>2, <2>3, SeqEqual
  <2> QED BY <2>4 DEF s, t
<1>3. SubSeq(ls, 1, Len(ls)) = ls
  <2> DEFINE t == SubSeq(ls, 1, Len(ls))
  <2>1. \A i \in 1..Len(ls) : ls[i] \in Line
    BY ElementOfSeq
  <2>2. t \in Seq(Line) /\ Len(t) = Len(ls) /\ \A i \in 1..Len(t) : t[i] = ls[i]
    BY <1>1, <2>1, SubSeqProperties
  <2> HIDE DEF t
  <2>3. t = ls
    BY <2>2, SeqEqual
  <2> QED BY <2>3 DEF t
<1> HIDE DEF new
<1>4. ASSUME NEW i \in 1..Len(new), new[i] \notin Junk
      PROVE  Extends(new[i], LastRecord(SubSeq(new, 1, i - 1)))
  <2>1. CASE i \in 1..Len(ls)
    <3>1. i - 1 \in 0..Len(ls) /\ new[i] = ls[i]
      BY <1>1, <2>1
    <3>2. SubSeq(new, 1, i - 1) = SubSeq(ls, 1, i - 1)
      BY <1>2, <3>1
    <3>3. Extends(ls[i], LastRecord(SubSeq(ls, 1, i - 1)))
      BY <1>4, <2>1, <3>1 DEF Chained
    <3> QED BY <3>1, <3>2, <3>3
  <2>2. CASE i = Len(ls) + 1
    <3>1. i - 1 = Len(ls) /\ SubSeq(new, 1, i - 1) = ls
      BY <1>1, <1>2, <1>3, <2>2
    <3> QED BY <1>1, <1>4, <2>2, <3>1
  <2> QED BY <1>1, <2>1, <2>2
<1> QED BY <1>4 DEF Chained, new

(* Behind the pieces a stopped writer left, no record is whole. *)
LEMMA SpoiltIsJunk ==
    ASSUME NEW torn \in Seq(Fragment), torn # << >>,
           NEW r \in SignedRecord, NEW part \in {"all"} \cup Cut
    PROVE  Parse((torn \o Begun(r, part)) \o Rest(r, part)) \in Junk
<1> DEFINE text == (torn \o Begun(r, part)) \o Rest(r, part)
<1>1. Len(torn) \in Nat /\ Len(torn) > 0
  BY EmptySeq, LenProperties
<1>2. \A f \in Fragment : /\ <<f>> \in Seq(Fragment) /\ Len(<<f>>) = 1 /\ <<f>>[1] = f
  OBVIOUS
<1>3. /\ \A cut \in Cut : Front(r, cut) \in Fragment /\ Back(r, cut) \in Fragment
      /\ \A cut \in Cut : Front(r, cut).half = "front"
      /\ "end" \in Cut
  BY DEF Front, Back, Fragment, Cut
<1>4. CASE part \in {"all", "end"}
  <2> DEFINE f == Front(r, "end")
  <2>1. text = torn \o <<f>>
    <3>1. torn \o <<f>> \in Seq(Fragment)
      BY <1>2, <1>3, ConcatProperties
    <3> QED BY <1>4, <3>1, ConcatEmptySeq DEF Begun, Rest
  <2>2. f \in Fragment /\ f.half = "front"
    BY <1>3
  <2> HIDE DEF f, text
  <2>3. Len(text) = Len(torn) + 1 /\ text[Len(torn) + 1] = f
    BY <1>1, <1>2, <2>1, <2>2, ConcatProperties
  <2>4. ~ Whole(text)
    BY <1>1, <2>2, <2>3 DEF Whole, Joins
  <2> QED BY <2>4 DEF Parse, Junk, text
<1>5. CASE part \in {"text", "char"}
  <2> DEFINE f == Front(r, part)
             b == Back(r, part)
  <2>1. text = (torn \o <<f>>) \o <<b>> /\ f \in Fragment /\ b \in Fragment
    BY <1>3, <1>5 DEF Begun, Rest, Cut
  <2> HIDE DEF f, b, text
  <2>2. torn \o <<f>> \in Seq(Fragment) /\ Len(torn \o <<f>>) = Len(torn) + 1
    BY <1>1, <1>2, <2>1, ConcatProperties
  <2>3. Len(text) = Len(torn) + 2
    BY <1>1, <1>2, <2>1, <2>2, ConcatProperties
  <2>4. ~ Whole(text)
    BY <1>1, <2>3 DEF Whole
  <2> QED BY <2>4 DEF Parse, Junk, text
<1> QED BY <1>4, <1>5 DEF Cut

(* The last write of a call adds one line to the chain: its record, or     *)
(* junk where it stands behind another's pieces.                           *)
LEMMA RestWritten ==
    ASSUME Typed, Chains, NEW c \in Call, unwritten[c] # "none", Behind(c),
           Write(Rest(draft[c], unwritten[c]), TRUE)
    PROVE  /\ Chains'
           /\ \E line \in {draft[c]} \cup Junk :
                 /\ line \in Line /\ lines' = Append(lines, line)
                 /\ line \in Junk \/ line = NewRecord(LastRecord(lines), c, KeyOf[LogOf[c]])
<1> DEFINE text == tail \o Rest(draft[c], unwritten[c])
<1>1. /\ unwritten[c] \in {"all"} \cup Cut /\ draft[c] \in SignedRecord
      /\ lines \in Seq(Line) /\ Chained(lines)
  BY DEF Typed, TypeOK, Chains
<1>2. PICK torn \in Seq(Fragment) :
          /\ tail = torn \o TailOf(c)
          /\ torn = << >> => draft[c] = NewRecord(LastRecord(lines), c, KeyOf[LogOf[c]])
  BY DEF Behind
<1>3. Begun(draft[c], unwritten[c]) \in Seq(Fragment)
  <2>1. unwritten[c] # "all" => Front(draft[c], unwritten[c]) \in Fragment
    BY <1>1 DEF Front, Fragment
  <2>2. << >> \in Seq(Fragment) /\ \A f \in Fragment : <<f>> \in Seq(Fragment)
    OBVIOUS
  <2> QED BY <2>1, <2>2 DEF Begun
<1>4. PICK line \in {draft[c]} \cup Junk :
          /\ text # << >> /\ line = Parse(text)
          /\ line \in Junk \/ Extends(line, LastRecord(lines))
          /\ line \in Junk \/ line = NewRecord(LastRecord(lines), c, KeyOf[LogOf[c]])
  <2>1. CASE torn = << >>
    <3>1. tail = Begun(draft[c], unwritten[c])
      BY <1>2, <1>3, <2>1, ConcatEmptySeq DEF TailOf
    <3>2. text # << >> /\ Parse(text) = draft[c]
      BY <1>1, <3>1, ParseOwn
    <3>3. Extends(draft[c], LastRecord(lines))
      BY <1>2, <2>1 DEF NewRecord, Extends
    <3> QED BY <1>2, <2>1, <3>2, <3>3
  <2>2. CASE torn # << >>
    <3>1. Parse(text) \in Junk
      BY <1>1, <1>2, <2>2, SpoiltIsJunk DEF TailOf
    <3>2. text # << >>
      <4>1. Rest(draft[c], unwritten[c]) \in Seq(Fragment)
        BY <1>1, RestType
      <4>2. /\ Len(torn) \in Nat /\ Len(torn) > 0
            /\ tail \in Seq(Fragment) /\ Len(tail) >= Len(torn)
        BY <1>2, <1>3, <2>2, EmptySeq, LenProperties, ConcatProperties DEF TailOf
      <4>3. Len(text) > 0
        BY <4>1, <4>2, LenProperties, ConcatProperties
      <4> QED BY <4>3
    <3> QED BY <3>1, <3>2
  <2> QED BY <2>1, <2>2
<1>5. line \in Line /\ lines' = Append(lines, line)
  BY <1>1, <1>4 DEF Write, Line
<1>6. Chained(lines')
  BY <1>1, <1>4, <1>5, AppendChained
<1>7. images' = images \cup {Image(lines', tail')}
  BY DEF Write
<1>8. \A image \in images' : Chained(image.lines)
  BY <1>6, <1>7 DEF Chains, Image
<1>9. Chains'
  BY <1>6, <1>8 DEF Chains
<1> QED BY <1>4, <1>5, <1>9

(* Its first write leaves the call behind what it was behind. *)
LEMMA FrontWritten ==
    ASSUME Typed, Chains, NEW c \in Call, unwritten[c] = "all", Behind(c),
           NEW cut \in CutsOf(c), Write(<<Front(draft[c], cut)>>, FALSE)
    PROVE  /\ Chains'
           /\ draft' = draft /\ unwritten'[c] = cut => Behind(c)'
<1>1. /\ lines' = lines /\ tail' = tail \o <<Front(draft[c], cut)>>
      /\ images' = images \cup {Image(lines', tail')}
  BY DEF Write
<1>2. PICK torn \in Seq(Fragment) :
          /\ tail = torn \o TailOf(c)
          /\ torn = << >> => draft[c] = NewRecord(LastRecord(lines), c, KeyOf[LogOf[c]])
  BY DEF Behind
<1>3. tail = torn
  BY <1>2, ConcatEmptySeq DEF TailOf, Begun
<1>4. ASSUME draft' = draft, unwritten'[c] = cut PROVE TailOf(c)' = <<Front(draft[c], cut)>>
  BY <1>4 DEF TailOf, Begun, CutsOf, Cut
<1>5. draft' = draft /\ unwritten'[c] = cut => Behind(c)'
  BY <1>1, <1>2, <1>3, <1>4 DEF Behind
<1>6. Chains'
  BY <1>1 DEF Chains, Image
<1> QED BY <1>5, <1>6

(* Whoever reads the last record holds the flock until its own is written  *)
(* or it is dead; what it finds behind the last newline spoils its line.   *)
LEMMA StopStep == StopInv /\ [Next \/ Stop]_vars => StopInv'
<1> SUFFICES ASSUME StopInv, [Next \/ Stop]_vars PROVE StopInv'
  OBVIOUS
<1>types. Typed'
  BY TypedStep DEF StopInv
<1> DEFINE Writers == FlockExclusive /\ WritesWhileHolding /\ WritesBehind
<1> USE DEF StopInv, Typed, TypeOK
<1>file. UNCHANGED fileVars => Chains'
  BY DEF fileVars, Chains
<1>quiet. ASSUME UNCHANGED fileVars, Writers' PROVE StopInv'
  BY <1>types, <1>file, <1>quiet
<1>1. ASSUME NEW c \in Call, \/ Begin(c) \/ TakeWriteLock(c) \/ TakeFlock(c)
                             \/ Unlock(c) \/ Close(c)
      PROVE  StopInv'
  <2>1. UNCHANGED fileVars /\ draft' = draft /\ pc[c] # "write" /\ pc'[c] # "write"
    BY <1>1 DEF Begin, TakeWriteLock, TakeFlock, Unlock, Close, Leave, GoTo
  <2>2. FlockExclusive'
    BY <1>1, CallAssumption DEF Begin, TakeWriteLock, TakeFlock, Unlock, Close, Leave, GoTo,
       FlockExclusive, Holding
  <2>3. WritesWhileHolding'
    BY <1>1 DEF Begin, TakeWriteLock, TakeFlock, Unlock, Close, Leave, GoTo, WritesWhileHolding
  <2>4. \A d \in Call : pc'[d] = "write" => pc[d] = "write" /\ unwritten'[d] = unwritten[d]
    BY <1>1 DEF Begin, TakeWriteLock, TakeFlock, Unlock, Close, Leave, GoTo
  <2>5. WritesBehind'
    BY <2>1, <2>4 DEF WritesBehind, Behind, TailOf, fileVars
  <2> QED BY <1>quiet, <2>1, <2>2, <2>3, <2>5
<1>2. ASSUME NEW c \in Call, Scan(c) PROVE StopInv'
  <2>1. UNCHANGED fileVars /\ flock' = flock /\ pc[c] = "scan"
    BY <1>2 DEF Scan, Build
  <2>2. \A d \in Call : pc[d] # "write"
    BY <2>1 DEF FlockExclusive, Holding
  <2>3. CASE Build(c, LastRecord(Seen))
    <3>1. /\ pc' = [pc EXCEPT ![c] = "write"] /\ unwritten' = [unwritten EXCEPT ![c] = "all"]
          /\ draft'[c] = NewRecord(LastRecord(Seen), c, KeyOf[LogOf[c]])
      BY <2>3 DEF Build, GoTo
    <3>2. FlockExclusive' /\ WritesWhileHolding'
      BY <2>1, <3>1 DEF FlockExclusive, Holding, WritesWhileHolding
    <3>3. tail = tail \o TailOf(c)'
      BY <3>1, ConcatEmptySeq DEF TailOf, Begun
    <3>4. tail = << >> => draft'[c] = NewRecord(LastRecord(lines), c, KeyOf[LogOf[c]])
      BY <3>1 DEF Seen
    <3>5. WritesBehind'
      BY <2>1, <2>2, <3>1, <3>3, <3>4 DEF WritesBehind, Behind, fileVars
    <3> QED BY <1>quiet, <2>1, <3>2, <3>5
  <2>4. CASE GoTo(c, "unlock") /\ UNCHANGED <<draft, unwritten>>
    <3>1. FlockExclusive' /\ WritesWhileHolding' /\ WritesBehind'
      BY <2>1, <2>2, <2>4 DEF GoTo, FlockExclusive, Holding, WritesWhileHolding, WritesBehind
    <3> QED BY <1>quiet, <2>1, <3>1
  <2> QED BY <1>2, <2>3, <2>4 DEF Scan
<1>3. ASSUME NEW c \in Call, WriteFront(c) PROVE StopInv'
  <2>1. PICK cut \in CutsOf(c) : /\ Write(<<Front(draft[c], cut)>>, FALSE)
                                 /\ unwritten' = [unwritten EXCEPT ![c] = cut]
    BY <1>3 DEF WriteFront
  <2>2. /\ pc[c] = "write" /\ unwritten[c] = "all" /\ UNCHANGED <<flock, pc, draft>>
    BY <1>3 DEF WriteFront
  <2>3. Chains' /\ Behind(c)'
    BY <2>1, <2>2, FrontWritten DEF WritesBehind
  <2>4. \A d \in Call : pc'[d] = "write" => d = c
    BY <2>2 DEF FlockExclusive, Holding
  <2>5. FlockExclusive' /\ WritesWhileHolding'
    BY <2>1, <2>2 DEF FlockExclusive, WritesWhileHolding
  <2>6. WritesBehind'
    BY <2>3, <2>4 DEF WritesBehind
  <2> QED BY <1>types, <2>3, <2>5, <2>6
<1>4. ASSUME NEW c \in Call, WriteRest(c) PROVE StopInv'
  <2>1. /\ pc[c] = "write" /\ unwritten[c] # "none"
        /\ pc' = [pc EXCEPT ![c] = "sync"] /\ unwritten' = [unwritten EXCEPT ![c] = "none"]
        /\ flock' = flock
    BY <1>4 DEF WriteRest, GoTo
  <2>2. Chains'
    BY <1>4, <2>1, RestWritten DEF WriteRest, WritesBehind
  <2>3. \A d \in Call : pc'[d] # "write"
    BY <2>1 DEF FlockExclusive, Holding
  <2>4. Writers'
    BY <2>1, <2>3 DEF FlockExclusive, Holding, WritesWhileHolding, WritesBehind
  <2> QED BY <1>types, <2>2, <2>4
<1>5. ASSUME NEW c \in Call, Sync(c) PROVE StopInv'
  <2>1. /\ lines' = lines /\ tail' = tail /\ images' = {Image(lines, tail)}
        /\ pc[c] = "sync" /\ pc' = [pc EXCEPT ![c] = "unlock"]
        /\ UNCHANGED <<flock, draft, unwritten>>
    BY <1>5 DEF Sync, GoTo
  <2>2. Chains'
    BY <2>1 DEF Chains, Image
  <2>3. Writers'
    BY <2>1 DEF FlockExclusive, Holding, WritesWhileHolding, WritesBehind, Behind, TailOf
  <2> QED BY <1>types, <2>2, <2>3
<1>6. CASE UNCHANGED <<fileVars, callVars>>
  BY <1>quiet, <1>6 DEF fileVars, callVars, FlockExclusive, WritesWhileHolding, WritesBehind,
                        Behind, TailOf
<1>7. ASSUME NEW e \in Emission, CountLines(e) \/ ReadHead(e) PROVE StopInv'
  BY <1>6, <1>7 DEF CountLines, Count, ReadHead
<1>8. ASSUME NEW logs \in SUBSET Log, Kill(logs)
      PROVE  /\ FlockExclusive' /\ WritesWhileHolding'
             /\ \A c \in Call : pc'[c] = "write" =>
                   /\ pc[c] = "write" /\ LogOf[c] \notin logs
                   /\ unwritten'[c] = unwritten[c] /\ draft'[c] = draft[c]
  <2> DEFINE gone == {c \in Call : LogOf[c] \in logs /\ InFlight(c)}
  <2>1. /\ pc' = [c \in Call |-> IF c \in gone THEN "dead" ELSE pc[c]]
        /\ flock' = IF flock \in gone THEN NoCall ELSE flock
        /\ unwritten' = [c \in Call |-> IF c \in gone THEN "none" ELSE unwritten[c]]
        /\ draft' = [c \in Call |-> IF c \in gone THEN NoRecord ELSE draft[c]]
    BY <1>8 DEF Kill
  <2>2. gone \subseteq Call /\ \A c \in Call : pc[c] = "write" /\ LogOf[c] \in logs => c \in gone
    BY DEF InFlight, Finished
  <2> HIDE DEF gone
  <2>3. FlockExclusive'
    BY <2>1, <2>2, CallAssumption DEF FlockExclusive, Holding
  <2>4. WritesWhileHolding'
    BY <2>1, <2>2 DEF WritesWhileHolding
  <2>5. ASSUME NEW c \in Call, pc'[c] = "write"
        PROVE  /\ pc[c] = "write" /\ LogOf[c] \notin logs
               /\ unwritten'[c] = unwritten[c] /\ draft'[c] = draft[c]
    BY <2>1, <2>2, <2>5
  <2> QED BY <2>3, <2>4, <2>5
<1>9. ASSUME NEW l \in Log, Crash(l) PROVE StopInv'
  <2>1. UNCHANGED fileVars /\ Kill({l}) /\ {l} \in SUBSET Log
    BY <1>9 DEF Crash
  <2>2. WritesBehind'
    <3> SUFFICES ASSUME NEW c \in Call, pc'[c] = "write" PROVE Behind(c)'
      BY DEF WritesBehind
    <3>1. pc[c] = "write" /\ unwritten'[c] = unwritten[c] /\ draft'[c] = draft[c]
      BY <1>8, <2>1
    <3>2. TailOf(c)' = TailOf(c) /\ tail' = tail /\ lines' = lines
      BY <2>1, <3>1 DEF TailOf, fileVars
    <3> QED BY <3>1, <3>2 DEF WritesBehind, Behind
  <2> QED BY <1>8, <1>quiet, <2>1, <2>2
<1>10. CASE PowerLoss
  <2>1. PICK image \in images :
            lines' = image.lines /\ tail' = image.tail /\ images' = {image}
    BY <1>10 DEF PowerLoss
  <2>2. Kill(Log)
    BY <1>10 DEF PowerLoss
  <2>3. Chains'
    BY <2>1 DEF Chains
  <2>4. \A c \in Call : pc'[c] # "write"
    BY <1>8, <2>2, KeyType
  <2>5. Writers'
    BY <1>8, <2>2, <2>4 DEF WritesBehind
  <2> QED BY <1>types, <2>3, <2>5
<1>11. CASE UNCHANGED vars
  BY <1>6, <1>11 DEF vars, fileVars, callVars
<1> QED BY <1>1, <1>2, <1>3, <1>4, <1>5, <1>7, <1>9, <1>10, <1>11
        DEF Next, Step, Stop, Idle

(* Wherever processes die or the machine stops, the records of the log     *)
(* that can be read are one chain: what is spoiled is left out by the next *)
(* append, and nothing that can be read follows on it.                     *)
THEOREM ReadableThroughStops == CrashSpec => []ReadableChain
<1>1. StopInv => ReadableChain
  BY DEF StopInv, Chains, Chained, ReadableChain
<1> QED BY <1>1, StopInit, StopStep, PTL DEF CrashSpec

-----------------------------------------------------------------------------
(* Stops: what makes an append raise *)

(* The caller's fault, or that of the log it was made on. *)
Excused(c) == c \in Unhashable \cup Unsignable \/ KeyOf[LogOf[c]] = NoKey
TextTorn == Undecodable \in {Seen[i] : i \in 1..Len(Seen)}

(* An exception on its way out was met in a text that is torn still: with  *)
(* it in the file, no scan comes to its end, and so nobody is writing.     *)
TornFails ==
    \A c \in Call : failed[c] /\ pc[c] # "raised" =>
        Excused(c) \/ (TextTorn /\ \A d \in Call : pc[d] # "write")

(* An exception leads out, whatever stops. *)
LEMMA FailedLeavesStep == Typed /\ FailedLeaves /\ [Next \/ Stop]_vars => FailedLeaves'
<1> SUFFICES ASSUME Typed, FailedLeaves, [Next \/ Stop]_vars PROVE FailedLeaves'
  OBVIOUS
<1> USE DEF Typed, TypeOK, FailedLeaves
<1>1. ASSUME NEW c \in Call, Begin(c) \/ Step(c) PROVE FailedLeaves'
  BY <1>1 DEF Begin, Step, TakeWriteLock, TakeFlock, Scan, Build, WriteFront, WriteRest, Sync,
              Unlock, Close, Leave, GoTo
<1>2. ASSUME NEW logs \in SUBSET Log, Kill(logs) PROVE FailedLeaves'
  BY <1>2 DEF Kill
<1>3. CASE Stop
  BY <1>2, <1>3 DEF Stop, PowerLoss, Crash
<1>4. CASE pc' = pc /\ failed' = failed
  BY <1>4
<1> QED BY <1>1, <1>3, <1>4 DEF Next, CountLines, Count, ReadHead, callVars, Idle, vars

(* A torn text stays until the machine stops, which ends the calls that    *)
(* met it.                                                                 *)
LEMMA TornStep ==
    StopInv /\ FailedLeaves /\ TornFails /\ [Next \/ Stop]_vars => TornFails'
<1> SUFFICES ASSUME StopInv, FailedLeaves, TornFails, [Next \/ Stop]_vars PROVE TornFails'
  OBVIOUS
<1> USE DEF TornFails, StopInv, Typed, TypeOK
<1>excused. \A c \in Call : Excused(c)' <=> Excused(c)
  BY DEF Excused
<1>quiet. ASSUME UNCHANGED fileVars, \A c \in Call : pc'[c] = "write" => pc[c] = "write",
                 \A c \in Call : failed'[c] /\ pc'[c] # "raised" =>
                                     failed[c] /\ pc[c] # "raised"
          PROVE  TornFails'
  <2>1. TextTorn' <=> TextTorn
    BY <1>quiet DEF TextTorn, Seen, fileVars
  <2> QED BY <1>excused, <1>quiet, <2>1
<1>1. ASSUME NEW c \in Call, \/ Begin(c) \/ TakeWriteLock(c) \/ TakeFlock(c)
                             \/ Unlock(c) \/ Close(c)
      PROVE  TornFails'
  BY <1>1, <1>quiet DEF Begin, TakeWriteLock, TakeFlock, Unlock, Close, Leave, GoTo
<1>2. ASSUME NEW c \in Call, Scan(c) PROVE TornFails'
  <2>1. UNCHANGED fileVars /\ (TextTorn' <=> TextTorn)
    BY <1>2 DEF Scan, Build, TextTorn, Seen, fileVars
  <2>2. \A d \in Call : pc[d] # "write"
    BY <1>2 DEF Scan, FlockExclusive, Holding
  <2>3. CASE TextTorn \/ c \in Unsignable
    <3>1. failed' = [failed EXCEPT ![c] = TRUE] /\ pc' = [pc EXCEPT ![c] = "unlock"]
      BY <1>2, <2>3 DEF Scan, GoTo, TextTorn
    <3>2. \A d \in Call : pc'[d] # "write"
      BY <2>2, <3>1
    <3>3. TextTorn \/ Excused(c)
      BY <2>3 DEF Excused
    <3>4. \A d \in Call : d # c => pc'[d] = pc[d] /\ failed'[d] = failed[d]
      BY <3>1
    <3> QED BY <1>excused, <2>1, <3>2, <3>3, <3>4
  <2>4. CASE ~ (TextTorn \/ c \in Unsignable)
    <3>1. failed' = failed /\ pc' = [pc EXCEPT ![c] = "write"]
      BY <1>2, <2>4 DEF Scan, Build, GoTo, TextTorn
    <3>2. \A d \in Call : failed'[d] /\ pc'[d] # "raised" => failed[d] /\ pc[d] # "raised"
      BY <1>2, <3>1 DEF Scan
    <3> QED BY <1>excused, <2>4, <3>2
  <2> QED BY <2>3, <2>4
<1>3. ASSUME NEW c \in Call, WriteFront(c) \/ WriteRest(c) PROVE TornFails'
  <2>1. pc[c] = "write" /\ failed' = failed
    BY <1>3 DEF WriteFront, WriteRest
  <2>2. \A d \in Call : pc'[d] = "raised" <=> pc[d] = "raised"
    BY <1>3 DEF WriteFront, WriteRest, GoTo
  <2> QED BY <1>excused, <2>1, <2>2
<1>4. ASSUME NEW c \in Call, Sync(c) PROVE TornFails'
  <2>1. TextTorn' <=> TextTorn
    BY <1>4 DEF Sync, TextTorn, Seen
  <2>2. failed' = failed /\ pc' = [pc EXCEPT ![c] = "unlock"] /\ pc[c] = "sync"
    BY <1>4 DEF Sync, GoTo
  <2> QED BY <1>excused, <2>1, <2>2
<1>5. ASSUME NEW e \in Emission, CountLines(e) \/ ReadHead(e) PROVE TornFails'
  BY <1>5, <1>quiet DEF CountLines, Count, ReadHead, callVars
<1>6. ASSUME NEW l \in Log, Crash(l) PROVE TornFails'
  BY <1>6, <1>quiet DEF Crash, Kill
<1>7. CASE PowerLoss
  <2>1. ASSUME NEW c \in Call, failed'[c], pc'[c] # "raised" PROVE Excused(c)
    <3>1. failed[c] /\ pc[c] # "raised" /\ ~ InFlight(c)
      BY <1>7, <2>1, KeyType DEF PowerLoss, Kill
    <3> QED BY <3>1 DEF FailedLeaves, InFlight, Finished
  <2> QED BY <1>excused, <2>1
<1>8. CASE UNCHANGED vars
  BY <1>8, <1>quiet DEF vars, fileVars
<1> QED BY <1>1, <1>2, <1>3, <1>4, <1>5, <1>6, <1>7, <1>8 DEF Next, Step, Stop, Idle

(* Wherever processes die or the machine stops, an append raises only for  *)
(* what its caller did, a log without a key, or a text that is torn in the *)
(* file at that moment: no other trace of a write that was cut short       *)
(* stands in its way.                                                      *)
THEOREM OnlyTornTextRaises == CrashSpec => OnlyTornTextStopsAppends
<1>1. Init => FailedLeaves /\ TornFails
  BY DEF Init, FailedLeaves, TornFails
<1>2. StopInv /\ FailedLeaves /\ TornFails /\ [Next \/ Stop]_vars =>
          [\A c \in Call : pc[c] # "raised" /\ pc'[c] = "raised" =>
              \/ c \in Unhashable \cup Unsignable \/ KeyOf[LogOf[c]] = NoKey
              \/ \E i \in 1..Len(Seen) : Seen[i] = Undecodable]_vars
  <2> SUFFICES ASSUME StopInv, FailedLeaves, TornFails, [Next \/ Stop]_vars,
                      NEW c \in Call, pc[c] # "raised", pc'[c] = "raised"
               PROVE  Excused(c) \/ TextTorn
    BY DEF Excused, TextTorn
  <2> USE DEF StopInv, Typed, TypeOK
  <2>1. Begin(c) \/ Close(c)
    <3>1. ASSUME NEW d \in Call, d # c, Begin(d) \/ Step(d) PROVE pc'[c] = pc[c]
      BY <3>1 DEF Begin, Step, TakeWriteLock, TakeFlock, Scan, Build, WriteFront, WriteRest,
                  Sync, Unlock, Close, Leave, GoTo
    <3>2. Step(c) => Close(c)
      BY DEF Step, TakeWriteLock, TakeFlock, Scan, Build, WriteFront, WriteRest, Sync, Unlock,
             GoTo
    <3>3. ~ Stop
      BY DEF Stop, PowerLoss, Crash, Kill
    <3> QED BY <3>1, <3>2, <3>3 DEF Next, CountLines, Count, ReadHead, callVars, Idle, vars
  <2>2. CASE Begin(c)
    BY <2>2 DEF Begin, GoTo, Excused
  <2>3. CASE Close(c)
    <3>1. failed[c]
      BY <2>3 DEF Close, Leave, GoTo
    <3> QED BY <3>1 DEF TornFails
  <2> QED BY <2>1, <2>2, <2>3
<1>3. StopInv => Typed
  BY DEF StopInv
<1> QED BY <1>1, <1>2, <1>3, StopInit, StopStep, FailedLeavesStep, TornStep, PTL
        DEF CrashSpec, OnlyTornTextStopsAppends

-----------------------------------------------------------------------------
(* All failures: who waits for a lock waits for the living *)

(* A lock that is taken is taken by a call of the right object that is     *)
(* between taking it and giving it back.                                   *)
LocksInUse ==
    /\ Typed
    /\ flock # NoCall => pc[flock] \in Holding
    /\ \A l \in Log : wlock[l] # NoCall => LogOf[wlock[l]] = l /\ pc[wlock[l]] \in Within

(* Both locks are free. *)
LEMMA LocksInit == Init => LocksInUse
BY TypedInit DEF Init, LocksInUse

(* Each way out of append gives both back, and so does a death.            *)
LEMMA LocksStep == LocksInUse /\ [Next \/ Stop \/ DiskError]_vars => LocksInUse'
<1> SUFFICES ASSUME LocksInUse, [Next \/ Stop \/ DiskError]_vars PROVE LocksInUse'
  OBVIOUS
<1>types. Typed'
  BY TypedStep DEF LocksInUse
<1> USE DEF LocksInUse, Typed, TypeOK, Holding, Within
<1>1. \A c \in Call : c # NoCall /\ LogOf[c] \in Log /\ (flock = c => pc[c] \in Holding)
  BY KeyType, CallAssumption
<1>2. ASSUME NEW c \in Call, NEW step, pc' = [pc EXCEPT ![c] = step],
             flock' \in {flock, NoCall} \/ flock' = c,
             \/ wlock' = wlock \/ wlock' = [wlock EXCEPT ![LogOf[c]] = NoCall]
             \/ wlock' = [wlock EXCEPT ![LogOf[c]] = c] /\ step \in Within,
             flock' = c => step \in Holding,
             pc[c] \in Within /\ step \notin Within => wlock'[LogOf[c]] = NoCall
      PROVE  LocksInUse'
  <2>1. \A d \in Call : d # c => pc'[d] = pc[d]
    BY <1>2
  <2>2. pc'[c] = step /\ c # NoCall
    BY <1>2, CallAssumption
  <2>3. flock' # NoCall => pc'[flock'] \in Holding
    BY <1>2, <2>1, <2>2
  <2>4. ASSUME NEW l \in Log, wlock'[l] # NoCall
        PROVE  LogOf[wlock'[l]] = l /\ pc'[wlock'[l]] \in Within
    <3>1. CASE wlock'[l] = wlock[l]
      BY <1>1, <1>2, <2>1, <2>2, <2>4, <3>1
    <3>2. CASE wlock'[l] # wlock[l]
      BY <1>1, <1>2, <2>2, <2>4, <3>2
    <3> QED BY <3>1, <3>2
  <2> QED BY <1>types, <2>3, <2>4
<1>3. ASSUME NEW c \in Call, Begin(c) \/ TakeWriteLock(c) \/ TakeFlock(c) \/ Scan(c)
      PROVE  LocksInUse'
  <2>1. CASE Begin(c)
    BY <1>1, <1>2, <2>1 DEF Begin, GoTo
  <2>2. CASE TakeWriteLock(c)
    BY <1>1, <1>2, <2>2 DEF TakeWriteLock, GoTo
  <2>3. CASE TakeFlock(c)
    BY <1>1, <1>2, <2>3 DEF TakeFlock, GoTo
  <2>4. CASE Scan(c)
    BY <1>1, <1>2, <2>4 DEF Scan, Build, GoTo
  <2> QED BY <1>3, <2>1, <2>2, <2>3, <2>4
<1>4. ASSUME NEW c \in Call, \/ WriteFront(c) \/ WriteRest(c) \/ Sync(c) \/ Unlock(c)
                             \/ Close(c) \/ IOError(c) \/ CloseFlushes(c)
      PROVE  LocksInUse'
  <2>1. CASE WriteFront(c)
    BY <1>types, <2>1 DEF WriteFront
  <2>2. CASE WriteRest(c) \/ Sync(c)
    <3>1. /\ UNCHANGED <<wlock, flock>> /\ pc[c] \in Holding
          /\ \E step \in Holding : pc' = [pc EXCEPT ![c] = step]
      BY <2>2 DEF WriteRest, Sync, GoTo
    <3> QED BY <1>1, <1>2, <3>1
  <2>3. CASE Unlock(c) \/ IOError(c)
    BY <1>1, <1>2, <2>3 DEF Unlock, IOError, GoTo
  <2>4. CASE Close(c) \/ CloseFlushes(c)
    <3>1. /\ wlock' = [wlock EXCEPT ![LogOf[c]] = NoCall] /\ flock' = flock
          /\ pc' = [pc EXCEPT ![c] = IF failed[c] THEN "raised" ELSE "returned"]
          /\ pc[c] = "close"
      BY <2>4 DEF Close, CloseFlushes, Leave, GoTo
    <3> QED BY <1>1, <1>2, <3>1
  <2> QED BY <1>4, <2>1, <2>2, <2>3, <2>4
<1>5. ASSUME NEW logs \in SUBSET Log, Kill(logs)
      PROVE  /\ flock' # NoCall => pc'[flock'] \in Holding
             /\ \A l \in Log : wlock'[l] # NoCall =>
                    LogOf[wlock'[l]] = l /\ pc'[wlock'[l]] \in Within
  <2>1. \A c \in Call : pc[c] \in Within => InFlight(c)
    BY DEF InFlight, Finished
  <2> QED BY <1>5, <2>1, CallAssumption DEF Kill
<1>6. CASE Stop
  BY <1>types, <1>5, <1>6 DEF Stop, Crash, PowerLoss
<1>7. CASE UNCHANGED <<pc, wlock, flock>>
  BY <1>types, <1>7
<1> QED BY <1>2, <1>3, <1>4, <1>6, <1>7
        DEF Next, Step, DiskError, CountLines, Count, ReadHead, callVars, Idle, vars

(* Whatever fails, an append that waits waits for one that is under way    *)
(* and further on, and that one, if it waits too, for one that does not.   *)
(* With the fairness of FairFaultSpec that is why every append ends.       *)
THEOREM NobodyWaitsForTheDead == FaultSpec => []WaitsForTheLiving
<1>1. LocksInUse => WaitsForTheLiving
  BY KeyType DEF LocksInUse, WaitsForTheLiving, Awaited
<1> QED BY <1>1, LocksInit, LocksStep, PTL DEF FaultSpec

-----------------------------------------------------------------------------
(* All failures, one process: the records that can be read are one chain *)

SameProcess == \A c, d \in Call : LogOf[c] = LogOf[d]

WriteLockExclusive == \A c \in Call : pc[c] \in Within <=> wlock[LogOf[c]] = c

(* The buffer of a call whose flush failed may go out after the flock is   *)
(* released, but not after _write_lock is.                                 *)
FlushesWithin == \A c \in Call : unwritten[c] # "none" =>
                     pc[c] \in {"write", "unlock", "close"} /\ Behind(c)

SoleInv == Typed /\ WriteLockExclusive /\ FlushesWithin /\ Chains

(* Nobody is within. *)
LEMMA SoleInit == Init => SoleInv
<1> SUFFICES ASSUME Init PROVE SoleInv
  OBVIOUS
<1>1. Typed /\ Chains
  BY StopInit DEF StopInv
<1>2. WriteLockExclusive
  BY CallAssumption, KeyType DEF Init, WriteLockExclusive, Within, Holding
<1> QED BY <1>1, <1>2 DEF Init, SoleInv, FlushesWithin

(* What is flushed late is flushed before the next append reads the log.   *)
LEMMA SoleStep ==
    SameProcess /\ SoleInv /\ [Next \/ Stop \/ DiskError]_vars => SoleInv'
<1> SUFFICES ASSUME SameProcess, SoleInv, [Next \/ Stop \/ DiskError]_vars
             PROVE  SoleInv'
  OBVIOUS
<1>types. Typed'
  BY TypedStep DEF SoleInv
<1> USE DEF SoleInv, Typed, TypeOK
<1>within. \A c, d \in Call : pc[c] \in Within /\ pc[d] \in Within => c = d
  <2> SUFFICES ASSUME NEW c \in Call, NEW d \in Call, pc[c] \in Within, pc[d] \in Within
               PROVE  c = d
    OBVIOUS
  <2>1. wlock[LogOf[c]] = c /\ wlock[LogOf[d]] = d
    BY DEF WriteLockExclusive
  <2>2. LogOf[c] = LogOf[d]
    BY DEF SameProcess
  <2> QED BY <2>1, <2>2
<1>file. UNCHANGED fileVars => Chains'
  BY DEF fileVars, Chains
<1>behind. ASSUME UNCHANGED fileVars, NEW c \in Call, draft'[c] = draft[c],
                  unwritten'[c] = unwritten[c], Behind(c)
           PROVE  Behind(c)'
  BY <1>behind DEF fileVars, Behind, TailOf
<1>quiet. ASSUME UNCHANGED fileVars, WriteLockExclusive',
                 \A c \in Call : unwritten'[c] # "none" =>
                     /\ unwritten'[c] = unwritten[c] /\ draft'[c] = draft[c]
                     /\ pc'[c] \in {"write", "unlock", "close"}
          PROVE  SoleInv'
  <2>1. FlushesWithin'
    BY <1>behind, <1>quiet DEF FlushesWithin
  <2> QED BY <1>types, <1>file, <1>quiet, <2>1
<1>alone. ASSUME NEW c \in Call, pc[c] \in Within, WriteLockExclusive', Chains',
                 \A d \in Call : d # c => unwritten'[d] = unwritten[d],
                 unwritten'[c] # "none" =>
                     pc'[c] \in {"write", "unlock", "close"} /\ Behind(c)'
          PROVE  SoleInv'
  <2>1. \A d \in Call : unwritten[d] # "none" => d = c
    BY <1>within, <1>alone DEF FlushesWithin, Within, Holding
  <2>2. FlushesWithin'
    BY <1>alone, <2>1 DEF FlushesWithin
  <2> QED BY <1>types, <1>alone, <2>2
<1>1. ASSUME NEW c \in Call, \/ Begin(c) \/ TakeWriteLock(c) \/ TakeFlock(c) \/ Unlock(c)
                             \/ Close(c) \/ IOError(c)
      PROVE  SoleInv'
  <2>1. UNCHANGED fileVars
    BY <1>1 DEF Begin, TakeWriteLock, TakeFlock, Unlock, Close, IOError
  <2>2. WriteLockExclusive'
    BY <1>1, CallAssumption, KeyType, <1>within
       DEF Begin, TakeWriteLock, TakeFlock, Unlock, Close, Leave, IOError, GoTo,
           WriteLockExclusive, Within, Holding, SameProcess
  <2>3. \A d \in Call : unwritten'[d] # "none" =>
            /\ unwritten'[d] = unwritten[d] /\ draft'[d] = draft[d]
            /\ pc'[d] \in {"write", "unlock", "close"}
    BY <1>1 DEF Begin, TakeWriteLock, TakeFlock, Unlock, Close, Leave, IOError, GoTo,
                FlushesWithin
  <2> QED BY <1>quiet, <2>1, <2>2, <2>3
<1>2. ASSUME NEW c \in Call, Scan(c) PROVE SoleInv'
  <2>1. UNCHANGED <<fileVars, wlock>> /\ pc[c] = "scan" /\ pc'[c] \in {"write", "unlock"}
        /\ \A d \in Call : d # c => /\ pc'[d] = pc[d] /\ unwritten'[d] = unwritten[d]
    BY <1>2 DEF Scan, Build, GoTo
  <2>2. WriteLockExclusive' /\ Chains' /\ pc[c] \in Within
    BY <1>file, <2>1 DEF WriteLockExclusive, Within, Holding
  <2>3. ASSUME unwritten'[c] # "none" PROVE pc'[c] = "write" /\ Behind(c)'
    <3>1. /\ unwritten'[c] = "all" /\ pc'[c] = "write"
          /\ draft'[c] = NewRecord(LastRecord(Seen), c, KeyOf[LogOf[c]])
      BY <1>2, <2>1, <2>3 DEF Scan, Build, GoTo, FlushesWithin
    <3>2. tail = tail \o TailOf(c)'
      BY <3>1, ConcatEmptySeq DEF TailOf, Begun
    <3>3. tail = << >> => draft'[c] = NewRecord(LastRecord(lines), c, KeyOf[LogOf[c]])
      BY <3>1 DEF Seen
    <3> QED BY <2>1, <3>1, <3>2, <3>3 DEF Behind, fileVars
  <2> QED BY <1>alone, <2>1, <2>2, <2>3
<1>3. ASSUME NEW c \in Call, WriteFront(c) PROVE SoleInv'
  <2>1. PICK cut \in CutsOf(c) : /\ Write(<<Front(draft[c], cut)>>, FALSE)
                                 /\ unwritten' = [unwritten EXCEPT ![c] = cut]
    BY <1>3 DEF WriteFront
  <2>2. pc[c] = "write" /\ unwritten[c] = "all" /\ UNCHANGED <<wlock, pc, draft>>
    BY <1>3 DEF WriteFront
  <2>3. Chains' /\ Behind(c)' /\ WriteLockExclusive'
    BY <2>1, <2>2, FrontWritten DEF FlushesWithin, WriteLockExclusive
  <2> QED BY <1>alone, <2>1, <2>2, <2>3 DEF Within, Holding
<1>4. ASSUME NEW c \in Call, WriteRest(c) PROVE SoleInv'
  <2>1. /\ pc[c] = "write" /\ unwritten[c] # "none" /\ wlock' = wlock
        /\ pc' = [pc EXCEPT ![c] = "sync"] /\ unwritten' = [unwritten EXCEPT ![c] = "none"]
    BY <1>4 DEF WriteRest, GoTo
  <2>2. Chains' /\ WriteLockExclusive'
    BY <1>4, <2>1, RestWritten DEF WriteRest, FlushesWithin, WriteLockExclusive, Within, Holding
  <2> QED BY <1>alone, <2>1, <2>2 DEF Within, Holding
<1>5. ASSUME NEW c \in Call, Sync(c) PROVE SoleInv'
  <2>1. /\ lines' = lines /\ tail' = tail /\ images' = {Image(lines, tail)}
        /\ pc[c] = "sync" /\ pc' = [pc EXCEPT ![c] = "unlock"]
        /\ UNCHANGED <<wlock, draft, unwritten>>
    BY <1>5 DEF Sync, GoTo
  <2>2. Chains' /\ WriteLockExclusive'
    BY <2>1 DEF Chains, Image, WriteLockExclusive, Within, Holding
  <2>3. unwritten[c] = "none"
    BY <2>1 DEF FlushesWithin
  <2> QED BY <1>alone, <2>1, <2>2, <2>3 DEF Within, Holding
<1>6. ASSUME NEW c \in Call, CloseFlushes(c) PROVE SoleInv'
  <2>1. /\ pc[c] = "close" /\ unwritten[c] # "none" /\ Behind(c)
        /\ wlock' = [wlock EXCEPT ![LogOf[c]] = NoCall]
        /\ pc' = [pc EXCEPT ![c] = IF failed[c] THEN "raised" ELSE "returned"]
        /\ unwritten' = [unwritten EXCEPT ![c] = "none"]
    BY <1>6 DEF CloseFlushes, Leave, GoTo, FlushesWithin
  <2>2. Chains'
    <3>1. CASE Write(Rest(draft[c], unwritten[c]), TRUE)
      BY <2>1, <3>1, RestWritten
    <3>2. ASSUME NEW cut \in CutsOf(c), unwritten[c] = "all",
                 Write(<<Front(draft[c], cut)>>, FALSE)
          PROVE  Chains'
      BY <2>1, <3>2, FrontWritten
    <3> QED BY <1>6, <1>file, <3>1, <3>2 DEF CloseFlushes
  <2>3. WriteLockExclusive'
    BY <1>within, <2>1, CallAssumption, KeyType DEF WriteLockExclusive, Within, Holding, SameProcess
  <2> QED BY <1>alone, <2>1, <2>2, <2>3 DEF Within, Holding
<1>7. ASSUME NEW e \in Emission, CountLines(e) \/ ReadHead(e) PROVE SoleInv'
  <2>1. UNCHANGED <<fileVars, wlock, pc, draft, unwritten>>
    BY <1>7 DEF CountLines, Count, ReadHead, callVars
  <2> QED BY <1>quiet, <2>1 DEF WriteLockExclusive, FlushesWithin
<1>8. ASSUME NEW logs \in SUBSET Log, Kill(logs)
      PROVE  /\ WriteLockExclusive'
             /\ \A c \in Call : unwritten'[c] # "none" =>
                   /\ unwritten'[c] = unwritten[c] /\ draft'[c] = draft[c]
                   /\ pc'[c] \in {"write", "unlock", "close"} /\ LogOf[c] \notin logs
  <2>1. \A c \in Call : LogOf[c] \in Log
    BY KeyType
  <2>2. \A c \in Call : pc[c] \in Within => InFlight(c)
    BY DEF Within, Holding, InFlight, Finished
  <2>3. WriteLockExclusive'
    BY <1>8, <2>1, <2>2, CallAssumption DEF Kill, WriteLockExclusive, Within, Holding, InFlight, Finished
  <2> QED BY <1>8, <2>2, <2>3 DEF Kill, FlushesWithin, Within, Holding
<1>9. ASSUME NEW l \in Log, Crash(l) PROVE SoleInv'
  <2>1. UNCHANGED fileVars /\ Kill({l}) /\ {l} \in SUBSET Log
    BY <1>9 DEF Crash
  <2> QED BY <1>8, <1>quiet, <2>1
<1>10. CASE PowerLoss
  <2>1. PICK image \in images : lines' = image.lines /\ images' = {image}
    BY <1>10 DEF PowerLoss
  <2>2. Kill(Log)
    BY <1>10 DEF PowerLoss
  <2>3. Chains'
    BY <2>1 DEF Chains
  <2>4. \A c \in Call : unwritten'[c] = "none"
    BY <1>8, <2>2, KeyType
  <2> QED BY <1>types, <1>8, <2>2, <2>3, <2>4 DEF FlushesWithin
<1>11. CASE UNCHANGED vars
  <2>1. UNCHANGED <<fileVars, wlock, pc, draft, unwritten>>
    BY <1>11 DEF vars, fileVars
  <2> QED BY <1>quiet, <2>1 DEF WriteLockExclusive, FlushesWithin
<1> QED BY <1>1, <1>2, <1>3, <1>4, <1>5, <1>6, <1>7, <1>9, <1>10, <1>11
        DEF Next, Step, Stop, DiskError, Idle

(* As long as one process writes, the records of the log that can be read  *)
(* are one chain whatever fails, disk errors included: _write_lock is held *)
(* until close() has written what a failed flush left.  (With two, see     *)
(* LateFlush: the flock is given back before.)                             *)
THEOREM ReadableInOneProcess ==
    ASSUME SameProcess
    PROVE  FaultSpec => []ReadableChain
<1>1. SoleInv /\ [Next \/ Stop \/ DiskError]_vars => SoleInv'
  BY SoleStep
<1>2. SoleInv => ReadableChain
  BY DEF SoleInv, Chains, Chained, ReadableChain
<1> QED BY <1>1, <1>2, SoleInit, PTL DEF FaultSpec
-----------------------------------------------------------------------------
(* What the call writes and the disk keeps: append is what CrashLog says *)

Broken(c) == pc[c] = "raised" /\ draft[c] # NoRecord
NobodyDied == \A c \in Call : pc[c] # "dead"
NobodyStopped == NobodyDied /\ \A c \in Call : ~ Broken(c)

(* Whatever part of the file has reached the disk, its lines are the first *)
(* ones of the file.                                                       *)
ImagesBehind ==
    \A image \in images : /\ Len(image.lines) <= Len(lines)
                          /\ \A i \in 1..Len(image.lines) : image.lines[i] = lines[i]

(* A call has a draft from its scan on, and none if it fails before.       *)
Drafted ==
    \A c \in Call : /\ pc[c] \in {"idle", "lock", "flock", "scan"} => draft[c] = NoRecord
                    /\ Synced(c) \/ pc[c] = "sync" => draft[c] # NoRecord

Accounted == DurableInv /\ ImagesBehind /\ FailedLeaves /\ WriterHasKey /\ Drafted

(* What is flushed goes behind what can be read, and makes a record of it  *)
(* unless somebody was stopped within a write.                             *)
WritesWell ==
    \A c \in Call : unwritten[c] # "none" /\ pc[c] \in {"write", "close"} =>
        Chains /\ Behind(c) /\ (NobodyStopped => tail = TailOf(c))

(* No call has begun. *)
LEMMA AccountedInit == Init => Accounted
<1> SUFFICES ASSUME Init PROVE Accounted
  OBVIOUS
<1>1. ImagesBehind
  BY DEF Init, ImagesBehind, Image
<1>2. FailedLeaves /\ WriterHasKey /\ Drafted
  BY DEF Init, FailedLeaves, WriterHasKey, Drafted, Synced
<1> QED BY <1>1, <1>2, DurableInit DEF Accounted

(* A call that is over stays so. *)
LEMMA OverIsOver ==
    ASSUME Typed, [Next \/ Stop \/ DiskError]_vars, NEW c \in Call, pc[c] \in Finished
    PROVE  pc'[c] = pc[c] /\ draft'[c] = draft[c]
<1> USE DEF Typed, TypeOK
<1>1. ASSUME NEW d \in Call, Begin(d) \/ Step(d) \/ IOError(d) \/ CloseFlushes(d)
      PROVE  pc[d] \notin Finished /\ \A e \in Call : e # d => pc'[e] = pc[e] /\ draft'[e] = draft[e]
  BY <1>1 DEF Begin, Step, TakeWriteLock, TakeFlock, Scan, Build, WriteFront, WriteRest, Sync,
              Unlock, Close, Leave, IOError, CloseFlushes, GoTo, Finished
<1>2. CASE Stop
  <2>1. PICK logs \in SUBSET Log : Kill(logs)
    BY <1>2 DEF Stop, PowerLoss, Crash
  <2> QED BY <2>1 DEF Kill, InFlight
<1>3. CASE UNCHANGED <<pc, draft>>
  BY <1>3
<1> QED BY <1>1, <1>2, <1>3
        DEF Next, DiskError, CountLines, Count, ReadHead, callVars, Idle, vars

(* Who was stopped stays stopped. *)
LEMMA StoppedStay ==
    ASSUME Typed, [Next \/ Stop \/ DiskError]_vars
    PROVE  /\ NobodyDied' => NobodyDied
           /\ NobodyStopped' => NobodyStopped
<1>1. \A c \in Call : pc[c] \in {"dead", "raised"} => pc'[c] = pc[c] /\ draft'[c] = draft[c]
  BY OverIsOver DEF Finished
<1> QED BY <1>1 DEF NobodyStopped, NobodyDied, Broken

(* A step that writes adds its image; fsync leaves that of the file alone. *)
LEMMA ImageSteps ==
    ASSUME Typed, [Next \/ Stop \/ DiskError]_vars
    PROVE  images' \subseteq images \cup {Image(lines', tail')} \/ \E c \in Call : Sync(c)
<1>1. ASSUME NEW c \in Call, WriteFront(c) \/ WriteRest(c) \/ CloseFlushes(c)
      PROVE  images' \subseteq images \cup {Image(lines', tail')}
  BY <1>1 DEF WriteFront, WriteRest, CloseFlushes, Write, fileVars
<1>2. CASE Stop
  BY <1>2 DEF Stop, PowerLoss, Crash, fileVars
<1> QED BY <1>1, <1>2
        DEF Next, Step, Begin, TakeWriteLock, TakeFlock, Scan, Build, Unlock, Close, fileVars,
            DiskError, IOError, CountLines, Count, ReadHead, Idle, vars

(* A line that is written comes behind those of every image. *)
LEMMA ImagesBehindStep ==
    ASSUME DurableInv, ImagesBehind, [Next \/ Stop \/ DiskError]_vars
    PROVE  ImagesBehind'
<1> USE DEF DurableInv, Typed, TypeOK
<1>1. CASE PowerLoss
  <2>1. PICK image \in images : lines' = image.lines /\ images' = {image}
    BY <1>1 DEF PowerLoss
  <2> QED BY <2>1, LenProperties DEF ImagesBehind
<1>2. CASE ~ PowerLoss
  <2>1. /\ Len(lines) \in Nat /\ Len(lines') \in Nat /\ Len(lines) <= Len(lines')
        /\ \A i \in 1..Len(lines) : lines'[i] = lines[i]
    BY <1>2, LinesGrow DEF Stop
  <2>2. \A image \in images : Len(image.lines) \in Nat
    BY LenProperties
  <2>3. images' \subseteq images \cup {Image(lines', tail')}
    <3>1. ASSUME NEW c \in Call, Sync(c) PROVE images' = {Image(lines', tail')}
      BY <3>1 DEF Sync
    <3> QED BY <3>1, ImageSteps
  <2> QED BY <2>1, <2>2, <2>3 DEF ImagesBehind, Image
<1> QED BY <1>1, <1>2

(* An exception leads out, and no call without a key gets to the locks.    *)
LEMMA FailedKeyStep ==
    ASSUME DurableInv, FailedLeaves, WriterHasKey, [Next \/ Stop \/ DiskError]_vars
    PROVE  FailedLeaves' /\ WriterHasKey'
<1> USE DEF DurableInv, Typed, TypeOK
<1>1. CASE [Next]_vars
  BY <1>1, FailedLeavesStep, WriterHasKeyStep
<1>2. CASE Stop
  <2>1. WriterHasKey'
    <3>1. PICK logs \in SUBSET Log : Kill(logs)
      BY <1>2 DEF Stop, PowerLoss, Crash
    <3> QED BY <3>1 DEF Kill, WriterHasKey
  <2> QED BY <1>2, <2>1, FailedLeavesStep
<1>3. ASSUME NEW c \in Call, IOError(c) PROVE FailedLeaves' /\ WriterHasKey'
  BY <1>3 DEF IOError, GoTo, FailedLeaves, WriterHasKey
<1>4. ASSUME NEW c \in Call, CloseFlushes(c) PROVE FailedLeaves' /\ WriterHasKey'
  <2>1. failed[c]
    BY <1>4 DEF CloseFlushes, Synced
  <2> QED BY <1>4, <2>1 DEF CloseFlushes, Leave, GoTo, FailedLeaves, WriterHasKey
<1> QED BY <1>1, <1>2, <1>3, <1>4 DEF DiskError

(* A draft is built by the scan, and what is on its way out has failed.    *)
LEMMA DraftedStep ==
    ASSUME DurableInv, Drafted, [Next \/ Stop \/ DiskError]_vars
    PROVE  Drafted'
<1> USE DEF DurableInv, Typed, TypeOK, Drafted, Synced
<1>1. ASSUME NEW c \in Call, Begin(c) \/ TakeWriteLock(c) \/ TakeFlock(c) \/ Scan(c) \/ IOError(c)
      PROVE  Drafted'
  BY <1>1 DEF Begin, TakeWriteLock, TakeFlock, Scan, Build, IOError, GoTo
<1>2. ASSUME NEW c \in Call, WriteFront(c) \/ WriteRest(c) PROVE Drafted'
  <2>1. draft[c] # NoRecord
    BY <1>2, RecordAssumption DEF WriteFront, WriteRest, Line
  <2> QED BY <1>2, <2>1 DEF WriteFront, WriteRest, GoTo
<1>3. ASSUME NEW c \in Call, Sync(c) \/ Unlock(c) \/ Close(c) \/ CloseFlushes(c)
      PROVE  Drafted'
  BY <1>3 DEF Sync, Unlock, Close, CloseFlushes, Leave, GoTo
<1>4. CASE Stop
  <2>1. PICK logs \in SUBSET Log : Kill(logs)
    BY <1>4 DEF Stop, PowerLoss, Crash
  <2>2. \A c \in Call : \/ pc'[c] = pc[c] /\ draft'[c] = draft[c] /\ failed'[c] = failed[c]
                        \/ pc'[c] = "dead"
    BY <2>1 DEF Kill
  <2> QED BY <2>2
<1>5. CASE UNCHANGED <<pc, draft, failed>>
  BY <1>5
<1> QED BY <1>1, <1>2, <1>3, <1>4, <1>5
        DEF Next, Step, DiskError, CountLines, Count, ReadHead, callVars, Idle, vars

(* The parts are kept together. *)
LEMMA AccountedStep == Accounted /\ [Next \/ Stop \/ DiskError]_vars => Accounted'
BY DurableStep, ImagesBehindStep, FailedKeyStep, DraftedStep DEF Accounted

-----------------------------------------------------------------------------
(* How a stop looks in CrashLog: the calls under way die. *)
LEMMA KillOutcomes ==
    ASSUME Typed, NEW logs \in SUBSET Log, Kill(logs), NEW c \in Call
    PROVE  CrashOutcome(c)' = IF LogOf[c] \in logs /\ InFlight(c) THEN "dead" ELSE CrashOutcome(c)
BY DEF Kill, CrashOutcome, Typed, TypeOK, InFlight, Finished

(* The calls under way are those that are neither over nor just called. *)
LEMMA OutcomeOfInFlight ==
    ASSUME Typed, NEW c \in Call
    PROVE  /\ InFlight(c) => CrashOutcome(c) \in {"pending", "written"}
           /\ CrashOutcome(c) = "written" => InFlight(c)
           /\ CrashOutcome(c) = "returned" => pc[c] = "returned"
           /\ CrashOutcome(c) = "dead" <=> pc[c] = "dead"
           /\ CrashOutcome(c) = "broken" <=> Broken(c)
BY DEF InFlight, Finished, CrashOutcome, Typed, TypeOK, Broken

(* A power loss takes lines from the end, none that a receipt is out for.  *)
LEMMA LossOfLines ==
    ASSUME Accounted, PowerLoss
    PROVE  \E n \in 0..Len(lines) :
              /\ \A i \in n + 1..Len(lines) :
                    lines[i] \in Junk \/ pc[lines[i].call] # "returned"
              /\ lines' = SubSeq(lines, 1, n)
<1> USE DEF Accounted, DurableInv, Typed, TypeOK
<1>1. PICK image \in images : lines' = image.lines
  BY DEF PowerLoss
<1>2. /\ image.lines \in Seq(Line) /\ Len(image.lines) \in 0..Len(lines)
      /\ \A i \in 1..Len(image.lines) : image.lines[i] = lines[i]
  BY <1>1, LenProperties DEF ImagesBehind
<1> DEFINE n == Len(image.lines)
<1>3. lines' = SubSeq(lines, 1, n)
  <2>1. /\ SubSeq(lines, 1, n) \in Seq(Line) /\ Len(SubSeq(lines, 1, n)) = n
        /\ \A i \in 1..n : SubSeq(lines, 1, n)[i] = lines[i]
    <3>1. \A j \in 1..n : lines[j] \in Line
      BY <1>2, ElementOfSeq, LenProperties
    <3>2. 1 \in Int /\ n \in Int
      BY <1>2
    <3> QED BY <1>2, <3>1, <3>2, SubSeqProperties
  <2> HIDE DEF n
  <2> QED BY <1>1, <1>2, <2>1, SeqEqual DEF n
<1>4. ASSUME NEW i \in n + 1..Len(lines), lines[i] \notin Junk
      PROVE  pc[lines[i].call] # "returned"
  <2> DEFINE c == lines[i].call
  <2>1. i \in 1..Len(lines) /\ i \notin 1..n /\ lines[i] \in SignedRecord
    <3>1. i \in 1..Len(lines) /\ i \notin 1..n
      BY <1>2, <1>4, LenProperties
    <3> QED BY <1>4, <3>1, ElementOfSeq DEF Line
  <2>2. c \in Call /\ Own(c, lines[i])
    BY <1>4, <2>1 DEF SignedRecord, Own
  <2> HIDE DEF c
  <2>3. pc[c] = "returned" => Kept(c, image)
    BY <2>2 DEF Synced
  <2>4. ~ Kept(c, image)
    BY <2>1, <2>2 DEF Kept
  <2> QED BY <2>3, <2>4 DEF c
<1> QED BY <1>2, <1>3, <1>4

(* What a flush that ends the line writes is what CrashLog writes. *)
LEMMA RestIsWrites ==
    ASSUME Accounted, WritesWell, NEW c \in Call, unwritten[c] # "none",
           pc[c] \in {"write", "close"}, Write(Rest(draft[c], unwritten[c]), TRUE)
    PROVE  Surviving!Writes(c)
<1> DEFINE own == NewRecord(LastRecord(lines), c, KeyOf[LogOf[c]])
           outcome == [d \in Call |-> CrashOutcome(d)]
<1>typed. Typed /\ TypeOK
  BY DEF Accounted, DurableInv, Typed
<1>1. draft[c] \in SignedRecord /\ unwritten[c] \in {"all"} \cup Cut /\ lines \in Seq(Line)
  BY <1>typed DEF Typed, TypeOK
<1>2. Chains /\ Behind(c) /\ (NobodyStopped => tail = TailOf(c))
  BY DEF WritesWell
<1>3. PICK line \in Line : lines' = Append(lines, line) /\ (line \in Junk \/ line = own)
  BY <1>2, <1>typed, RestWritten
<1>4. NobodyStopped => line = own
  <2> SUFFICES ASSUME NobodyStopped PROVE line = own
    OBVIOUS
  <2>1. tail = Begun(draft[c], unwritten[c])
    BY <1>2 DEF TailOf
  <2>2. lines' = Append(lines, draft[c]) /\ draft[c] \in Line
    BY <1>1, <2>1, ParseOwn DEF Write, Line
  <2>3. lines'[Len(lines) + 1] = line
    BY <1>1, <1>3, AppendProperties
  <2>4. lines'[Len(lines) + 1] = draft[c]
    BY <1>1, <2>2, AppendProperties
  <2> QED BY <1>1, <1>3, <2>3, <2>4, JunkAssumption
<1>5. [d \in Call |-> KeyOf[LogOf[d]]][c] = KeyOf[LogOf[c]] /\ KeyOf[LogOf[c]] \in Key
  BY DEF Accounted, WriterHasKey
<1>6. LastRecord(lines) = Surviving!Last
  BY DEF LastRecord, Surviving!Last, Junk, Surviving!Junk
<1>7. own = Surviving!NewRecord(Surviving!Last, c, [d \in Call |-> KeyOf[LogOf[d]]][c])
  BY <1>5, <1>6 DEF NewRecord, NextSeq, HeadHash, EntryHash, ZERO_HASH,
     Surviving!NewRecord, Surviving!NextSeq, Surviving!HeadHash, Surviving!EntryHash,
     Surviving!ZERO_HASH
<1>8. line \in Junk /\ ~ NobodyStopped => line \in Surviving!Spoilt
  <2> SUFFICES ASSUME line \in Junk, NEW d \in Call, pc[d] = "dead" \/ Broken(d)
               PROVE  line \in Surviving!Spoilt
    BY DEF NobodyStopped, NobodyDied
  <2>1. outcome[d] \in {"dead", "broken"}
    BY <1>typed, OutcomeOfInFlight
  <2> QED BY <2>1 DEF Surviving!Spoilt, Junk, Surviving!Junk
<1> HIDE DEF own, outcome
<1>9. line \in {Surviving!NewRecord(Surviving!Last, c, [d \in Call |-> KeyOf[LogOf[d]]][c])}
                  \cup Surviving!Spoilt
  BY <1>3, <1>4, <1>7, <1>8
<1> QED BY <1>3, <1>5, <1>9 DEF Surviving!Writes

(* Every step is one of CrashLog or not seen there: the write of the       *)
(* newline writes the line; the close of the file returns, rejects or, if  *)
(* the disk failed, breaks; a stop kills.                                  *)
LEMMA OutcomeStep ==
    ASSUME Accounted, Accounted', WritesWell, [Next \/ Stop \/ DiskError]_vars
    PROVE  \/ Surviving!Next \/ UNCHANGED Surviving!vars
           \/ \E c \in Call : Surviving!Break(c) /\ Broken(c)'
<1> DEFINE outcome == [c \in Call |-> CrashOutcome(c)]
           Mapped == \/ Surviving!Next \/ UNCHANGED Surviving!vars
                    \/ \E c \in Call : Surviving!Break(c) /\ Broken(c)'
<1>typed. Typed /\ TypeOK /\ TypeOK'
  BY DEF Accounted, DurableInv, Typed
<1>drafted. /\ \A c \in Call : pc[c] \in {"idle", "lock", "flock", "scan"} => draft[c] = NoRecord
            /\ \A c \in Call : unwritten[c] # "none" => draft[c] # NoRecord
            /\ \A c \in Call : pc[c] = "write" => unwritten[c] # "none"
            /\ \A c \in Call : Synced(c) \/ pc[c] = "sync" =>
                   draft[c] # NoRecord /\ unwritten[c] = "none"
  BY <1>typed, RecordAssumption DEF Accounted, DurableInv, Typed, Drafted, Line
<1> USE DEF TypeOK
<1>1. \A c \in Call : outcome[c] = CrashOutcome(c) /\ outcome'[c] = CrashOutcome(c)'
  OBVIOUS
<1>2. ASSUME lines' = lines, \A c \in Call : CrashOutcome(c)' = CrashOutcome(c)
      PROVE  Mapped
  BY <1>2 DEF Surviving!vars
<1>3. ASSUME NEW c \in Call, \A d \in Call : d # c => /\ pc'[d] = pc[d] /\ draft'[d] = draft[d]
                                                     /\ unwritten'[d] = unwritten[d]
      PROVE  outcome' = [outcome EXCEPT ![c] = CrashOutcome(c)']
  <2>1. \A d \in Call : d # c => CrashOutcome(d)' = CrashOutcome(d)
    BY <1>3 DEF CrashOutcome
  <2> QED BY <2>1
<1>4. ASSUME NEW c \in Call, Begin(c) PROVE Mapped
  <2>1. lines' = lines /\ pc[c] = "idle" /\ UNCHANGED <<draft, unwritten>>
    BY <1>4 DEF Begin, fileVars
  <2>2. CrashOutcome(c) = "pending" /\ draft'[c] = NoRecord
    BY <1>drafted, <2>1 DEF CrashOutcome, Finished
  <2>3. CASE pc' = [pc EXCEPT ![c] = "raised"]
    <3>1. CrashOutcome(c)' = "raised"
      BY <1>typed, <2>2, <2>3 DEF CrashOutcome, Finished
    <3>2. outcome' = [outcome EXCEPT ![c] = "raised"]
      BY <1>3, <1>typed, <2>1, <2>3, <3>1
    <3> QED BY <2>1, <2>2, <3>2 DEF Surviving!Next, Surviving!Reject
  <2>4. CASE pc' = [pc EXCEPT ![c] = "lock"]
    <3>1. \A d \in Call : CrashOutcome(d)' = CrashOutcome(d)
      BY <1>typed, <2>1, <2>4 DEF CrashOutcome, Finished
    <3> QED BY <1>2, <2>1, <3>1
  <2> QED BY <1>4, <2>3, <2>4 DEF Begin, GoTo
<1>5. ASSUME NEW c \in Call, \/ TakeWriteLock(c) \/ TakeFlock(c) \/ Scan(c) \/ WriteFront(c)
                             \/ Sync(c) \/ Unlock(c) \/ IOError(c)
      PROVE  Mapped
  <2>1. lines' = lines
    <3>1. CASE WriteFront(c)
      BY <3>1 DEF WriteFront, Write
    <3> QED BY <1>5, <3>1 DEF TakeWriteLock, TakeFlock, Scan, Build, Sync, Unlock, IOError, fileVars
  <2>2. \A d \in Call : d # c => /\ pc'[d] = pc[d] /\ draft'[d] = draft[d]
                                 /\ unwritten'[d] = unwritten[d]
    BY <1>5, <1>typed DEF TakeWriteLock, TakeFlock, Scan, Build, WriteFront, Sync, Unlock, IOError, GoTo
  <2>3. CrashOutcome(c)' = CrashOutcome(c)
    <3>1. CASE \/ TakeWriteLock(c) \/ TakeFlock(c) \/ Scan(c)
      BY <1>typed, <1>drafted, <3>1
         DEF TakeWriteLock, TakeFlock, Scan, Build, GoTo, CrashOutcome, Finished
    <3>2. CASE WriteFront(c)
      BY <1>typed, <1>drafted, <3>2 DEF WriteFront, CutsOf, Cut, CrashOutcome, Finished
    <3>3. CASE \/ Sync(c) \/ Unlock(c)
      BY <1>typed, <1>drafted, <3>3 DEF Sync, Unlock, GoTo, CrashOutcome, Finished
    <3>4. CASE IOError(c)
      BY <1>typed, <1>drafted, <3>4 DEF IOError, GoTo, CrashOutcome, Finished
    <3> QED BY <1>5, <3>1, <3>2, <3>3, <3>4
  <2>4. \A d \in Call : CrashOutcome(d)' = CrashOutcome(d)
    BY <2>2, <2>3 DEF CrashOutcome
  <2> QED BY <1>2, <2>1, <2>4
<1>6. ASSUME NEW c \in Call, WriteRest(c) PROVE Mapped
  <2>1. /\ pc[c] = "write" /\ pc' = [pc EXCEPT ![c] = "sync"] /\ draft' = draft
        /\ unwritten' = [unwritten EXCEPT ![c] = "none"]
        /\ Write(Rest(draft[c], unwritten[c]), TRUE)
    BY <1>6 DEF WriteRest, GoTo
  <2>2. CrashOutcome(c) = "pending" /\ CrashOutcome(c)' = "written"
    BY <1>typed, <1>drafted, <2>1 DEF CrashOutcome, Finished
  <2>3. outcome' = [outcome EXCEPT ![c] = "written"]
    BY <1>3, <1>typed, <2>1, <2>2
  <2>4. Surviving!Writes(c)
    BY <1>drafted, <2>1, RestIsWrites
  <2> QED BY <2>2, <2>3, <2>4 DEF Surviving!Next, Surviving!Write
<1>7. ASSUME NEW c \in Call, Close(c) \/ CloseFlushes(c) PROVE Mapped
  <2>1. /\ pc[c] = "close" /\ draft' = draft
        /\ pc' = [pc EXCEPT ![c] = IF failed[c] THEN "raised" ELSE "returned"]
        /\ unwritten' = [unwritten EXCEPT ![c] = "none"]
    BY <1>7 DEF Close, CloseFlushes, Leave, GoTo
  <2>2. outcome' = [outcome EXCEPT ![c] = CrashOutcome(c)']
    BY <1>3, <1>typed, <2>1
  <2>3. lines' = lines \/ (unwritten[c] # "none" /\ Surviving!Writes(c))
    <3>1. CASE Close(c)
      BY <3>1 DEF Close, fileVars
    <3>2. CASE CloseFlushes(c)
      <4>1. CASE Write(Rest(draft[c], unwritten[c]), TRUE)
        BY <2>1, <3>2, <4>1, RestIsWrites DEF CloseFlushes
      <4>2. ASSUME NEW cut \in CutsOf(c), Write(<<Front(draft[c], cut)>>, FALSE)
            PROVE  lines' = lines
        BY <4>2 DEF Write
      <4> QED BY <3>2, <4>1, <4>2 DEF CloseFlushes, fileVars
    <3> QED BY <1>7, <3>1, <3>2
  <2>4. CASE failed[c] /\ draft[c] # NoRecord
    <3>1. CrashOutcome(c)' = "broken" /\ Broken(c)'
      BY <1>typed, <2>1, <2>4 DEF CrashOutcome, Broken
    <3>2. CrashOutcome(c) = IF unwritten[c] = "none" THEN "written" ELSE "pending"
      BY <2>1, <2>4 DEF CrashOutcome, Finished
    <3> QED BY <2>2, <2>3, <3>1, <3>2 DEF Surviving!Break
  <2>5. CASE failed[c] /\ draft[c] = NoRecord
    <3>1. unwritten[c] = "none" /\ lines' = lines
      BY <1>drafted, <2>3, <2>5
    <3>2. CrashOutcome(c) = "pending" /\ CrashOutcome(c)' = "raised"
      BY <1>typed, <2>1, <2>5 DEF CrashOutcome, Finished
    <3> QED BY <2>2, <3>1, <3>2 DEF Surviving!Next, Surviving!Reject
  <2>6. CASE ~ failed[c]
    <3>1. unwritten[c] = "none" /\ draft[c] # NoRecord
      BY <1>drafted, <2>1, <2>6 DEF Synced
    <3>2. CrashOutcome(c) = "written" /\ CrashOutcome(c)' = "returned" /\ lines' = lines
      BY <1>typed, <2>1, <2>3, <2>6, <3>1 DEF CrashOutcome, Finished
    <3> QED BY <2>2, <3>2 DEF Surviving!Next, Surviving!Return
  <2> QED BY <2>4, <2>5, <2>6
<1>8. ASSUME UNCHANGED <<fileVars, callVars>> PROVE Mapped
  BY <1>2, <1>8 DEF fileVars, callVars, CrashOutcome
<1>9. ASSUME NEW e \in Emission, CountLines(e) \/ ReadHead(e) PROVE Mapped
  BY <1>8, <1>9 DEF CountLines, Count, ReadHead
<1>10. ASSUME NEW logs \in SUBSET Log, Kill(logs)
       PROVE  outcome' = [c \in Call |->
                  IF LogOf[c] \in logs /\ InFlight(c) THEN "dead" ELSE outcome[c]]
  BY <1>typed, <1>10, KillOutcomes
<1>11. ASSUME NEW l \in Log, Crash(l) PROVE Mapped
  <2> DEFINE gone == {c \in Call : LogOf[c] \in {l} /\ InFlight(c)}
  <2>1. /\ outcome' = [c \in Call |-> IF c \in gone THEN "dead" ELSE outcome[c]]
        /\ lines' = lines
    BY <1>10, <1>11 DEF Crash, fileVars
  <2>2. gone \in SUBSET {c \in Call : outcome[c] \in {"pending", "written"}}
    BY <1>typed, OutcomeOfInFlight
  <2> HIDE DEF gone
  <2> QED BY <2>1, <2>2 DEF Surviving!Next, Surviving!Crash, Surviving!Die
<1>12. CASE PowerLoss
  <2> DEFINE gone == {c \in Call : InFlight(c) /\ outcome[c] = "pending"}
             written == {c \in Call : outcome[c] = "written"}
  <2>1. outcome' = [c \in Call |-> IF c \in gone \cup written THEN "dead" ELSE outcome[c]]
    <3>1. outcome' = [c \in Call |-> IF LogOf[c] \in Log /\ InFlight(c) THEN "dead" ELSE outcome[c]]
      BY <1>10, <1>12 DEF PowerLoss
    <3>2. \A c \in Call : c \in gone \cup written <=> LogOf[c] \in Log /\ InFlight(c)
      BY <1>typed, OutcomeOfInFlight, KeyType
    <3> QED BY <3>1, <3>2
  <2>2. gone \in SUBSET {c \in Call : outcome[c] = "pending"}
    OBVIOUS
  <2>3. PICK n \in 0..Len(lines) :
            /\ \A i \in n + 1..Len(lines) :
                  lines[i] \in Junk \/ pc[lines[i].call] # "returned"
            /\ lines' = SubSeq(lines, 1, n)
    BY <1>12, LossOfLines
  <2>4. ASSUME NEW i \in n + 1..Len(lines)
        PROVE  lines[i] \in Surviving!Junk \/ outcome[lines[i].call] # "returned"
    <3>1. CASE lines[i] \in Junk
      BY <3>1 DEF Junk, Surviving!Junk
    <3>2. CASE lines[i] \notin Junk
      <4>1. lines[i] \in SignedRecord
        BY <1>typed, <3>2, ElementOfSeq, LenProperties DEF Line
      <4>2. lines[i].call \in Call
        BY <4>1 DEF SignedRecord
      <4> QED BY <1>typed, <1>1, <2>3, <3>2, <4>2, OutcomeOfInFlight
    <3> QED BY <3>1, <3>2
  <2> HIDE DEF gone, written, outcome
  <2>5. Surviving!PowerLoss
    BY <2>1, <2>2, <2>3, <2>4 DEF Surviving!PowerLoss, Surviving!Die, outcome, written
  <2> QED BY <2>5 DEF Surviving!Next
<1>13. CASE UNCHANGED vars
  BY <1>8, <1>13 DEF vars, fileVars, callVars
<1> QED BY <1>4, <1>5, <1>6, <1>7, <1>9, <1>11, <1>12, <1>13 DEF Next, Step, Stop, DiskError, Idle

-----------------------------------------------------------------------------
(* Stops: append is what CrashLog describes *)

(* With no write under way, all of the file is on the disk. *)
DiskHasAll == (\A c \in Call : pc[c] \notin {"write", "sync"}) => images = {Image(lines, tail)}

(* Where the disk does not fail, what fails has no draft. *)
NothingBroken == \A c \in Call : failed[c] \/ pc[c] = "raised" => draft[c] = NoRecord

SurvivingInv == /\ StopInv /\ Accounted
                /\ NothingBroken
                /\ NobodyDied => ChainInv /\ DiskHasAll

(* No call has begun. *)
LEMMA SurvivingInit == Init => SurvivingInv
<1> SUFFICES ASSUME Init PROVE SurvivingInv
  OBVIOUS
<1>1. ChainInv
  BY ChainInit
<1>2. NothingBroken /\ DiskHasAll
  BY DEF Init, NothingBroken, DiskHasAll, Image
<1> QED BY <1>1, <1>2, StopInit, AccountedInit DEF SurvivingInv

(* A write and the fsync after it are of one call; all else leaves the file. *)
LEMMA DiskStep == ASSUME ChainInv, DiskHasAll, [Next]_vars PROVE DiskHasAll'
<1> SUFFICES ASSUME \A c \in Call : pc'[c] \notin {"write", "sync"}
             PROVE  images' = {Image(lines', tail')}
  BY DEF DiskHasAll
<1> USE DEF ChainInv, Typed, TypeOK
<1>1. ASSUME NEW c \in Call, WriteFront(c) \/ WriteRest(c) PROVE FALSE
  BY <1>1 DEF WriteFront, WriteRest, GoTo
<1>2. ASSUME NEW c \in Call, Sync(c) PROVE images' = {Image(lines', tail')}
  BY <1>2 DEF Sync
<1>3. ASSUME NEW c \in Call, \/ Begin(c) \/ TakeWriteLock(c) \/ TakeFlock(c) \/ Scan(c)
                             \/ Unlock(c) \/ Close(c)
      PROVE  images' = {Image(lines', tail')}
  <2>1. UNCHANGED fileVars /\ \A d \in Call : pc[d] \notin {"write", "sync"}
    BY <1>3 DEF Begin, TakeWriteLock, TakeFlock, Scan, Build, Unlock, Close, Leave, GoTo
  <2> QED BY <2>1 DEF DiskHasAll, fileVars
<1>4. CASE UNCHANGED <<fileVars, pc>>
  BY <1>4 DEF DiskHasAll, fileVars
<1> QED BY <1>1, <1>2, <1>3, <1>4
        DEF Next, Step, CountLines, Count, ReadHead, callVars, Idle, vars, fileVars

(* A stop that meets no call under way leaves the log as it is: what is on *)
(* the disk is then all of it.                                             *)
LEMMA QuietStop ==
    ASSUME ChainInv, DiskHasAll, Stop, NobodyDied'
    PROVE  ChainInv' /\ DiskHasAll' /\ UNCHANGED <<lines, tail>>
<1> USE DEF Stop
<1>1. Typed'
  BY TypedStep DEF ChainInv, Stop
<1>2. UNCHANGED <<flock, pc, draft, unwritten, failed>>
  <2>1. PICK logs \in SUBSET Log : Kill(logs)
    BY DEF PowerLoss, Crash
  <2> DEFINE gone == {c \in Call : LogOf[c] \in logs /\ InFlight(c)}
  <2>2. gone = {}
    <3>1. pc' = [c \in Call |-> IF c \in gone THEN "dead" ELSE pc[c]]
      BY <2>1 DEF Kill
    <3> HIDE DEF gone
    <3>2. \A c \in Call : c \notin gone
      BY <3>1 DEF NobodyDied
    <3> QED BY <3>2 DEF gone
  <2>3. /\ pc' = [c \in Call |-> IF c \in gone THEN "dead" ELSE pc[c]]
        /\ draft' = [c \in Call |-> IF c \in gone THEN NoRecord ELSE draft[c]]
        /\ unwritten' = [c \in Call |-> IF c \in gone THEN "none" ELSE unwritten[c]]
        /\ failed' = [c \in Call |-> IF c \in gone THEN FALSE ELSE failed[c]]
        /\ flock' = IF flock \in gone THEN NoCall ELSE flock
    BY <2>1 DEF Kill
  <2> HIDE DEF gone
  <2> QED BY <2>2, <2>3 DEF ChainInv, Typed, TypeOK
<1>3. UNCHANGED fileVars
  <2>1. CASE PowerLoss
    <3>1. \A c \in Call : ~ InFlight(c)
      BY <2>1, KeyType DEF PowerLoss, Kill, NobodyDied
    <3>2. images = {Image(lines, tail)}
      BY <3>1 DEF DiskHasAll, InFlight, Finished
    <3>3. PICK image \in images : lines' = image.lines /\ tail' = image.tail /\ images' = {image}
      BY <2>1 DEF PowerLoss
    <3> QED BY <3>2, <3>3 DEF Image, fileVars
  <2> QED BY <2>1 DEF Crash
<1>4. ChainInv'
  BY <1>1, <1>2, <1>3
     DEF ChainInv, fileVars, FlockExclusive, FailedLeaves, WritesWhileHolding, TailInHand,
         TailOf, DraftsFollow, Linked, RecordsKept, Written, WriterHasKey
<1> QED BY <1>2, <1>3, <1>4 DEF fileVars, DiskHasAll

(* Only the scan fails, before it builds. *)
LEMMA NothingBrokenStep ==
    ASSUME Accounted, NothingBroken, [Next \/ Stop]_vars
    PROVE  NothingBroken'
<1> USE DEF Accounted, DurableInv, Typed, TypeOK, Drafted, FailedLeaves, NothingBroken
<1>1. ASSUME NEW c \in Call, Begin(c) \/ Step(c) PROVE NothingBroken'
  <2>1. CASE Begin(c) \/ TakeWriteLock(c) \/ TakeFlock(c) \/ Sync(c) \/ Unlock(c) \/ Close(c)
    BY <2>1 DEF Begin, TakeWriteLock, TakeFlock, Sync, Unlock, Close, Leave, GoTo
  <2>2. CASE Scan(c)
    <3>1. pc[c] = "scan" /\ ~ failed[c] /\ draft[c] = NoRecord
      BY <2>2 DEF Scan
    <3>2. \/ draft' = draft /\ \A d \in Call : d # c => failed'[d] = failed[d] /\ pc'[d] = pc[d]
          \/ /\ failed' = failed /\ pc' = [pc EXCEPT ![c] = "write"]
             /\ \A d \in Call : d # c => draft'[d] = draft[d]
      BY <2>2 DEF Scan, Build, GoTo
    <3> QED BY <3>1, <3>2
  <2>3. CASE WriteFront(c) \/ WriteRest(c)
    <3>1. /\ UNCHANGED <<draft, failed>> /\ pc[c] = "write"
          /\ pc' = pc \/ pc' = [pc EXCEPT ![c] = "sync"]
      BY <2>3 DEF WriteFront, WriteRest, GoTo
    <3> QED BY <3>1
  <2> QED BY <1>1, <2>1, <2>2, <2>3 DEF Step
<1>2. CASE Stop
  <2>1. PICK logs \in SUBSET Log : Kill(logs)
    BY <1>2 DEF Stop, PowerLoss, Crash
  <2> QED BY <2>1 DEF Kill
<1>3. CASE UNCHANGED <<pc, draft, failed>>
  BY <1>3
<1> QED BY <1>1, <1>2, <1>3 DEF Next, CountLines, Count, ReadHead, callVars, Idle, vars

(* The parts are kept together. *)
LEMMA SurvivingStep == SurvivingInv /\ [Next \/ Stop]_vars => SurvivingInv'
<1> SUFFICES ASSUME SurvivingInv, [Next \/ Stop]_vars PROVE SurvivingInv'
  OBVIOUS
<1> USE DEF SurvivingInv
<1>1. Typed
  BY DEF StopInv
<1>2. StopInv' /\ Accounted' /\ NothingBroken'
  BY StopStep, AccountedStep, NothingBrokenStep
<1>3. NobodyDied' => ChainInv' /\ DiskHasAll'
  <2> SUFFICES ASSUME NobodyDied' PROVE ChainInv' /\ DiskHasAll'
    OBVIOUS
  <2>1. NobodyDied
    BY <1>1, StoppedStay
  <2> QED BY <2>1, ChainStep, DiskStep, QuietStop
<1> QED BY <1>2, <1>3

(* Nobody writes but behind what it has read, under the flock. *)
LEMMA SurvivorsWriteWell == SurvivingInv => WritesWell
<1> SUFFICES ASSUME SurvivingInv, NEW c \in Call, unwritten[c] # "none"
             PROVE  Chains /\ Behind(c) /\ (NobodyStopped => tail = TailOf(c))
  BY DEF WritesWell
<1>1. pc[c] = "write" /\ Behind(c) /\ Chains
  BY DEF SurvivingInv, StopInv, WritesWhileHolding, WritesBehind
<1>2. NobodyStopped => tail = TailOf(c)
  BY <1>1 DEF NobodyStopped, SurvivingInv, ChainInv, TailInHand
<1> QED BY <1>1, <1>2

(* Wherever processes die and the machine stops, append implements the log *)
(* of CrashLog: one line for a call, all at once, that extends what can be *)
(* read or, once somebody has died, is spoilt; a receipt after that; and   *)
(* no record lost whose receipt is out.                                    *)
THEOREM AppendSurvivesStops == CrashSpec => ImplementsCrashLog
<1>1. Init => Surviving!Init
  BY DEF Init, Surviving!Init, CrashOutcome, Finished
<1>2. SurvivingInv /\ SurvivingInv' /\ [Next \/ Stop]_vars => [Surviving!Next]_(Surviving!vars)
  <2> SUFFICES ASSUME SurvivingInv, SurvivingInv', [Next \/ Stop]_vars
               PROVE  Surviving!Next \/ UNCHANGED Surviving!vars
    OBVIOUS
  <2>1. \A c \in Call : ~ Broken(c)'
    BY DEF SurvivingInv, NothingBroken, Broken
  <2> QED BY <2>1, SurvivorsWriteWell, OutcomeStep DEF SurvivingInv
<1> QED BY <1>1, <1>2, SurvivingInit, SurvivingStep, PTL
        DEF CrashSpec, ImplementsCrashLog, Surviving!Spec

-----------------------------------------------------------------------------
(* All failures, one process: append is what CrashLog describes *)

(* c has begun to write, and what it wrote may not be on the disk. *)
Unsynced(c) == \/ pc[c] \in {"write", "sync"}
               \/ pc[c] \in {"unlock", "close"} /\ failed[c] /\ draft[c] # NoRecord

(* The open line is that of the call that is to end it, and the disk has   *)
(* what no call has still to bring there.                                  *)
Clean == /\ \A c \in Call : unwritten[c] # "none" => tail = TailOf(c)
         /\ (\A c \in Call : unwritten[c] = "none") => tail = << >>
         /\ (\A c \in Call : ~ Unsynced(c)) => images = {Image(lines, tail)}

DiskInv == SoleInv /\ Accounted /\ (NobodyStopped => Clean)

(* Until somebody is stopped, each call leaves the file as clean as it     *)
(* found it: nobody else comes within before it has closed the file.       *)
LEMMA CleanStep ==
    ASSUME SameProcess, SoleInv, Accounted, Clean, NobodyStopped',
           [Next \/ Stop \/ DiskError]_vars
    PROVE  Clean'
<1> USE DEF SoleInv, Typed, TypeOK
<1>within. ASSUME NEW c \in Call, pc[c] \in Within
           PROVE  \A d \in Call : d # c => unwritten[d] = "none" /\ ~ Unsynced(d)
  <2> SUFFICES ASSUME NEW d \in Call, pc[d] \in Within PROVE d = c
    BY DEF FlushesWithin, Unsynced, Within, Holding
  <2>1. wlock[LogOf[c]] = c /\ wlock[LogOf[d]] = d /\ LogOf[c] = LogOf[d]
    BY <1>within DEF WriteLockExclusive, SameProcess
  <2> QED BY <2>1
<1>drafted. /\ \A c \in Call : pc[c] \in {"idle", "lock", "flock", "scan"} => draft[c] = NoRecord
            /\ \A c \in Call : unwritten[c] # "none" => draft[c] # NoRecord
            /\ \A c \in Call : pc[c] = "write" => unwritten[c] # "none"
            /\ \A c \in Call : pc[c] = "sync" => draft[c] # NoRecord /\ unwritten[c] = "none"
  BY RecordAssumption DEF Accounted, DurableInv, Drafted, Line
<1>quiet. ASSUME UNCHANGED <<fileVars, draft, unwritten>>,
                 \A c \in Call : Unsynced(c) => Unsynced(c)'
          PROVE  Clean'
  BY <1>quiet DEF Clean, TailOf, fileVars
<1>1. ASSUME NEW c \in Call, \/ Begin(c) \/ TakeWriteLock(c) \/ TakeFlock(c) \/ Unlock(c) \/ IOError(c)
      PROVE  Clean'
  <2>1. UNCHANGED <<fileVars, draft, unwritten>>
    BY <1>1 DEF Begin, TakeWriteLock, TakeFlock, Unlock, IOError
  <2>2. \A d \in Call : Unsynced(d) => Unsynced(d)'
    BY <1>1, <1>drafted DEF Begin, TakeWriteLock, TakeFlock, Unlock, IOError, GoTo, Unsynced
  <2> QED BY <1>quiet, <2>1, <2>2
<1>2. ASSUME NEW c \in Call, Scan(c) PROVE Clean'
  <2>1. pc[c] = "scan" /\ unwritten[c] = "none" /\ ~ Unsynced(c)
    BY <1>2 DEF Scan, FlushesWithin, Unsynced
  <2>2. \A d \in Call : unwritten[d] = "none" /\ ~ Unsynced(d)
    BY <1>within, <2>1 DEF Within, Holding
  <2>3. tail = << >> /\ images = {Image(lines, tail)} /\ UNCHANGED fileVars
    BY <1>2, <2>2 DEF Clean, Scan, Build
  <2>4. \A d \in Call : unwritten'[d] # "none" => d = c /\ TailOf(c)' = << >>
    BY <1>2, <2>2 DEF Scan, Build, TailOf, Begun
  <2> QED BY <2>3, <2>4 DEF Clean, fileVars
<1>3. ASSUME NEW c \in Call, WriteFront(c) PROVE Clean'
  <2>1. PICK cut \in CutsOf(c) : /\ Write(<<Front(draft[c], cut)>>, FALSE)
                                 /\ unwritten' = [unwritten EXCEPT ![c] = cut]
    BY <1>3 DEF WriteFront
  <2>2. pc[c] = "write" /\ unwritten[c] = "all" /\ UNCHANGED <<pc, draft>>
    BY <1>3 DEF WriteFront
  <2>3. tail = << >>
    BY <2>2 DEF Clean, TailOf, Begun
  <2>4. tail' = <<Front(draft[c], cut)>>
    BY <2>1, <2>3, ConcatEmptySeq DEF Write, Front
  <2>5. TailOf(c)' = <<Front(draft[c], cut)>>
    BY <2>1, <2>2 DEF TailOf, Begun, CutsOf, Cut
  <2>6. unwritten'[c] # "none" /\ \A d \in Call : d # c => unwritten'[d] = "none"
    BY <1>within, <2>1, <2>2 DEF Within, Holding, CutsOf, Cut
  <2>7. Unsynced(c)'
    BY <2>2 DEF Unsynced
  <2> QED BY <2>4, <2>5, <2>6, <2>7 DEF Clean
<1>4. ASSUME NEW c \in Call, WriteRest(c) PROVE Clean'
  <2>1. pc[c] = "write" /\ tail' = << >> /\ pc'[c] = "sync" /\ unwritten'[c] = "none"
        /\ \A d \in Call : d # c => unwritten'[d] = unwritten[d]
    BY <1>4 DEF WriteRest, Write, GoTo
  <2>2. \A d \in Call : unwritten'[d] = "none"
    BY <1>within, <2>1 DEF Within, Holding
  <2> QED BY <2>1, <2>2 DEF Clean, Unsynced
<1>5. ASSUME NEW c \in Call, Sync(c) PROVE Clean'
  <2>1. images' = {Image(lines', tail')} /\ UNCHANGED <<tail, draft, unwritten>>
    BY <1>5 DEF Sync
  <2> QED BY <2>1 DEF Clean, TailOf
<1>6. ASSUME NEW c \in Call, Close(c) PROVE Clean'
  <2>1. UNCHANGED <<fileVars, draft>> /\ unwritten' = [unwritten EXCEPT ![c] = "none"]
        /\ unwritten[c] = "none"
        /\ pc' = [pc EXCEPT ![c] = IF failed[c] THEN "raised" ELSE "returned"]
        /\ failed' = failed /\ pc[c] = "close"
    BY <1>6 DEF Close, Leave, GoTo
  <2>2. ~ Broken(c)'
    BY DEF NobodyStopped
  <2>3. \A d \in Call : Unsynced(d) => Unsynced(d)'
    BY <2>1, <2>2 DEF Unsynced, Broken
  <2> QED BY <1>quiet, <2>1, <2>3
<1>7. ASSUME NEW c \in Call, CloseFlushes(c) PROVE FALSE
  <2>1. failed[c] /\ draft[c] # NoRecord /\ pc[c] = "close"
    BY <1>7, <1>drafted DEF CloseFlushes, Accounted, DurableInv, Synced
  <2>2. Broken(c)'
    BY <1>7, <2>1 DEF CloseFlushes, Leave, GoTo, Broken
  <2> QED BY <2>2 DEF NobodyStopped
<1>8. CASE Stop
  <2>1. PICK logs \in SUBSET Log : Kill(logs) /\ (PowerLoss => logs = Log)
    BY <1>8 DEF Stop, PowerLoss, Crash
  <2>2. \A c \in Call : ~ (LogOf[c] \in logs /\ InFlight(c))
    BY <2>1 DEF Kill, NobodyStopped, NobodyDied
  <2>3. UNCHANGED <<pc, draft, unwritten, failed>>
    BY <2>1, <2>2 DEF Kill
  <2>4. CASE PowerLoss
    <3>1. \A c \in Call : ~ InFlight(c)
      BY <2>1, <2>2, <2>4, KeyType
    <3>2. \A c \in Call : ~ Unsynced(c)
      BY <3>1 DEF Unsynced, InFlight, Finished
    <3>3. PICK image \in images : lines' = image.lines /\ tail' = image.tail /\ images' = {image}
      BY <2>4 DEF PowerLoss
    <3>4. UNCHANGED fileVars
      BY <3>2, <3>3 DEF Clean, Image, fileVars
    <3> QED BY <1>quiet, <2>3, <3>2, <3>4
  <2>5. CASE ~ PowerLoss
    <3>1. UNCHANGED fileVars
      BY <1>8, <2>5 DEF Stop, Crash
    <3> QED BY <1>quiet, <2>3, <3>1 DEF Unsynced
  <2> QED BY <2>4, <2>5
<1>9. CASE UNCHANGED <<fileVars, pc, draft, unwritten, failed>>
  BY <1>9, <1>quiet DEF Unsynced
<1> QED BY <1>1, <1>2, <1>3, <1>4, <1>5, <1>6, <1>7, <1>8, <1>9
        DEF Next, Step, DiskError, CountLines, Count, ReadHead, callVars, fileVars, Idle, vars

(* The parts are kept together. *)
LEMMA DiskInvStep ==
    SameProcess /\ DiskInv /\ [Next \/ Stop \/ DiskError]_vars => DiskInv'
<1> SUFFICES ASSUME SameProcess, DiskInv, [Next \/ Stop \/ DiskError]_vars PROVE DiskInv'
  OBVIOUS
<1>1. SoleInv' /\ Accounted'
  BY SoleStep, AccountedStep DEF DiskInv
<1>2. NobodyStopped' => Clean'
  BY StoppedStay, CleanStep DEF DiskInv, SoleInv
<1> QED BY <1>1, <1>2 DEF DiskInv

(* As long as one process writes, append implements the log of CrashLog    *)
(* through deaths, power losses and disk errors: who gets a receipt has    *)
(* its record in the log and keeps it; who does not, because the disk      *)
(* failed, has one line there or none; and a line that cannot be read is   *)
(* there only when a call was stopped in its write before.                 *)
THEOREM AppendSurvivesDiskErrors ==
    ASSUME SameProcess
    PROVE  FaultSpec => ImplementsDiskLog
<1>1. Init => Surviving!Init /\ DiskInv
  <2> SUFFICES ASSUME Init PROVE Surviving!Init /\ DiskInv
    OBVIOUS
  <2>1. Surviving!Init
    BY DEF Init, Surviving!Init, CrashOutcome, Finished
  <2>2. Clean
    BY DEF Init, Clean, Image
  <2> QED BY <2>1, <2>2, SoleInit, AccountedInit DEF DiskInv
<1>2. DiskInv /\ [Next \/ Stop \/ DiskError]_vars => DiskInv'
  BY DiskInvStep
<1>3. DiskInv => WritesWell
  BY DEF DiskInv, SoleInv, FlushesWithin, Clean, WritesWell
<1>4. DiskInv /\ DiskInv' /\ [Next \/ Stop \/ DiskError]_vars
          => [Surviving!Next \/ \E c \in Call : Surviving!Break(c)]_(Surviving!vars)
  BY <1>3, OutcomeStep DEF DiskInv
<1> QED BY <1>1, <1>2, <1>4, PTL DEF FaultSpec, ImplementsDiskLog, Surviving!DiskSpec
=============================================================================
