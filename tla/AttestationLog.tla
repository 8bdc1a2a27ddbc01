--------------------------- MODULE AttestationLog ---------------------------
(***************************************************************************)
(* log.py: processes, each with its own AttestationLog on one shared file, *)
(* threads of them calling append and emit_sth.                            *)
(*                                                                         *)
(* The file is its newline-terminated lines, as a reader parses them, and  *)
(* the pieces written after the last newline.  A line is put there by one  *)
(* write() or by two, the first ending anywhere (a short write); a reader  *)
(* without the lock, or a crash, can come between them.                    *)
(***************************************************************************)
EXTENDS Attestation

CONSTANTS Emission,     \* calls of emit_sth
          Log,          \* AttestationLog objects, each in a process of its own
          LogOf,        \* the object each call and each emission is made on
          KeyOf,        \* the private_key of each object, or NoKey
          Unhashable,   \* calls whose params or result have no canonical form
          Unsignable,   \* calls whose entry has none (a NaN time, a bad id)
          Wide,         \* calls whose record holds non-ASCII text
          NoCall

ASSUME LogOfAssumption == LogOf \in [Call \cup Emission -> Log]
ASSUME KeyOfAssumption == KeyOf \in [Log -> Key \cup {NoKey}]
ASSUME CallAssumption == NoCall \notin Call

VARIABLES lines,      \* the file up to its last newline
          tail,       \* the pieces of records after it
          images,     \* the contents a power loss now can leave on disk
          wlock,      \* per object: the holder of _write_lock
          flock,      \* the holder of the flock on the file
          pc,         \* per call: the step of append it is about to take
          draft,      \* per call: the record it built under the lock
          unwritten,  \* per call: what its file buffer still holds of the record
          failed,     \* per call: an exception is on its way out
          emission    \* per emission: its step and what it has read

fileVars == <<lines, tail, images>>
callVars == <<wlock, flock, pc, draft, unwritten, failed>>
vars == <<lines, tail, images, wlock, flock, pc, draft, unwritten, failed, emission>>

-----------------------------------------------------------------------------
(* The bytes of the file *)

(* Where a short write ends: inside the JSON text, inside one of its       *)
(* multi-byte characters, or just before the newline.                      *)
Cut == {"text", "char", "end"}
CutsOf(c) == IF c \in Wide THEN Cut ELSE Cut \ {"char"}

(* What lies in the file of one record: all up to the cut, or all after. *)
Fragment == [record : SignedRecord, cut : Cut, half : {"front", "back"}]
Front(r, cut) == [record |-> r, cut |-> cut, half |-> "front"]
Back(r, cut)  == [record |-> r, cut |-> cut, half |-> "back"]

Joins(f, g) == /\ f.half = "front" /\ g.half = "back"
               /\ f.record = g.record /\ f.cut = g.cut

Whole(text) == \/ Len(text) = 1 /\ text[1].cut = "end"
               \/ Len(text) = 2 /\ Joins(text[1], text[2])

(* A character whose bytes are not all there, in order. *)
SplitCharacter(text) ==
    \E i \in 1..Len(text) :
        /\ text[i].cut = "char"
        /\ ~ (i < Len(text) /\ Joins(text[i], text[i + 1]))
        /\ ~ (i > 1 /\ Joins(text[i - 1], text[i]))

(* How a reader takes the text of a line that is not blank. *)
Parse(text) == IF Whole(text) THEN text[1].record
               ELSE IF SplitCharacter(text) THEN Undecodable
               ELSE Garbled

(* The lines any reader that reaches the end of the file finds. *)
Seen == IF tail = << >> THEN lines ELSE Append(lines, Parse(tail))

(* The last record among `file`'s lines, skipping those it cannot parse. *)
LastRecord(file) ==
    LET last == {i \in 1..Len(file) : /\ file[i] \notin Junk
                                      /\ \A j \in i + 1..Len(file) : file[j] \in Junk}
    IN  IF last = {} THEN NoRecord ELSE file[CHOOSE i \in last : TRUE]

Image(ls, t) == [lines |-> ls, tail |-> t]

(* A write that reaches the kernel: pieces added to the file, and a newline *)
(* if the write holds it.  A newline on its own makes a blank line, which  *)
(* every reader passes over.                                               *)
Write(text, newline) ==
    LET open == tail \o text
    IN  /\ lines' = IF newline /\ open # << >> THEN Append(lines, Parse(open)) ELSE lines
        /\ tail' = IF newline THEN << >> ELSE open
        /\ images' = images \cup {Image(lines', tail')}

(* What is left to write of r when the buffer still holds `part` of it. *)
Rest(r, part) == IF part = "all" THEN <<Front(r, "end")>>
                 ELSE IF part = "end" THEN << >>
                 ELSE <<Back(r, part)>>
-----------------------------------------------------------------------------
(* append *)

Finished == {"returned", "raised", "dead"}
InFlight(c) == pc[c] \notin Finished \cup {"idle"}
GoTo(c, step) == pc' = [pc EXCEPT ![c] = step]

(* append is called; it raises before it takes any lock when the log is    *)
(* read-only or params or result cannot be canonicalised.                  *)
Begin(c) ==
    /\ pc[c] = "idle"
    /\ GoTo(c, IF KeyOf[LogOf[c]] = NoKey \/ c \in Unhashable THEN "raised" ELSE "lock")
    /\ UNCHANGED <<fileVars, wlock, flock, draft, unwritten, failed, emission>>

(* with self._write_lock, and the file opened. *)
TakeWriteLock(c) ==
    /\ pc[c] = "lock"
    /\ wlock[LogOf[c]] = NoCall
    /\ wlock' = [wlock EXCEPT ![LogOf[c]] = c]
    /\ GoTo(c, "flock")
    /\ UNCHANGED <<fileVars, flock, draft, unwritten, failed, emission>>

(* Faulty: LOCK_SH, which any number of processes hold. *)
TakeFlock_Shared(c) ==
    /\ pc[c] = "flock"
    /\ flock' = c
    /\ GoTo(c, "scan")
    /\ UNCHANGED <<fileVars, wlock, draft, unwritten, failed, emission>>

(* Faulty: LOCK_NB, which raises when the lock is taken. *)
TakeFlock_NonBlocking(c) ==
    /\ pc[c] = "flock"
    /\ IF flock = NoCall
       THEN flock' = c /\ GoTo(c, "scan") /\ UNCHANGED failed
       ELSE failed' = [failed EXCEPT ![c] = TRUE] /\ GoTo(c, "close") /\ UNCHANGED flock
    /\ UNCHANGED <<fileVars, wlock, draft, unwritten, emission>>

TakeFlock(c) ==
    /\ pc[c] = "flock"
    /\ flock = NoCall
    /\ flock' = c
    /\ GoTo(c, "scan")
    /\ UNCHANGED <<fileVars, wlock, draft, unwritten, failed, emission>>

Build(c, last) ==
    /\ draft' = [draft EXCEPT ![c] = NewRecord(last, c, KeyOf[LogOf[c]])]
    /\ unwritten' = [unwritten EXCEPT ![c] = "all"]
    /\ GoTo(c, "write")
    /\ UNCHANGED <<fileVars, wlock, flock, failed, emission>>

(* Faulty: the head is remembered from this object's own last append. *)
Scan_Cached(c) ==
    /\ pc[c] = "scan"
    /\ Build(c, LastRecord(SelectSeq(Seen,
                    LAMBDA line : line \notin Junk /\ LogOf[line.call] = LogOf[c])))

(* Faulty: a malformed last line is taken for an empty log. *)
Scan_LastLineOnly(c) ==
    /\ pc[c] = "scan"
    /\ Build(c, IF Seen = << >> \/ Seen[Len(Seen)] \in Junk THEN NoRecord ELSE Seen[Len(Seen)])

(* Faulty: no except around from_dict. *)
Scan_Strict(c) ==
    /\ pc[c] = "scan"
    /\ IF Junk \cap {Seen[i] : i \in 1..Len(Seen)} # {} \/ c \in Unsignable
       THEN /\ failed' = [failed EXCEPT ![c] = TRUE]
            /\ GoTo(c, "unlock")
            /\ UNCHANGED <<fileVars, wlock, flock, draft, unwritten, emission>>
       ELSE Build(c, LastRecord(Seen))

(* _scan_last_record, then the entry is built and signed.  Decoding a line *)
(* is outside the try of the scan, so one that is not UTF-8 ends the call. *)
Scan(c) ==
    /\ pc[c] = "scan"
    /\ IF Undecodable \in {Seen[i] : i \in 1..Len(Seen)} \/ c \in Unsignable
       THEN /\ failed' = [failed EXCEPT ![c] = TRUE]
            /\ GoTo(c, "unlock")
            /\ UNCHANGED <<fileVars, wlock, flock, draft, unwritten, emission>>
       ELSE Build(c, LastRecord(Seen))

(* fh.flush() whose first write() is short. *)
WriteFront(c) ==
    /\ pc[c] = "write"
    /\ unwritten[c] = "all"
    /\ \E cut \in CutsOf(c) :
          /\ Write(<<Front(draft[c], cut)>>, FALSE)
          /\ unwritten' = [unwritten EXCEPT ![c] = cut]
    /\ UNCHANGED <<wlock, flock, pc, draft, failed, emission>>

(* The write() that empties the buffer. *)
WriteRest(c) ==
    /\ pc[c] = "write"
    /\ Write(Rest(draft[c], unwritten[c]), TRUE)
    /\ unwritten' = [unwritten EXCEPT ![c] = "none"]
    /\ GoTo(c, "sync")
    /\ UNCHANGED <<wlock, flock, draft, failed, emission>>

(* Faulty: flush() is taken for durable. *)
Sync_FlushOnly(c) ==
    /\ pc[c] = "sync"
    /\ GoTo(c, "unlock")
    /\ UNCHANGED <<fileVars, wlock, flock, draft, unwritten, failed, emission>>

(* os.fsync *)
Sync(c) ==
    /\ pc[c] = "sync"
    /\ images' = {Image(lines, tail)}
    /\ GoTo(c, "unlock")
    /\ UNCHANGED <<lines, tail, wlock, flock, draft, unwritten, failed, emission>>

(* Faulty: the with items swapped, _write_lock goes before fh is closed. *)
Unlock_Both(c) ==
    /\ pc[c] = "unlock"
    /\ flock' = NoCall
    /\ wlock' = [wlock EXCEPT ![LogOf[c]] = NoCall]
    /\ GoTo(c, "close")
    /\ UNCHANGED <<fileVars, draft, unwritten, failed, emission>>

(* finally: LOCK_UN, whatever happened under the lock. *)
Unlock(c) ==
    /\ pc[c] = "unlock"
    /\ flock' = NoCall
    /\ GoTo(c, "close")
    /\ UNCHANGED <<fileVars, wlock, draft, unwritten, failed, emission>>

(* Faulty: acquire and release by hand, with no release when append raises. *)
Leave_Holding(c) ==
    /\ wlock' = IF failed[c] THEN wlock ELSE [wlock EXCEPT ![LogOf[c]] = NoCall]
    /\ GoTo(c, IF failed[c] THEN "raised" ELSE "returned")
    /\ unwritten' = [unwritten EXCEPT ![c] = "none"]
    /\ UNCHANGED <<flock, draft, failed, emission>>

(* Leaving the with block closes fh and then releases _write_lock. *)
Leave(c) ==
    /\ wlock' = [wlock EXCEPT ![LogOf[c]] = NoCall]
    /\ GoTo(c, IF failed[c] THEN "raised" ELSE "returned")
    /\ unwritten' = [unwritten EXCEPT ![c] = "none"]
    /\ UNCHANGED <<flock, draft, failed, emission>>

Close(c) ==
    /\ pc[c] = "close"
    /\ unwritten[c] = "none"
    /\ Leave(c)
    /\ UNCHANGED fileVars

Step(c) == \/ TakeWriteLock(c) \/ TakeFlock(c) \/ Scan(c)
           \/ WriteFront(c) \/ WriteRest(c) \/ Sync(c)
           \/ Unlock(c) \/ Close(c)

-----------------------------------------------------------------------------
(* emit_sth: chain_length and head_hash, each a scan without any lock *)

Counting == {"idle", "counting"}
Unread(at) == [at |-> at, chain_length |-> 0, head_hash |-> ZERO_HASH,
               lines_read |-> 0, tail_read |-> << >>]

(* The position of the scan is the end of what is in the file. *)
AtEnd(e) == emission[e].lines_read = Len(lines) /\ emission[e].tail_read = tail

(* Whether no more than a newline has come behind the `part` of a line     *)
(* that was read after `read` lines; either, where its pieces do not tell. *)
RestIsBlank(read, part) ==
    IF part = << >> \/ read + 1 > Len(lines) THEN {FALSE}
    ELSE IF Whole(part) THEN {lines[read + 1] = Parse(part)}
    ELSE IF part[Len(part)].cut = "end" THEN BOOLEAN
    ELSE {FALSE}

(* One read of the scan.  A line without its newline is yielded all the    *)
(* same, the scan reads on, and what has been added to that line since is  *)
(* another, unless it is blank.  It ends when there is nothing more.       *)
Count(e, first) ==
    /\ emission[e].at \in Counting
    /\ LET before == IF emission[e].at = "idle" THEN first ELSE emission[e].chain_length
           read == emission[e].lines_read
       IN  IF \/ emission[e].at = "idle" /\ KeyOf[LogOf[e]] = NoKey
              \/ \E i \in read + 1..Len(Seen) : Seen[i] = Undecodable
           THEN emission' = [emission EXCEPT ![e] = Unread("raised")]
           ELSE IF AtEnd(e)
           THEN emission' = [emission EXCEPT
                    ![e].at = "counted", ![e].chain_length = before, ![e].tail_read = << >>]
           ELSE \E blank \in RestIsBlank(read, emission[e].tail_read) :
                    emission' = [emission EXCEPT
                        ![e].at = "counting",
                        ![e].chain_length = before + (Len(Seen) - read) - (IF blank THEN 1 ELSE 0),
                        ![e].lines_read = Len(lines),
                        ![e].tail_read = tail]
    /\ UNCHANGED <<fileVars, callVars>>

(* Faulty: the index of the last line. *)
CountLines_LastIndex(e) == Count(e, -1)

CountLines(e) == Count(e, 0)

(* Faulty: what the last record follows is taken for the head. *)
ReadHead_PrevHash(e) ==
    /\ emission[e].at = "counted"
    /\ \A i \in 1..Len(Seen) : Seen[i] \notin Junk
    /\ emission' = [emission EXCEPT
          ![e].at = "signed",
          ![e].head_hash = IF Seen = << >> THEN ZERO_HASH ELSE LastRecord(Seen).prev_hash]
    /\ UNCHANGED <<fileVars, callVars>>

(* iter_records lets any line it cannot parse raise. *)
ReadHead(e) ==
    /\ emission[e].at = "counted"
    /\ emission' = [emission EXCEPT ![e] =
          IF \E i \in 1..Len(Seen) : Seen[i] \in Junk
          THEN Unread("raised")
          ELSE [@ EXCEPT !.at = "signed", !.head_hash = HeadHash(LastRecord(Seen))]]
    /\ UNCHANGED <<fileVars, callVars>>
-----------------------------------------------------------------------------
(* Failures *)

(* An OSError from flock, a read, write() or os.fsync.  Only the first is  *)
(* outside the try, and leaves with no LOCK_UN.                            *)
IOError(c) ==
    /\ pc[c] \in {"flock", "scan", "write", "sync"}
    /\ failed' = [failed EXCEPT ![c] = TRUE]
    /\ GoTo(c, IF pc[c] = "flock" THEN "close" ELSE "unlock")
    /\ UNCHANGED <<fileVars, wlock, flock, draft, unwritten, emission>>

(* fh.close() flushes what a failed flush left in the buffer: the flock is *)
(* gone by then.  All of it goes out, or a part, or nothing.               *)
CloseFlushes(c) ==
    /\ pc[c] = "close"
    /\ unwritten[c] # "none"
    /\ \/ Write(Rest(draft[c], unwritten[c]), TRUE)
       \/ /\ unwritten[c] = "all"
          /\ \E cut \in CutsOf(c) : Write(<<Front(draft[c], cut)>>, FALSE)
       \/ UNCHANGED fileVars
    /\ Leave(c)

(* The calls and emissions under way on the objects `logs` are no more. *)
Kill(logs) ==
    LET gone == {c \in Call : LogOf[c] \in logs /\ InFlight(c)}
    IN  /\ pc' = [c \in Call |-> IF c \in gone THEN "dead" ELSE pc[c]]
        /\ draft' = [c \in Call |-> IF c \in gone THEN NoRecord ELSE draft[c]]
        /\ unwritten' = [c \in Call |-> IF c \in gone THEN "none" ELSE unwritten[c]]
        /\ failed' = [c \in Call |-> IF c \in gone THEN FALSE ELSE failed[c]]
        /\ wlock' = [l \in Log |-> IF l \in logs THEN NoCall ELSE wlock[l]]
        /\ flock' = IF flock \in gone THEN NoCall ELSE flock
        /\ emission' = [e \in Emission |->
              IF LogOf[e] \in logs /\ emission[e].at \in {"counting", "counted"}
              THEN Unread("dead") ELSE emission[e]]

Busy(l) == \/ \E c \in Call : LogOf[c] = l /\ InFlight(c)
           \/ \E e \in Emission : LogOf[e] = l /\ emission[e].at \in {"counting", "counted"}

(* The process of l dies, and is started again on the same file. *)
Crash(l) ==
    /\ Busy(l)
    /\ Kill({l})
    /\ UNCHANGED fileVars

(* The machine stops: of what was written since the last fsync, any part   *)
(* from the front may have reached the disk.                               *)
PowerLoss ==
    /\ images # {Image(lines, tail)} \/ \E l \in Log : Busy(l)
    /\ \E image \in images :
          /\ lines' = image.lines
          /\ tail' = image.tail
          /\ images' = {image}
    /\ Kill(Log)

-----------------------------------------------------------------------------
Init ==
    /\ lines = << >>
    /\ tail = << >>
    /\ images = {Image(<< >>, << >>)}
    /\ wlock = [l \in Log |-> NoCall]
    /\ flock = NoCall
    /\ pc = [c \in Call |-> "idle"]
    /\ draft = [c \in Call |-> NoRecord]
    /\ unwritten = [c \in Call |-> "none"]
    /\ failed = [c \in Call |-> FALSE]
    /\ emission = [e \in Emission |-> Unread("idle")]

(* Every call and emission there will be is over. *)
Idle == /\ \A l \in Log : ~ Busy(l)
        /\ \A c \in Call : pc[c] # "idle"
        /\ UNCHANGED vars

Next == \/ \E c \in Call : Begin(c) \/ Step(c)
        \/ \E e \in Emission : CountLines(e) \/ ReadHead(e)
        \/ Idle

DiskError == \E c \in Call : IOError(c) \/ CloseFlushes(c)
Stop == PowerLoss \/ \E l \in Log : Crash(l)

Spec == Init /\ [][Next]_vars
CrashSpec == Init /\ [][Next \/ Stop]_vars
DiskErrorSpec == Init /\ [][Next \/ DiskError]_vars
FaultSpec == Init /\ [][Next \/ Stop \/ DiskError]_vars

(* A thread that can run does; neither lock need be fair. *)
Fairness == \A c \in Call : WF_vars(Step(c) \/ CloseFlushes(c))
FairFaultSpec == FaultSpec /\ Fairness
-----------------------------------------------------------------------------
(* Properties *)

(* Every variable keeps its type. *)
TypeOK ==
    /\ lines \in Seq(Line)
    /\ tail \in Seq(Fragment)
    /\ images \subseteq [lines : Seq(Line), tail : Seq(Fragment)]
    /\ wlock \in [Log -> Call \cup {NoCall}]
    /\ flock \in Call \cup {NoCall}
    /\ pc \in [Call -> {"idle", "lock", "flock", "scan", "write", "sync",
                        "unlock", "close"} \cup Finished]
    /\ draft \in [Call -> SignedRecord \cup {NoRecord}]
    /\ unwritten \in [Call -> {"none", "all"} \cup Cut]
    /\ failed \in [Call -> BOOLEAN]
    /\ emission \in [Emission -> [at : Counting \cup {"counted", "signed", "raised", "dead"},
                                  chain_length : Nat, head_hash : Hash,
                                  lines_read : Nat, tail_read : Seq(Fragment)]]

Returned == {c \in Call : pc[c] = "returned"}

(* The records of the log, those lines left out that do not parse, are one *)
(* chain: each carries the next seq and the hash of the record before it.  *)
(* (append's scan and write under _write_lock and flock.)                  *)
ReadableChain ==
    \A i \in 1..Len(lines) :
        lines[i] \notin Junk => Extends(lines[i], LastRecord(SubSeq(lines, 1, i - 1)))

(* Every line of the log is a record, and they are one chain. *)
ChainIntact ==
    /\ \A i \in 1..Len(lines) : lines[i] \notin Junk
    /\ ReadableChain

(* read_record(receipt.seq) finds the record the receipt was given for.    *)
ReceiptsFindRecord ==
    \A c \in Returned :
        /\ draft[c].call = c
        /\ draft[c].seq + 1 \in 1..Len(lines)
        /\ lines[draft[c].seq + 1] = draft[c]

(* No two receipts are for one position of the log. *)
ReceiptSeqsDiffer ==
    \A c, d \in Returned : c # d => draft[c].seq # draft[d].seq

(* An append raises only for what its caller did or the log lacks a key    *)
(* for: neither contention nor what the file holds makes it fail.          *)
OnlyBadCallsRaise ==
    \A c \in Call : pc[c] = "raised" =>
        c \in Unhashable \cup Unsignable \/ KeyOf[LogOf[c]] = NoKey

(* Through crashes too, unless a character lies torn in the file: no other *)
(* trace of a write that was cut short makes a later append raise.         *)
OnlyTornTextStopsAppends ==
    [][\A c \in Call : pc[c] # "raised" /\ pc'[c] = "raised" =>
          \/ c \in Unhashable \cup Unsignable \/ KeyOf[LogOf[c]] = NoKey
          \/ \E i \in 1..Len(Seen) : Seen[i] = Undecodable]_vars

Signed == {e \in Emission : emission[e].at = "signed"}
SameServer(e, f) == KeyOf[LogOf[e]] = KeyOf[LogOf[f]]

(* A signed tree head names a head the log has had since its lines were    *)
(* counted, however many records came in between (emit_sth reads           *)
(* chain_length first and head_hash after it).                             *)
TreeHeadsFresh ==
    \A e \in Signed :
        \E n \in emission[e].lines_read..Len(Seen) :
            emission[e].head_hash = HeadHash(LastRecord(SubSeq(Seen, 1, n)))

(* Two tree heads this server signed never have one length and two heads:  *)
(* detect_equivocation clears an honest server.                            *)
NoFalseEquivocation ==
    \A e, f \in Signed :
        SameServer(e, f) /\ emission[e].chain_length = emission[f].chain_length
        => emission[e].head_hash = emission[f].head_hash

(* The same for tree heads whose length is that of the head they name, as  *)
(* they are when no append comes between the two scans of emit_sth.        *)
Settled(e) == Len(emission[e].head_hash) = emission[e].chain_length
SettledHeadsAgree ==
    \A e, f \in Signed :
        /\ SameServer(e, f) /\ Settled(e) /\ Settled(f)
        /\ emission[e].chain_length = emission[f].chain_length
        => emission[e].head_hash = emission[f].head_hash

(* chain_length is a number of entries the log holds. *)
CountsEntries ==
    \A e \in Emission :
        emission[e].at \in {"counted", "signed"} => emission[e].chain_length <= Len(Seen)

(* What a receipt was handed out for and can be read stays where it is,    *)
(* through process deaths and power losses (fsync comes before return).    *)
ReceiptsDurable ==
    [][\A c \in Returned : \A i \in 1..Len(lines) :
          lines[i] = draft[c] => i \in 1..Len(lines') /\ lines'[i] = lines[i]]_vars

(* An append that has begun comes to an end: every way out of it, errors   *)
(* included, gives both locks back.                                        *)
AppendsEnd == \A c \in Call : (pc[c] = "lock") ~> (pc[c] \in Finished)

(* The steps of append within the with block, and those of them under the *)
(* flock.                                                                  *)
Holding == {"scan", "write", "sync", "unlock"}
Within == {"flock", "close"} \cup Holding

(* Whose lock a call needs for its next step, if anyone has it. *)
Awaited(c) == CASE pc[c] = "lock" -> wlock[LogOf[c]]
                [] pc[c] = "flock" -> flock
                [] OTHER -> NoCall

(* Through deaths, power losses and disk errors, a call waits only for one *)
(* that is still under way and further on than itself: no lock is left     *)
(* behind by a call that raised or died, who holds _write_lock waits for   *)
(* the flock at most, and who holds the flock for nobody.                  *)
WaitsForTheLiving ==
    \A c \in Call : Awaited(c) # NoCall =>
        pc[Awaited(c)] \in IF pc[c] = "lock" THEN Within ELSE Holding

(* Without failures, append is the atomic operation it is documented as:   *)
(* the record is in the log when its newline is written.                   *)
Outcome(c) == CASE pc[c] = "returned" -> "returned"
                [] pc[c] = "raised" -> "raised"
                [] pc[c] \in {"sync", "unlock", "close"} /\ ~ failed[c] -> "attested"
                [] OTHER -> "pending"

Atomic == INSTANCE AtomicLog WITH
              log <- lines,
              outcome <- [c \in Call |-> Outcome(c)],
              SignerOf <- [c \in Call |-> KeyOf[LogOf[c]]]
ImplementsAtomicLog == Atomic!Spec

(* Where processes die and the machine stops, it is still the operation    *)
(* CrashLog describes: one line for a call, its record or, behind what a   *)
(* dead call left, one that nobody can read.                               *)
CrashOutcome(c) == IF pc[c] = "raised" /\ draft[c] # NoRecord THEN "broken"
                   ELSE IF pc[c] \in Finished THEN pc[c]
                   ELSE IF /\ pc[c] \in {"sync", "unlock", "close"}
                           /\ draft[c] # NoRecord /\ unwritten[c] = "none" THEN "written"
                   ELSE "pending"

Surviving == INSTANCE CrashLog WITH
                 log <- lines,
                 outcome <- [c \in Call |-> CrashOutcome(c)],
                 SignerOf <- [c \in Call |-> KeyOf[LogOf[c]]]
ImplementsCrashLog == Surviving!Spec

(* With disk errors too, where all that append are threads of one process: *)
(* a failed flush is made good, or not, before another reads the file, and *)
(* who did not get a receipt has one line in the log or none.              *)
ImplementsDiskLog == Surviving!DiskSpec
=============================================================================
