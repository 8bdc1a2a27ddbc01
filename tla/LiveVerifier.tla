---------------------------- MODULE LiveVerifier ----------------------------
(***************************************************************************)
(* verify_chain, begun at any moment on a log that is being appended to:   *)
(* it takes no lock, and reads on as long as there is more to read.        *)
(***************************************************************************)
EXTENDS AttestationLog

CONSTANTS PublicKey, SignedBy, NotHex

VARIABLES file,           \* the lines the verifier has read
          position,       \* how far into the log that is
          checked,
          expected_prev,
          result,
          witness         \* the calls whose receipts were out when it began

verifierVars == <<file, position, checked, expected_prev, result, witness>>
logVars == vars
liveVars == <<vars, file, position, checked, expected_prev, result, witness>>

V == INSTANCE ChainWalk

(* The verifier was given the key that all who append here sign with.      *)
ASSUME OneServerAssumption ==
    PublicKey \in Key /\ \A l \in Log : KeyOf[l] \in {PublicKey, NoKey}

NotBegun == V!Verdict("idle", 0)
Start == Image(<< >>, << >>)

(* verify_chain is called. *)
Verify ==
    /\ result = NotBegun
    /\ result' = V!Running
    /\ witness' = Returned
    /\ UNCHANGED <<logVars, file, position, checked, expected_prev>>

(* What a reader that was given a line without its newline gets next: what *)
(* was added to the line, if that is more than the newline.  A line that   *)
(* is complete by now hides which: pieces, or the whole record of a call   *)
(* that found the file as the reader did.                                  *)
RestOfLine ==
    LET part == position.tail
        read == Len(position.lines)
        found == Append(SubSeq(lines, 1, read), Parse(part))
        records == {<<NewRecord(LastRecord(found), c, PublicKey)>> : c \in Call}
    IN  IF read = Len(lines)
        THEN {<<Parse(SubSeq(tail, Len(part) + 1, Len(tail)))>>}
        ELSE {rest \in {<< >>} \cup {<<j>> : j \in Junk} \cup records :
                 (rest = << >>) \in RestIsBlank(read, part)}

(* The loop asks for a line, and what there is by now is read. *)
Read ==
    /\ result = V!Running
    /\ checked = Len(file)
    /\ position # Image(lines, tail)
    /\ LET read == Len(position.lines)
       IN  IF position.tail = << >>
           THEN file' = file \o SubSeq(Seen, read + 1, Len(Seen))
           ELSE \E rest \in RestOfLine :
                    file' = file \o rest \o SubSeq(Seen, read + 2, Len(Seen))
    /\ position' = Image(lines, tail)
    /\ UNCHANGED <<logVars, checked, expected_prev, result, witness>>

(* A check of the loop, or its end where nothing more can be read. *)
Check ==
    /\ V!Walk \/ (position = Image(lines, tail) /\ V!EndOfFile)
    /\ UNCHANGED <<logVars, position, witness>>

(* The verifier's process goes with the machine, and is run again. *)
Restart ==
    /\ file' = << >>
    /\ position' = Start
    /\ checked' = 0
    /\ expected_prev' = ZERO_HASH
    /\ result' = NotBegun
    /\ witness' = {}

LiveInit ==
    /\ Init
    /\ file = << >>
    /\ position = Start
    /\ checked = 0
    /\ expected_prev = ZERO_HASH
    /\ result = NotBegun
    /\ witness = {}

LiveNext == \/ Verify \/ Read \/ Check
            \/ Next /\ UNCHANGED verifierVars

LiveStop == \/ (\E l \in Log : Crash(l)) /\ UNCHANGED verifierVars
            \/ PowerLoss /\ Restart

LiveSpec == LiveInit /\ [][LiveNext \/ LiveStop]_liveVars
-----------------------------------------------------------------------------
(* Properties *)

(* verify_chain never reports tampering, wherever the appends of the       *)
(* processes that share the log are when it reads, as long as no crash has *)
(* cut one of them off.                                                    *)
HonestNeverBlamed == (\A c \in Call : pc[c] # "dead") => result.status # "failed"

(* What verify_chain calls good holds the record of every receipt that was *)
(* out when it began, whatever crashed before (flush and fsync come before *)
(* append returns).                                                        *)
VerifierSeesReceipts ==
    result.status = "ok" =>
        \A c \in witness : \E i \in 1..checked : file[i] = draft[c]
=============================================================================
