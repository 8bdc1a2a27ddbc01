------------------------------- MODULE Audit -------------------------------
(***************************************************************************)
(* cli.py compare-sth, over SignedTreeHead.from_dict, verify_sth and       *)
(* detect_equivocation: one run on two files an auditor was sent.          *)
(***************************************************************************)
EXTENDS Naturals

CONSTANTS Key,         \* key pairs, named by their public half
          Length, Head,
          Minted,      \* the payloads emit_sth has signed with ServerKey
          ServerKey,
          NotHex,      \* a signature that is no hex
          WrongSize,   \* a key file that has not 32 bytes
          File         \* the files one may be sent

(* A time that was given as an int is written as one, and signed as one.   *)
Time == {"float", "int", "nan"}
Payload == [chain_length : Length, head_hash : Head, timestamp : Time]
Signature == [key : Key \cup {NotHex}, payload : Payload]

(* How from_dict(json.loads(...)) takes a file: it gives a tree head,      *)
(* raises a ValueError (no JSON, other keys, a number that is none), or    *)
(* something else (no object, null where a number belongs).                *)
Form == {"sth", "rejected", "mistyped"}
SthFile == [form : Form, payload : Payload, signature : Signature]

ASSUME KeyAssumption == NotHex \notin Key /\ WrongSize \notin Key
ASSUME MintedAssumption ==
    /\ Minted \subseteq Payload /\ ServerKey \in Key
    /\ \A p \in Minted : p.timestamp # "nan"
ASSUME FileAssumption ==
    /\ File \subseteq SthFile
    /\ \A f \in File : f.signature.key = ServerKey => f.signature.payload \in Minted

VARIABLES files,   \* of a and of b
          pubkey,  \* the file given as --pubkey
          sth,     \* the tree heads loaded
          pc, exit

vars == <<files, pubkey, sth, pc, exit>>

EXIT_OK == 0
EXIT_VERIFICATION_FAILED == 1   \* also that of an uncaught exception
EXIT_USER_ERROR == 2
EXIT_EVIDENCE_FOUND == 3

-----------------------------------------------------------------------------
GoTo(step) == pc' = step /\ UNCHANGED exit
Exit(code) == pc' = "exited" /\ exit' = code

ReadPubkey ==
    /\ pc = "pubkey"
    /\ IF pubkey = WrongSize THEN Exit(EXIT_USER_ERROR) ELSE GoTo("load a")
    /\ UNCHANGED <<files, pubkey, sth>>

(* from_dict makes a float of the time. *)
AsFloat(time) == IF time = "int" THEN "float" ELSE time
FromDict(f) == [payload |-> [chain_length |-> f.payload.chain_length,
                             head_hash    |-> f.payload.head_hash,
                             timestamp    |-> AsFloat(f.payload.timestamp)],
                signature |-> f.signature]

(* _load_sth; compare_sth catches ValueError and KeyError. *)
Load(x, path, next) ==
    LET f == files[path]
    IN  /\ \/ f.form = "rejected" /\ Exit(EXIT_USER_ERROR) /\ UNCHANGED sth
           \/ f.form = "mistyped" /\ Exit(EXIT_VERIFICATION_FAILED) /\ UNCHANGED sth
           \/ f.form = "sth" /\ GoTo(next) /\ sth' = [sth EXCEPT ![x] = FromDict(f)]
        /\ UNCHANGED <<files, pubkey>>

LoadA == pc = "load a" /\ Load("a", "a", "load b")

(* Faulty: the first path twice. *)
LoadB_FirstPath == pc = "load b" /\ Load("b", "a", "verify a")

LoadB == pc = "load b" /\ Load("b", "b", "verify a")

(* verify_sth: a time without a canonical form raises, then a signature    *)
(* that is no hex does.                                                    *)
Verify(x, next) ==
    LET s == sth[x]
    IN  /\ IF s.payload.timestamp = "nan" \/ s.signature.key = NotHex
           THEN Exit(EXIT_VERIFICATION_FAILED)
           ELSE IF s.signature = [key |-> pubkey, payload |-> s.payload]
           THEN GoTo(next)
           ELSE Exit(EXIT_OK)
        /\ UNCHANGED <<files, pubkey, sth>>

VerifyA == pc = "verify a" /\ Verify("a", "verify b")

(* Faulty: the first tree head twice. *)
VerifyB_FirstHead == pc = "verify b" /\ Verify("a", "compare")

VerifyB == pc = "verify b" /\ Verify("b", "compare")

Compare ==
    /\ pc = "compare"
    /\ Exit(IF /\ sth["a"].payload.chain_length = sth["b"].payload.chain_length
               /\ sth["a"].payload.head_hash # sth["b"].payload.head_hash
            THEN EXIT_EVIDENCE_FOUND ELSE EXIT_OK)
    /\ UNCHANGED <<files, pubkey, sth>>

Init ==
    /\ files \in [{"a", "b"} -> File]
    /\ pubkey \in Key \cup {WrongSize}
    /\ sth = files
    /\ pc = "pubkey"
    /\ exit = EXIT_OK

Done == pc = "exited" /\ UNCHANGED vars

Next == ReadPubkey \/ LoadA \/ LoadB \/ VerifyA \/ VerifyB \/ Compare \/ Done

Spec == Init /\ [][Next]_vars
-----------------------------------------------------------------------------
(* Properties *)

Exited(code) == pc = "exited" /\ exit = code

Forked(p, q) == p.chain_length = q.chain_length /\ p.head_hash # q.head_hash

(* Exit code 3 under the server's key is proof: the server has signed both *)
(* heads that were compared, whatever was put into the files, and they are *)
(* two histories of one length.                                            *)
EvidenceIsProof ==
    Exited(EXIT_EVIDENCE_FOUND) /\ pubkey = ServerKey =>
        /\ {sth["a"].payload, sth["b"].payload} \subseteq Minted
        /\ Forked(sth["a"].payload, sth["b"].payload)

(* f is what to_dict makes of a tree head the server has minted. *)
Genuine(f) == f.form = "sth" /\ f.signature = [key |-> ServerKey, payload |-> f.payload]
ForkInHand == /\ Genuine(files["a"]) /\ Genuine(files["b"]) /\ pubkey = ServerKey
              /\ Forked(files["a"].payload, files["b"].payload)

(* Two genuine tree heads of one length and two heads are found out, when  *)
(* their times were floats.                                                *)
FloatTimes == \A x \in {"a", "b"} : files[x].payload.timestamp = "float"
ForksFound == pc = "exited" /\ ForkInHand /\ FloatTimes => exit = EXIT_EVIDENCE_FOUND

(* The same whatever their times were: "EVIDENCE FOUND - the server signed *)
(* two histories of the same length".                                      *)
EveryForkFound == pc = "exited" /\ ForkInHand => exit = EXIT_EVIDENCE_FOUND

(* A file that holds no tree head exits as a user error.                   *)
Malformed(f) == f.form # "sth" \/ f.signature.key = NotHex \/ f.payload.timestamp = "nan"
MalformedExitsTwo ==
    pc = "exited" /\ (\E x \in {"a", "b"} : Malformed(files[x])) => exit = EXIT_USER_ERROR
=============================================================================
