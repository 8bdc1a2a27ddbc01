---------------------------- MODULE AuditProofs ----------------------------
(***************************************************************************)
(* Exit code 3 of compare-sth is proof, for any files, and a fork between  *)
(* two genuine tree heads gets it.                                         *)
(***************************************************************************)
EXTENDS Audit, TLAPS

Sides == {"a", "b"}

Shape ==
    /\ files \in [Sides -> File]
    /\ sth = [x \in Sides |-> sth[x]]
    /\ pc \in {"pubkey", "load a", "load b", "verify a", "verify b", "compare", "exited"}
    /\ pc # "exited" => exit = EXIT_OK
    /\ pc \notin {"pubkey", "exited"} => pubkey # WrongSize

LoadedFrom(x) == sth[x] = FromDict(files[x])
Verified(x) == sth[x].signature = [key |-> pubkey, payload |-> sth[x].payload]

(* What each step has established for those after it. *)
Established ==
    /\ pc \in {"load b", "verify a", "verify b", "compare"} => LoadedFrom("a")
    /\ pc \in {"verify a", "verify b", "compare"} => LoadedFrom("b")
    /\ pc \in {"verify b", "compare"} => Verified("a")
    /\ pc = "compare" => Verified("b")

Found ==
    Exited(EXIT_EVIDENCE_FOUND) =>
        /\ \A x \in Sides : LoadedFrom(x) /\ Verified(x)
        /\ Forked(sth["a"].payload, sth["b"].payload)

IInv == Shape /\ Established /\ Found /\ ForksFound

(* What verify_sth finds in a genuine tree head. *)
LEMMA SignedBy ==
    ASSUME NEW f, Genuine(f)
    PROVE  f.signature.key = ServerKey /\ f.signature.payload = f.payload
BY DEF Genuine

(* A genuine tree head whose time is a float is loaded as it is. *)
LEMMA GenuineLoads ==
    ASSUME NEW f \in File, Genuine(f), f.payload.timestamp = "float"
    PROVE  FromDict(f).payload = f.payload /\ FromDict(f).signature = f.signature
<1>1. f \in SthFile /\ f.payload \in Payload
  BY FileAssumption DEF SthFile
<1>2. AsFloat(f.payload.timestamp) = f.payload.timestamp
  BY DEF AsFloat
<1> QED BY <1>1, <1>2 DEF FromDict, Payload

(* No other exit is that of evidence. *)
LEMMA ExitCodes == EXIT_OK # EXIT_EVIDENCE_FOUND /\ EXIT_VERIFICATION_FAILED # EXIT_EVIDENCE_FOUND
                   /\ EXIT_USER_ERROR # EXIT_EVIDENCE_FOUND
BY DEF EXIT_OK, EXIT_EVIDENCE_FOUND, EXIT_VERIFICATION_FAILED, EXIT_USER_ERROR

(* Nothing is loaded, and nothing found. *)
LEMMA InitInv == Init => IInv
BY ExitCodes DEF Init, IInv, Shape, Established, Found, ForksFound, Sides, Exited

(* The four parts hold after each step of compare-sth. *)
LEMMA NextInv == IInv /\ [Next]_vars => IInv'
<1> SUFFICES ASSUME IInv, [Next]_vars PROVE IInv'
  OBVIOUS
<1> USE ExitCodes DEF IInv, Shape, Sides
<1>1. CASE ReadPubkey
  <2>1. Shape' /\ Established' /\ Found'
    BY <1>1 DEF ReadPubkey, Exit, GoTo, Established, Found, Exited
  <2>2. ForksFound'
    BY <1>1, KeyAssumption, MintedAssumption
       DEF ReadPubkey, Exit, GoTo, ForksFound, ForkInHand, FloatTimes, Genuine
  <2> QED BY <2>1, <2>2
<1>2. CASE LoadA
  <2> DEFINE f == files["a"]
  <2>a. UNCHANGED <<files, pubkey>>
    BY <1>2 DEF LoadA, Load
  <2>b. ASSUME f.form = "sth" /\ sth' = [sth EXCEPT !["a"] = FromDict(f)]
                            /\ pc' = "load b" /\ UNCHANGED exit
      PROVE  Shape' /\ Established' /\ Found'
    BY <1>2, <2>a, <2>b DEF LoadA, Established, Found, Exited, LoadedFrom
  <2>c. ASSUME UNCHANGED sth /\ pc' = "exited" /\ exit' \in {EXIT_USER_ERROR, EXIT_VERIFICATION_FAILED}
      PROVE  Shape' /\ Established' /\ Found'
    BY <1>2, <2>a, <2>c DEF LoadA, Established, Found, Exited
  <2>1. Shape' /\ Established' /\ Found'
    BY <1>2, <2>b, <2>c DEF LoadA, Load, Exit, GoTo
  <2>2. ForksFound'
    BY <1>2 DEF LoadA, Load, Exit, GoTo, ForksFound, ForkInHand, FloatTimes, Genuine
  <2> QED BY <2>1, <2>2
<1>3. CASE LoadB
  <2> DEFINE f == files["b"]
  <2>a. UNCHANGED <<files, pubkey>>
    BY <1>3 DEF LoadB, Load
  <2>b. ASSUME f.form = "sth" /\ sth' = [sth EXCEPT !["b"] = FromDict(f)]
                            /\ pc' = "verify a" /\ UNCHANGED exit
      PROVE  Shape' /\ Established' /\ Found'
    BY <1>3, <2>a, <2>b DEF LoadB, Established, Found, Exited, LoadedFrom
  <2>c. ASSUME UNCHANGED sth /\ pc' = "exited" /\ exit' \in {EXIT_USER_ERROR, EXIT_VERIFICATION_FAILED}
      PROVE  Shape' /\ Established' /\ Found'
    BY <1>3, <2>a, <2>c DEF LoadB, Established, Found, Exited
  <2>1. Shape' /\ Established' /\ Found'
    BY <1>3, <2>b, <2>c DEF LoadB, Load, Exit, GoTo
  <2>2. ForksFound'
    BY <1>3 DEF LoadB, Load, Exit, GoTo, ForksFound, ForkInHand, FloatTimes, Genuine
  <2> QED BY <2>1, <2>2
<1>4. ASSUME NEW x \in Sides, NEW next, pc # "exited", LoadedFrom(x), Verify(x, next),
             ForkInHand', FloatTimes'
      PROVE  pc' = next /\ UNCHANGED exit
  <2>1. files' = files /\ pubkey' = pubkey
    BY <1>4 DEF Verify
  <2>2. ForkInHand /\ FloatTimes
    BY <1>4, <2>1 DEF ForkInHand, FloatTimes, Genuine
  <2>3. Genuine(files[x]) /\ files[x].payload.timestamp = "float" /\ pubkey = ServerKey
    BY <2>2 DEF ForkInHand, FloatTimes
  <2>4. sth[x].payload = files[x].payload /\ sth[x].signature = files[x].signature
    BY <1>4, <2>3, GenuineLoads DEF LoadedFrom
  <2>5. sth[x].payload.timestamp # "nan" /\ sth[x].signature.key # NotHex
    <3>1. files[x].signature.key = ServerKey
      BY <2>3, SignedBy
    <3>2. ServerKey # NotHex
      BY KeyAssumption, MintedAssumption
    <3> QED BY <2>3, <2>4, <3>1, <3>2
  <2>6. sth[x].signature = [key |-> pubkey, payload |-> sth[x].payload]
    BY <2>3, <2>4 DEF Genuine
  <2> QED BY <1>4, <2>5, <2>6 DEF Verify, GoTo
<1>5. CASE VerifyA
  <2>1. Shape' /\ Established' /\ Found'
    BY <1>5 DEF VerifyA, Verify, Exit, GoTo, Established, Found, Exited, LoadedFrom, Verified
  <2>2. ForksFound'
    <3>1. pc # "exited" /\ LoadedFrom("a") /\ Verify("a", "verify b") /\ "a" \in Sides
      BY <1>5 DEF VerifyA, Established
    <3>2. ForkInHand' /\ FloatTimes' => pc' = "verify b"
      BY <1>4, <3>1
    <3> QED BY <3>2 DEF ForksFound
  <2> QED BY <2>1, <2>2
<1>6. CASE VerifyB
  <2>1. Shape' /\ Established' /\ Found'
    BY <1>6 DEF VerifyB, Verify, Exit, GoTo, Established, Found, Exited, LoadedFrom, Verified
  <2>2. ForksFound'
    <3>1. pc # "exited" /\ LoadedFrom("b") /\ Verify("b", "compare") /\ "b" \in Sides
      BY <1>6 DEF VerifyB, Established
    <3>2. ForkInHand' /\ FloatTimes' => pc' = "compare"
      BY <1>4, <3>1
    <3> QED BY <3>2 DEF ForksFound
  <2> QED BY <2>1, <2>2
<1>7. CASE Compare
  <2>1. Shape' /\ Established'
    BY <1>7 DEF Compare, Exit, Established
  <2>2. Found'
    BY <1>7 DEF Compare, Exit, Established, Found, Exited, LoadedFrom, Verified, Forked
  <2>3. ASSUME ForkInHand, FloatTimes
        PROVE  Forked(sth["a"].payload, sth["b"].payload)
    <3>1. \A x \in Sides : sth[x].payload = files[x].payload
      BY <1>7, <2>3, GenuineLoads DEF Compare, Established, LoadedFrom, ForkInHand, FloatTimes
    <3> QED BY <2>3, <3>1 DEF ForkInHand, Forked
  <2>4. ForksFound'
    BY <1>7, <2>3 DEF Compare, Exit, ForksFound, ForkInHand, FloatTimes, Genuine, Forked
  <2> QED BY <2>1, <2>2, <2>4
<1>8. CASE UNCHANGED vars
  BY <1>8 DEF vars, Established, Found, Exited, LoadedFrom, Verified,
              ForksFound, ForkInHand, FloatTimes, Genuine
<1> QED BY <1>1, <1>2, <1>3, <1>5, <1>6, <1>7, <1>8 DEF Next, Done

(* Two heads that verify under the server's key, from files whose          *)
(* signatures of that key the server has made, were signed by it.          *)
LEMMA FoundIsProof == IInv => EvidenceIsProof
<1> SUFFICES ASSUME IInv, Exited(EXIT_EVIDENCE_FOUND), pubkey = ServerKey
             PROVE  /\ {sth["a"].payload, sth["b"].payload} \subseteq Minted
                    /\ Forked(sth["a"].payload, sth["b"].payload)
  BY DEF EvidenceIsProof
<1>1. ASSUME NEW x \in Sides PROVE sth[x].payload \in Minted
  <2>1. sth[x].signature = files[x].signature /\ files[x] \in File
    <3>1. LoadedFrom(x)
      BY <1>1 DEF IInv, Found
    <3>2. sth[x].signature = files[x].signature
      BY <3>1 DEF LoadedFrom, FromDict
    <3> QED BY <1>1, <3>2 DEF IInv, Shape
  <2>2. sth[x].signature.key = ServerKey /\ sth[x].signature.payload = sth[x].payload
    <3>1. Verified(x)
      BY <1>1 DEF IInv, Found
    <3> QED BY <3>1 DEF Verified
  <2> QED BY <2>1, <2>2, FileAssumption
<1> QED BY <1>1 DEF IInv, Found, Sides

(* IInv is an invariant. *)
LEMMA Invariance == Spec => []IInv
BY InitInv, NextInv, PTL DEF Spec

(* Exit code 3 is proof against the server, for any files (compare_sth,    *)
(* verify_sth, detect_equivocation).                                       *)
THEOREM EvidenceCorrect == Spec => []EvidenceIsProof
BY Invariance, FoundIsProof, PTL

(* A fork between two genuine tree heads with float times exits with 3,    *)
(* whatever else the server has signed.                                    *)
THEOREM ForksExitThree == Spec => []ForksFound
<1>1. IInv => ForksFound
  BY DEF IInv
<1> QED BY <1>1, Invariance, PTL
=============================================================================
