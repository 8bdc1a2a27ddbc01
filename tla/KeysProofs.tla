----------------------------- MODULE KeysProofs -----------------------------
(***************************************************************************)
(* For any number of runs of keygen and sth on one prefix: sth mints under *)
(* the public key it read, and a keygen that ran alone leaves its pair.    *)
(***************************************************************************)
EXTENDS Keys, TLAPS

Runs == Keygen \cup Sth

Shape ==
    /\ pc = [p \in Runs |-> pc[p]]
    /\ exit = [p \in Runs |-> exit[p]]
    /\ pubkey = [s \in Sth |-> pubkey[s]]
    /\ privkey = [s \in Sth |-> privkey[s]]
    /\ minted = [s \in Sth |-> minted[s]]

(* What a run of sth has minted, at each of its steps. *)
Minting(s) ==
    /\ pc[s] \notin {"verify", "exited"} => minted[s] = Absent
    /\ pc[s] = "verify" => minted[s] = pubkey[s]
    /\ pc[s] = "exited" => exit[s] # EXIT_VERIFICATION_FAILED
    /\ pc[s] = "exited" => minted[s] \in {Absent, pubkey[s]}

(* How far a keygen that runs alone has come, and that it does. *)
Lone ==
    alone \in Keygen =>
        /\ \A h \in Keygen \ {alone} : Idle(h)
        /\ pc[alone] \in {"open priv", "write priv", "open pub", "write pub", "exited", "stopped"}
        /\ pc[alone] \in {"open pub", "write pub", "exited"} => priv = alone
        /\ pc[alone] = "exited" => pub = alone

IInv == Shape /\ (\A s \in Sth : Minting(s)) /\ Lone

(* No run has begun. *)
LEMMA InitInv == Init => IInv
BY FilesAssumption DEF Init, IInv, Shape, Minting, Lone, Runs

(* A step of keygen touches nothing of sth, and keeps Lone. *)
LEMMA KeygenInv ==
    ASSUME IInv, NEW g \in Keygen, RunKeygen(g) \/ Stop(g)
    PROVE  IInv'
<1> USE FilesAssumption DEF IInv, Shape, Runs
<1>1. UNCHANGED sthVars /\ \A s \in Sth : pc'[s] = pc[s] /\ exit'[s] = exit[s]
  BY DEF RunKeygen, Generate, OpenPriv, WritePriv, OpenPub, WritePub, Stop, GoTo, Exit, sthVars
<1>2. Shape'
  BY <1>1 DEF RunKeygen, Generate, OpenPriv, WritePriv, OpenPub, WritePub, Stop, GoTo, Exit, sthVars
<1>3. \A s \in Sth : Minting(s)'
  BY <1>1 DEF Minting, sthVars
<1>4. Lone'
  <2>1. CASE Generate(g)
    BY <2>1 DEF Generate, GoTo, Lone, Idle, files
  <2>2. CASE OpenPriv(g)
    BY <2>2 DEF OpenPriv, GoTo, Lone, Idle
  <2>3. CASE WritePriv(g)
    <3>1. \A h \in Keygen \ {g} : pc'[h] = pc[h]
      BY <2>3 DEF WritePriv, GoTo
    <3>2. pc[g] = "write priv" /\ pc'[g] = "open pub" /\ priv' = g /\ UNCHANGED <<pub, alone>>
      BY <2>3 DEF WritePriv, GoTo
    <3>3. alone \in Keygen => alone = g
      BY <3>2 DEF Lone, Idle
    <3> QED BY <3>1, <3>2, <3>3 DEF Lone, Idle
  <2>4. CASE OpenPub(g)
    BY <2>4 DEF OpenPub, GoTo, Lone, Idle
  <2>5. CASE WritePub(g)
    BY <2>5 DEF WritePub, Exit, Lone, Idle
  <2>6. CASE Stop(g)
    BY <2>6 DEF Stop, GoTo, Lone, Idle, files
  <2> QED BY <2>1, <2>2, <2>3, <2>4, <2>5, <2>6 DEF RunKeygen
<1> QED BY <1>2, <1>3, <1>4

(* A run of sth that goes on without a tree head, or gives up. *)
LEMMA NothingMinted ==
    ASSUME NEW s \in Sth, minted'[s] = Absent,
           \/ pc'[s] \in {"read pub", "read priv", "mint"}
           \/ pc'[s] = "exited" /\ exit'[s] = EXIT_USER_ERROR
    PROVE  Minting(s)'
<1>1. pc'[s] # "verify"
  OBVIOUS
<1>2. pc'[s] = "exited" => exit'[s] # EXIT_VERIFICATION_FAILED
  BY DEF EXIT_USER_ERROR, EXIT_VERIFICATION_FAILED
<1> QED BY <1>1, <1>2 DEF Minting

(* A step of sth touches no file, and keeps Minting. *)
LEMMA SthInv ==
    ASSUME IInv, NEW s \in Sth, RunSth(s)
    PROVE  IInv'
<1> USE FilesAssumption DEF IInv, Shape, Runs
<1>1. UNCHANGED <<files, alone>> /\ \A g \in Keygen : pc'[g] = pc[g]
  BY DEF RunSth, Check, ReadPub, ReadPriv, Mint, SelfVerify, GoTo, Exit
<1>2. Shape'
  BY DEF RunSth, Check, ReadPub, ReadPriv, Mint, SelfVerify, GoTo, Exit, sthVars
<1>3. Lone'
  BY <1>1 DEF Lone, Idle, files
<1>4. ASSUME NEW t \in Sth PROVE Minting(t)'
  <2>1. CASE t # s
    BY <2>1 DEF RunSth, Check, ReadPub, ReadPriv, Mint, SelfVerify, GoTo, Exit, sthVars, Minting
  <2>2. CASE t = s
    <3> USE DEF EXIT_OK, EXIT_VERIFICATION_FAILED, EXIT_USER_ERROR
    <3>1. CASE Check(s)
      <4>1. minted'[s] = Absent
        BY <2>2, <3>1 DEF Check, sthVars, Minting
      <4>2. (pc'[s] = "exited" /\ exit'[s] = EXIT_USER_ERROR) \/ pc'[s] = "read pub"
        BY <3>1 DEF Check, GoTo, Exit
      <4>3. Minting(s)'
        BY <4>1, <4>2, NothingMinted
      <4> QED BY <2>2, <4>3
    <3>2. CASE ReadPub(s)
      <4>1. minted'[s] = Absent
        BY <2>2, <3>2 DEF ReadPub, sthVars, Minting
      <4>2. (pc'[s] = "exited" /\ exit'[s] = EXIT_USER_ERROR) \/ pc'[s] = "read priv"
        BY <3>2 DEF ReadPub, GoTo, Exit
      <4>3. Minting(s)'
        BY <4>1, <4>2, NothingMinted
      <4> QED BY <2>2, <4>3
    <3>3. CASE ReadPriv(s)
      <4>1. minted'[s] = Absent
        BY <2>2, <3>3 DEF ReadPriv, sthVars, Minting
      <4>2. (pc'[s] = "exited" /\ exit'[s] = EXIT_USER_ERROR) \/ pc'[s] = "mint"
        BY <3>3 DEF ReadPriv, GoTo, Exit
      <4>3. Minting(s)'
        BY <4>1, <4>2, NothingMinted
      <4> QED BY <2>2, <4>3
    <3>4. CASE Mint(s)
      BY <2>2, <3>4 DEF Mint, GoTo, Exit, Minting
    <3>5. CASE SelfVerify(s)
      BY <2>2, <3>5 DEF SelfVerify, Exit, sthVars, Minting
    <3> QED BY <3>1, <3>2, <3>3, <3>4, <3>5 DEF RunSth
  <2> QED BY <2>1, <2>2
<1> QED BY <1>2, <1>3, <1>4

(* IInv is an invariant. *)
LEMMA Invariance == Spec => []IInv
<1>1. IInv /\ [Next]_vars => IInv'
  <2> SUFFICES ASSUME IInv, [Next]_vars PROVE IInv'
    OBVIOUS
  <2>1. CASE UNCHANGED vars
    BY <2>1 DEF vars, IInv, Shape, Minting, Lone, Idle
  <2> QED BY <2>1, KeygenInv, SthInv DEF Next
<1> QED BY <1>1, InitInv, PTL DEF Spec

(* sth never mints with the private half of another pair than it was given *)
(* the public half of, whatever keygens do to the files meanwhile.         *)
THEOREM MintsUnderPub == Spec => []NeverMintsMixedPair
<1>1. IInv => NeverMintsMixedPair
  BY DEF IInv, Minting, NeverMintsMixedPair
<1> QED BY <1>1, Invariance, PTL

(* A keygen that ran alone and ended well has left both halves of its own  *)
(* pair, whatever was in the files before.                                 *)
THEOREM LoneKeygenCorrect == Spec => []LoneKeygenPairs
<1>1. IInv => LoneKeygenPairs
  BY DEF IInv, Lone, LoneKeygenPairs
<1> QED BY <1>1, Invariance, PTL
=============================================================================
