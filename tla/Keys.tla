-------------------------------- MODULE Keys --------------------------------
(***************************************************************************)
(* cli.py keygen and sth, as processes that share the two key files of one *)
(* prefix.                                                                 *)
(***************************************************************************)
EXTENDS Naturals

CONSTANTS Keygen,   \* runs of keygen; each names the pair it generates
          Sth,      \* runs of sth
          Absent, NotAKey   \* no file; a file that has not 32 bytes

ASSUME FilesAssumption == {Absent, NotAKey} \cap Keygen = {} /\ Keygen \cap Sth = {}

VARIABLES priv, pub,   \* whose half each file holds
          pubkey, privkey,   \* what a run of sth has read
          minted,      \* the pair it has signed a tree head with
          pc, exit,
          alone        \* the last keygen to begin, if none was under way then

files == <<priv, pub>>
sthVars == <<pubkey, privkey, minted>>
vars == <<priv, pub, pubkey, privkey, minted, pc, exit, alone>>

EXIT_OK == 0
EXIT_VERIFICATION_FAILED == 1
EXIT_USER_ERROR == 2

GoTo(p, step) == pc' = [pc EXCEPT ![p] = step] /\ UNCHANGED exit
Exit(p, code) == pc' = [pc EXCEPT ![p] = "exited"] /\ exit' = [exit EXCEPT ![p] = code]
Idle(p) == pc[p] \in {"start", "exited", "stopped"}

-----------------------------------------------------------------------------
(* keygen *)

Generate(g) ==
    /\ pc[g] = "start"
    /\ alone' = IF \A h \in Keygen : Idle(h) THEN g ELSE Absent
    /\ GoTo(g, "open priv")
    /\ UNCHANGED <<files, sthVars>>

(* write_bytes empties the file, then writes. *)
OpenPriv(g) ==
    /\ pc[g] = "open priv"
    /\ priv' = NotAKey
    /\ GoTo(g, "write priv")
    /\ UNCHANGED <<pub, sthVars, alone>>

WritePriv(g) ==
    /\ pc[g] = "write priv"
    /\ priv' = g
    /\ GoTo(g, "open pub")
    /\ UNCHANGED <<pub, sthVars, alone>>

(* Faulty: a public key that is there already is left alone. *)
OpenPub_IfMissing(g) ==
    /\ pc[g] = "open pub"
    /\ IF pub = Absent
       THEN pub' = NotAKey /\ GoTo(g, "write pub")
       ELSE UNCHANGED pub /\ Exit(g, EXIT_OK)
    /\ UNCHANGED <<priv, sthVars, alone>>

OpenPub(g) ==
    /\ pc[g] = "open pub"
    /\ pub' = NotAKey
    /\ GoTo(g, "write pub")
    /\ UNCHANGED <<priv, sthVars, alone>>

WritePub(g) ==
    /\ pc[g] = "write pub"
    /\ pub' = g
    /\ Exit(g, EXIT_OK)
    /\ UNCHANGED <<priv, sthVars, alone>>

(* The process is killed, or the disk is full. *)
Stop(g) ==
    /\ ~ Idle(g)
    /\ GoTo(g, "stopped")
    /\ UNCHANGED <<files, sthVars, alone>>

-----------------------------------------------------------------------------
(* sth *)

(* click's exists=True. *)
Check(s) ==
    /\ pc[s] = "start"
    /\ IF Absent \in {priv, pub} THEN Exit(s, EXIT_USER_ERROR) ELSE GoTo(s, "read pub")
    /\ UNCHANGED <<files, sthVars, alone>>

ReadPub(s) ==
    /\ pc[s] = "read pub"
    /\ pubkey' = [pubkey EXCEPT ![s] = pub]
    /\ IF pub = NotAKey THEN Exit(s, EXIT_USER_ERROR) ELSE GoTo(s, "read priv")
    /\ UNCHANGED <<files, privkey, minted, alone>>

ReadPriv(s) ==
    /\ pc[s] = "read priv"
    /\ privkey' = [privkey EXCEPT ![s] = priv]
    /\ IF priv = NotAKey THEN Exit(s, EXIT_USER_ERROR) ELSE GoTo(s, "mint")
    /\ UNCHANGED <<files, pubkey, minted, alone>>

(* Faulty: no cross-check. *)
Mint_AnyPair(s) ==
    /\ pc[s] = "mint"
    /\ minted' = [minted EXCEPT ![s] = privkey[s]]
    /\ GoTo(s, "verify")
    /\ UNCHANGED <<files, pubkey, privkey, alone>>

(* The public half of the private key is the public key, then emit_sth. *)
Mint(s) ==
    /\ pc[s] = "mint"
    /\ IF privkey[s] # pubkey[s]
       THEN Exit(s, EXIT_USER_ERROR) /\ UNCHANGED minted
       ELSE GoTo(s, "verify") /\ minted' = [minted EXCEPT ![s] = privkey[s]]
    /\ UNCHANGED <<files, pubkey, privkey, alone>>

SelfVerify(s) ==
    /\ pc[s] = "verify"
    /\ Exit(s, IF minted[s] = pubkey[s] THEN EXIT_OK ELSE EXIT_VERIFICATION_FAILED)
    /\ UNCHANGED <<files, sthVars, alone>>

-----------------------------------------------------------------------------
Init ==
    /\ priv = Absent /\ pub = Absent
    /\ pubkey = [s \in Sth |-> Absent]
    /\ privkey = [s \in Sth |-> Absent]
    /\ minted = [s \in Sth |-> Absent]
    /\ pc = [p \in Keygen \cup Sth |-> "start"]
    /\ exit = [p \in Keygen \cup Sth |-> EXIT_OK]
    /\ alone = Absent

RunKeygen(g) == Generate(g) \/ OpenPriv(g) \/ WritePriv(g) \/ OpenPub(g) \/ WritePub(g)
RunSth(s) == Check(s) \/ ReadPub(s) \/ ReadPriv(s) \/ Mint(s) \/ SelfVerify(s)

Next == \/ \E g \in Keygen : RunKeygen(g) \/ Stop(g)
        \/ \E s \in Sth : RunSth(s)

Spec == Init /\ [][Next]_vars
-----------------------------------------------------------------------------
(* Properties *)

(* Whichever halves of whichever pairs the files hold while sth reads      *)
(* them, it signs nothing with a key that is not that of the public key it *)
(* read: its self-verification never fails, as its comment has it.         *)
NeverMintsMixedPair ==
    \A s \in Sth : pc[s] = "exited" =>
        /\ exit[s] # EXIT_VERIFICATION_FAILED
        /\ minted[s] \in {Absent, pubkey[s]}

(* A keygen that ran alone and ended well has left both halves of its own  *)
(* pair, whatever stopped or overlapping runs had left before.             *)
LoneKeygenPairs ==
    alone \in Keygen /\ pc[alone] = "exited" => priv = alone /\ pub = alone
=============================================================================
