----------------------------- MODULE MCVerifier -----------------------------
(* Instances of Verifier for TLC: a server with the key k, whose log is of *)
(* the calls a, b, c or, where it equivocates, also of a, d, b, and files  *)
(* of at most MaxLines lines put together from what one can find or make.  *)
EXTENDS Verifier, FiniteSets

CONSTANTS a, b, c, d, k, stranger, respelled, nothex, MaxLines

LogOf(calls) ==
    [i \in 1..Len(calls) |->
        [seq |-> i - 1, call |-> calls[i], signer |-> k,
         prev_hash |-> [j \in 1..i - 1 |->
                           [seq |-> j - 1, call |-> calls[j], signer |-> k]]]]

Honest == {LogOf(<<a, b, c>>)}
Equivocating == Honest \cup {LogOf(<<a, d, b>>)}

Genuine == UNION {{h[i] : i \in 1..Len(h)} : h \in History}

(* What takes no key: another call or another spelling of the signature on *)
(* a genuine record; what takes the stranger's own: a record in its place. *)
Forged == UNION {{[r EXCEPT !.call = d, !.signer = NoKey],
                  [r EXCEPT !.signer = respelled],
                  [r EXCEPT !.signer = nothex],
                  [r EXCEPT !.call = d, !.signer = stranger]} : r \in Genuine}

AllFiles == UNION {[1..n -> Genuine \cup Forged \cup Junk] : n \in 0..MaxLines}

(* Odd signatures: the key's own in capitals, and no hex at all. *)
OddMeaning == [o \in OddSignature |-> IF o = respelled THEN k ELSE NotHex]

(* a, b and c carry the same params and result. *)
Payloads == [x \in Call |-> IF x = d THEN d ELSE a]
=============================================================================
