----------------------------- MODULE Canonical -----------------------------
(***************************************************************************)
(* canonical.py: dumps, loads and hash, and two parties that hash the same *)
(* object, one as it has it, the other as it came over JSON-RPC.           *)
(***************************************************************************)
EXTENDS Naturals, Sequences, FiniteSets, TLC

CONSTANTS NonFinite,   \* the floats that are none in JSON
          Foreign,     \* what json has no form for
          Object       \* the objects hashed

(* A Python value: an atom (a number, a string, True, False or None), a    *)
(* list or tuple, or a dict, as the sequence of its items in the order     *)
(* they were inserted.  A JSON text is a value too, whose dicts list their *)
(* members as they are written.                                            *)
Leaf(a)  == [kind |-> "atom", atom |-> a]
List(s)  == [kind |-> "list", of |-> s]
Tuple(s) == [kind |-> "tuple", of |-> s]
Dict(s)  == [kind |-> "dict", of |-> s]
Error    == [kind |-> "error"]

(* A key: an int, below 100, or a string, as the sequence of its code      *)
(* points.                                                                 *)
Text(s) == [kind |-> "str", text |-> s, number |-> 0]
Number(n) == [kind |-> "int", text |-> << >>, number |-> n]

(* str() of an int. *)
DigitsOf(n) == IF n < 10 THEN <<48 + n>> ELSE <<48 + (n \div 10), 48 + (n % 10)>>
Written(key) == IF key.kind = "int" THEN DigitsOf(key.number) ELSE key.text

(* By code points. *)
TextBefore(s, t) ==
    \E i \in 1..Len(t) :
        /\ i <= Len(s) + 1
        /\ SubSeq(s, 1, i - 1) = SubSeq(t, 1, i - 1)
        /\ i <= Len(s) => s[i] < t[i]

(* Python's < on two keys of one type. *)
Before(k, l) == IF k.kind = "int" THEN k.number < l.number ELSE TextBefore(k.text, l.text)

-----------------------------------------------------------------------------
(* _reject_non_finite, on the values of dicts and the items of lists. *)
RECURSIVE Finite(_)
Finite(x) ==
    CASE x.kind = "atom"             -> x.atom \notin NonFinite
      [] x.kind = "dict"             -> \A i \in 1..Len(x.of) : Finite(x.of[i].value)
      [] x.kind \in {"list", "tuple"} -> \A i \in 1..Len(x.of) : Finite(x.of[i])

(* sort_keys compares keys as they are, and keys of two types not at all.  *)
Sortable(items) == Cardinality({items[i].key.kind : i \in 1..Len(items)}) <= 1
SortedItems(items) == SortSeq(items, LAMBDA p, q : Before(p.key, q.key))

(* json.dumps: with sort_keys, and the items in the order given without.   *)
RECURSIVE Encode(_, _)
Encode(x, sort_keys) ==
    LET Items == [i \in 1..Len(x.of) |-> Encode(x.of[i], sort_keys)]
        sorted == IF sort_keys THEN SortedItems(x.of) ELSE x.of
        Members == [i \in 1..Len(sorted) |-> [key |-> Text(Written(sorted[i].key)),
                                              value |-> Encode(sorted[i].value, sort_keys)]]
    IN  CASE x.kind = "atom" -> IF x.atom \in Foreign THEN Error ELSE x
          [] x.kind \in {"list", "tuple"} ->
                 IF \E i \in DOMAIN Items : Items[i] = Error THEN Error ELSE List(Items)
          [] x.kind = "dict" ->
                 IF sort_keys /\ ~ Sortable(x.of) THEN Error
                 ELSE IF \E i \in DOMAIN Members : Members[i].value = Error THEN Error
                 ELSE Dict(Members)

(* Faulty: without sort_keys. *)
Dumps_Unsorted(x) == IF Finite(x) THEN Encode(x, FALSE) ELSE Error

Dumps(x) == IF Finite(x) THEN Encode(x, TRUE) ELSE Error

(* json.loads: of members of one name the last one counts, where the first *)
(* one stood.                                                              *)
RECURSIVE Loads(_)
Loads(text) ==
    LET firsts == SelectSeq([i \in 1..Len(text.of) |-> i],
                      LAMBDA i : \A j \in 1..(i - 1) : text.of[j].key # text.of[i].key)
        LastOf(key) == CHOOSE i \in 1..Len(text.of) :
                           /\ text.of[i].key = key
                           /\ \A j \in (i + 1)..Len(text.of) : text.of[j].key # key
        Member(i) == [key |-> text.of[i].key,
                      value |-> Loads(text.of[LastOf(text.of[i].key)].value)]
    IN  CASE text.kind = "atom" -> text
          [] text.kind = "list" -> List([i \in 1..Len(text.of) |-> Loads(text.of[i])])
          [] text.kind = "dict" -> Dict([n \in 1..Len(firsts) |-> Member(firsts[n])])

-----------------------------------------------------------------------------
VARIABLES mine,     \* the object the server hashes
          theirs,   \* what the caller has received
          own, far, \* the canonical texts the two hash
          pc

vars == <<mine, theirs, own, far, pc>>

(* append: canonical.hash of params or result. *)
Hash ==
    /\ pc = "hash"
    /\ own' = Dumps(mine)
    /\ pc' = IF own' = Error THEN "refused" ELSE "send"
    /\ UNCHANGED <<mine, theirs, far>>

(* The object goes over the wire as JSON, its members in the order they    *)
(* were inserted or in some other, as the transport likes.                 *)
Send ==
    /\ pc = "send"
    /\ \E text \in {Encode(mine, sort_keys) : sort_keys \in BOOLEAN} \ {Error} :
           theirs' = Loads(text)
    /\ pc' = "rehash"
    /\ UNCHANGED <<mine, own, far>>

(* verify_receipt: canonical.hash of what the caller holds. *)
Rehash ==
    /\ pc = "rehash"
    /\ far' = Dumps(theirs)
    /\ pc' = "done"
    /\ UNCHANGED <<mine, theirs, own>>

Init ==
    /\ mine \in Object
    /\ theirs = Error /\ own = Error /\ far = Error
    /\ pc = "hash"

Done == pc \in {"refused", "done"} /\ UNCHANGED vars

Next == Hash \/ Send \/ Rehash \/ Done

Spec == Init /\ [][Next]_vars
-----------------------------------------------------------------------------
(* Properties *)

(* Two values are the same JSON value: dicts as maps from the names of     *)
(* their keys, lists and tuples as sequences.                              *)
RECURSIVE Same(_, _)
Same(x, y) ==
    \/ x.kind = "atom" /\ x = y
    \/ /\ x.kind \in {"list", "tuple"} /\ y.kind \in {"list", "tuple"}
       /\ Len(x.of) = Len(y.of)
       /\ \A i \in 1..Len(x.of) : Same(x.of[i], y.of[i])
    \/ /\ x.kind = "dict" /\ y.kind = "dict"
       /\ Len(x.of) = Len(y.of)
       /\ \A i \in 1..Len(x.of) : \E j \in 1..Len(y.of) :
              /\ Written(x.of[i].key) = Written(y.of[j].key)
              /\ Same(x.of[i].value, y.of[j].value)

RECURSIVE OnlyTextKeys(_)
OnlyTextKeys(x) ==
    CASE x.kind = "atom"             -> TRUE
      [] x.kind = "dict"             -> \A i \in 1..Len(x.of) :
                                            /\ x.of[i].key.kind = "str"
                                            /\ OnlyTextKeys(x.of[i].value)
      [] x.kind \in {"list", "tuple"} -> \A i \in 1..Len(x.of) : OnlyTextKeys(x.of[i])

(* Any object with one canonical text with mine is the same value, and, if *)
(* the keys of both are strings, any with another text is another value:   *)
(* in whichever order dicts were built.                                    *)
OneTextPerValue ==
    pc = "send" => \A other \in Object :
        LET text == Dumps(other)
        IN  /\ own = text => Same(mine, other)
            /\ text # Error /\ Same(mine, other) /\ OnlyTextKeys(mine) /\ OnlyTextKeys(other)
               => own = text

(* Who received an object with string keys over the wire, in whatever      *)
(* order, hashes what the server has hashed.                               *)
CallerHashesTheSame == pc = "done" /\ OnlyTextKeys(mine) => own = far

(* "Two parties computing the hash of the same object obtain the same      *)
(* digest", with ints among the keys too.                                  *)
PartiesAgree == pc = "done" => own = far
=============================================================================
