---------------------------- MODULE MCCanonical ----------------------------
(* Instances of Canonical for TLC: dicts of up to two keys, alone, in a    *)
(* list, a tuple or a dict.                                                *)
EXTENDS Canonical

CONSTANTS a, b, nan, socket

Item(k, v) == [key |-> k, value |-> v]
Leaves == {Leaf(a), Leaf(b), Leaf(nan), Leaf(socket), List(<<Leaf(b)>>)}
Keys == {Number(2), Number(10), Text(DigitsOf(2)), Text(DigitsOf(10)), Text(<< >>)}

Dicts == {Dict(<< >>)} \cup {Dict(<<Item(k, v)>>) : k \in Keys, v \in Leaves}
         \cup {Dict(<<Item(k, v), Item(l, w)>>) : k, l \in Keys, v, w \in Leaves}
OneOfEach(d) == \A i, j \in 1..Len(d.of) : d.of[i].key = d.of[j].key => i = j

Inner == {d \in Dicts : OneOfEach(d)}
Objects == Leaves \cup Inner \cup {List(<<d, Leaf(a)>>) : d \in Inner}
           \cup {Tuple(<<d, Leaf(a)>>) : d \in Inner}
           \cup {Dict(<<Item(Text(<<97>>), d), Item(Text(<<66>>), Leaf(a))>>) : d \in Inner}
=============================================================================
