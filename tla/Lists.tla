-------------------------------- MODULE Lists --------------------------------
(* What the models do with lists: filtering, without a recursion.          *)
EXTENDS Integers, Sequences, FiniteSets

(* A sequence of anything.                                                 *)
IsList(s) == Len(s) \in Nat /\ s = [i \in 1 .. Len(s) |-> s[i]]

(* The elements of a sequence that are in a set, in their order.           *)
Among(seq, some) ==
    LET at == {i \in DOMAIN seq : seq[i] \in some}
    IN  [n \in 1 .. Cardinality(at) |->
            seq[CHOOSE i \in at : Cardinality({k \in at : k <= i}) = n]]
=============================================================================
