------------------------------ MODULE FifoQueue ------------------------------
(***************************************************************************)
(* What a bounded buffer promises: values leave in the order they came,    *)
(* none is lost or made up, and no more than Capacity are held.            *)
(***************************************************************************)
EXTENDS Integers, Sequences

CONSTANTS Capacity, Values

VARIABLE items

Init == items = <<>>

Put(v) == Len(items) < Capacity /\ items' = Append(items, v)
Get    == items # <<>> /\ items' = Tail(items)

Next == Get \/ \E v \in Values : Put(v)

Spec == Init /\ [][Next]_items
=============================================================================
