------------------------------ MODULE KeyedMap ------------------------------
(***************************************************************************)
(* What a map of keys to values promises, whatever it is stored in.  The   *)
(* last call is part of the state, so that a map that changes another key  *)
(* than the one it was called with does not pass.                          *)
(***************************************************************************)
CONSTANTS Keys, Values,
          Missing     \* the answer for a key that is not there

VARIABLES map,        \* function from the keys held to their values
          last        \* <<operation, key, value given or answered>>

Init == map = <<>> /\ last = <<"none", 0, Missing>>

Put(k, v) ==
  /\ last' = <<"put", k, v>>
  /\ map' = [j \in DOMAIN map \cup {k} |-> IF j = k THEN v ELSE map[j]]

Remove(k) ==
  /\ last' = <<"remove", k, Missing>>
  /\ map' = [j \in DOMAIN map \ {k} |-> map[j]]

Ask(k) ==
  /\ last' = <<"ask", k, IF k \in DOMAIN map THEN map[k] ELSE Missing>>
  /\ UNCHANGED map

Clear == last' = <<"none", 0, Missing>> /\ map' = <<>>

Next ==
  \/ \E k \in Keys : Remove(k) \/ Ask(k) \/ \E v \in Values : Put(k, v)
  \/ Clear

Step == [Next]_<<map, last>>

Spec == Init /\ [][Step]_<<map, last>>
=============================================================================
