------------------------------ MODULE Pointers ------------------------------
(***************************************************************************)
(* Linked records of C.  A record is a positive number, a pointer field is *)
(* a function from records to pointers, and NULL is 0.                     *)
(***************************************************************************)
EXTENDS Integers, Sequences, FiniteSets

NULL == 0

\* if (i) i->f = v
Store(f, i, v) == IF i = NULL THEN f ELSE [f EXCEPT ![i] = v]

\* The records met from i on, in order.  A chain that turns back on itself
\* shows as one with a record twice.
Chain(f, i) ==
  LET n     == Cardinality(DOMAIN f)
      after == [x \in DOMAIN f \cup {NULL} |-> IF x = NULL THEN NULL ELSE f[x]]
      at[k \in 0 .. n] == IF k = 0 THEN i ELSE after[at[k - 1]]
  IN  [k \in 1 .. Cardinality({j \in 0 .. n : at[j] # NULL}) |-> at[k - 1]]

\* The doubly linked list between head and tail is well formed: its records
\* are those of the set rs, each once, and prev undoes next.
IsDoublyLinked(head, tail, prev, next, rs) ==
  LET s == Chain(next, head)
  IN  /\ {s[i] : i \in DOMAIN s} = rs
      /\ \A i, j \in DOMAIN s : s[i] = s[j] => i = j
      /\ \A i \in DOMAIN s : prev[s[i]] = (IF i = 1 THEN NULL ELSE s[i - 1])
      /\ tail = (IF s = <<>> THEN NULL ELSE s[Len(s)])
=============================================================================
