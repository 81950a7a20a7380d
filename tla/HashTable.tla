------------------------------ MODULE HashTable ------------------------------
(***************************************************************************)
(* HashTable/hashTable.c: buckets of singly linked nodes, appended to at   *)
(* the end.  A chain is only walked from its head, so it is the sequence   *)
(* of its <<key, value>> pairs.                                            *)
(***************************************************************************)
EXTENDS Integers, SequencesExt, FiniteSetsExt

CONSTANTS Keys, Values,
          TABLE_SIZE,
          hash          \* function from the keys to 0 .. TABLE_SIZE - 1

VARIABLES hashTable,
          corrupt,      \* a freed node has been linked
          last          \* history: the last call and its answer

vars == <<hashTable, corrupt, last>>

Missing == -1

ConstantsOK ==
  /\ TABLE_SIZE \in Nat \ {0} /\ Values \subseteq Nat
  /\ hash \in [Keys -> 0 .. TABLE_SIZE - 1]

TypeOK ==
  /\ hashTable \in [0 .. TABLE_SIZE - 1 -> Seq(Keys \X Values)]
  /\ corrupt \in BOOLEAN

Init ==
  /\ hashTable = [b \in 0 .. TABLE_SIZE - 1 |-> <<>>]
  /\ corrupt = FALSE
  /\ last = <<"none", 0, Missing>>

Places(k) == {i \in DOMAIN hashTable[hash[k]] : hashTable[hash[k]][i][1] = k}

\* insert: a new key goes to the end, and the last node of the chain may be
\* updated.
insert(k, v) ==
  /\ ~corrupt
  /\ \A i \in Places(k) : i = Len(hashTable[hash[k]])
  /\ hashTable' = [hashTable EXCEPT ![hash[k]] =
       IF Places(k) = {} THEN Append(@, <<k, v>>) ELSE [@ EXCEPT ![Len(@)] = <<k, v>>]]
  /\ last' = <<"put", k, v>>
  /\ UNCHANGED corrupt

\* insert of a key further up its chain updates it, frees the new node, goes
\* on to the end and links the freed node there; what the table holds from
\* then on is undefined, and the model stops.
insertFreed(k, v) ==
  /\ ~corrupt
  /\ \E i \in Places(k) : i < Len(hashTable[hash[k]])
  /\ corrupt' = TRUE
  /\ UNCHANGED <<hashTable, last>>

search(k) ==
  /\ ~corrupt
  /\ last' = <<"ask", k, IF Places(k) = {} THEN Missing
                         ELSE hashTable[hash[k]][Min(Places(k))][2]>>
  /\ UNCHANGED <<hashTable, corrupt>>

\* Mutant: the head of the chain goes, whichever node has the key.
deleteHead(k) ==
  /\ ~corrupt
  /\ hashTable' = [hashTable EXCEPT ![hash[k]] = IF Places(k) = {} THEN @ ELSE Tail(@)]
  /\ last' = <<"remove", k, Missing>>
  /\ UNCHANGED corrupt

delete(k) ==
  /\ ~corrupt
  /\ hashTable' = [hashTable EXCEPT ![hash[k]] =
       IF Places(k) = {} THEN @ ELSE RemoveAt(@, Min(Places(k)))]
  /\ last' = <<"remove", k, Missing>>
  /\ UNCHANGED corrupt

Next ==
  \E k \in Keys :
    search(k) \/ delete(k) \/ \E v \in Values : insert(k, v) \/ insertFreed(k, v)
-----------------------------------------------------------------------------
(* Properties.                                                             *)

Held == {k \in Keys : Places(k) # {}}

Map == INSTANCE KeyedMap WITH
  map <- [k \in Held |-> hashTable[hash[k]][Min(Places(k))][2]]

\* The chains answer as a map from keys to values, up to the first insert
\* that links a freed node.
IsMap == Map!Spec
=============================================================================
