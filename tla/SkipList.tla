------------------------------ MODULE SkipList ------------------------------
(***************************************************************************)
(* SKIPLIST/skiplist.c: nodes with forward pointers at levels 0 up to a    *)
(* random height.  A value is in the list at most once, so a node is known *)
(* by its data; forward[n] has the levels the node was allocated with, and *)
(* none if it is not allocated.                                            *)
(***************************************************************************)
EXTENDS Integers, FiniteSetsExt

CONSTANTS Data,        \* values inserted, positive
          MAX_LEVEL

NULL   == 0
Header == -1
Nodes  == Data \cup {Header}
Levels == 0 .. MAX_LEVEL

VARIABLES level,       \* highest level in use
          forward,
          last         \* history: the last call and its answer

vars == <<level, forward, last>>

ConstantsOK == Data \subseteq Nat \ {0} /\ MAX_LEVEL \in Nat

TypeOK ==
  /\ level \in Levels
  /\ DOMAIN forward = Nodes
  /\ \A n \in Nodes, i \in Levels : i \in DOMAIN forward[n] => forward[n][i] \in Data \cup {NULL}

createNode(h) == [i \in 0 .. h |-> NULL]

\* createSkipList
Init ==
  /\ level = 0
  /\ forward = [n \in Nodes |-> IF n = Header THEN createNode(MAX_LEVEL) ELSE <<>>]
  /\ last = <<"none", 0, 0>>

\* The search all three calls begin with: on each level, from the top, the
\* last node before data, starting where the level above left off.
update(data) ==
  LET walk[n \in Nodes, i \in Levels] ==
        IF forward[n][i] # NULL /\ forward[n][i] < data THEN walk[forward[n][i], i] ELSE n
      at[i \in 0 .. level] == walk[IF i = level THEN Header ELSE at[i + 1], i]
  IN  at

Found(data) == forward[update(data)[0]][0] = data

\* A value that is there is left as it is; for a new one randomLevel may
\* return any level.
insertElement(data, newLevel) ==
  LET at == [i \in Levels |-> IF i <= level THEN update(data)[i] ELSE Header]
  IN  /\ IF Found(data)
           THEN newLevel = 0 /\ UNCHANGED <<level, forward>>
           ELSE /\ level' = Max({level, newLevel})
                /\ forward' = [n \in Nodes |->
                     IF n = data THEN [i \in 0 .. newLevel |-> forward[at[i]][i]]
                     ELSE [i \in DOMAIN forward[n] |->
                             IF i <= newLevel /\ at[i] = n THEN data ELSE forward[n][i]]]
      /\ last' = <<"put", data, 1>>

searchElement(data) ==
  /\ last' = <<"ask", data, IF Found(data) THEN 1 ELSE 0>>
  /\ UNCHANGED <<level, forward>>

\* Mutant: the level of the list is not lowered.
ShrinkNever(f) == level

Shrink(f) == Max({i \in 0 .. level : i = 0 \/ f[Header][i] # NULL})

\* Unlinked level by level, up to the first that does not lead to the node.
deleteElement(data) ==
  LET at      == update(data)
      Led(i)  == \A j \in 0 .. i : forward[at[j]][j] = data
      without == [n \in Nodes |->
                    IF n = data THEN <<>>
                    ELSE [i \in DOMAIN forward[n] |->
                            IF i <= level /\ at[i] = n /\ Led(i) THEN forward[data][i]
                            ELSE forward[n][i]]]
  IN  /\ IF Found(data)
           THEN forward' = without /\ level' = Shrink(without)
           ELSE UNCHANGED <<level, forward>>
      /\ last' = <<"remove", data, 0>>

Next ==
  \E d \in Data :
    searchElement(d) \/ deleteElement(d) \/ \E l \in Levels : insertElement(d, l)
-----------------------------------------------------------------------------
(* Properties.                                                             *)

Held == {d \in Data : DOMAIN forward[d] # {}}

Map == INSTANCE KeyedMap WITH
  Keys <- Data, Values <- {1}, Missing <- 0, map <- [d \in Held |-> 1]

\* Whatever the heights, insertElement, deleteElement and searchElement act
\* as a set's operations.
IsSet == Map!Spec

\* On every level the nodes that reach it, and no freed one, are linked once
\* each and in order, and the levels in use are those that have a node.
LevelsSound ==
  /\ \A i \in Levels :
       LET here == {n \in Nodes : i \in DOMAIN forward[n]}
       IN  /\ \A n \in here : forward[n][i] # NULL => n < forward[n][i] /\ forward[n][i] \in here
           /\ \A d \in here \ {Header} : \E n \in here : {m \in here : forward[m][i] = d} = {n}
  /\ level = Max({0} \cup {i \in Levels : forward[Header][i] # NULL})
=============================================================================
