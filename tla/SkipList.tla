------------------------------ MODULE SkipList ------------------------------
(***************************************************************************)
(* The skip list that holds the pairs of the store, as a value: its nodes  *)
(* with their links, curLevel_ and elementCount_.                          *)
(*                                                                         *)
(* A node is named by its key, which never changes while it lives; keys    *)
(* are numbers for their order.  forward has a node in its domain while    *)
(* its memory is not freed, so that a link to a freed node shows.  mutex_  *)
(* is left out: only the apply thread uses the list (KVServer.cc:268).     *)
(***************************************************************************)
EXTENDS Naturals, FiniteSets, SequencesExt

CONSTANTS
  Key,        \* keys, in their order
  MaxLevel,   \* maxLevel_
  Nil         \* nullptr, nullopt

ASSUME SkipListAssumption ==
  /\ Key \subseteq Nat \ {0}
  /\ MaxLevel \in Nat
  /\ Nil \notin Nat

Header == 0

Level == 0 .. MaxLevel

NewList ==
  [ forward |-> [n \in {Header} |-> [i \in Level |-> Nil]], value |-> [n \in {} |-> Nil],
    curLevel |-> 0, elementCount |-> 0 ]

Nodes(list) == DOMAIN list.forward

\* The nodes of at least height i, the header among them.
NodesOn(list, i) == { n \in Nodes(list) : i \in DOMAIN list.forward[n] }

Forward(list, node, i) == list.forward[node][i]

----------------------------------------------------------------------------
(* The search that insert, erase, get and find begin with.                 *)

\* From a node along level i to the last one whose key is below k.
Advance(list, node, i, k) ==
  LET last[n \in NodesOn(list, i)] ==
        IF Forward(list, n, i) # Nil /\ Forward(list, n, i) < k
        THEN last[Forward(list, n, i)] ELSE n
  IN last[node]

\* update[]: on each level the last node below k, where the level above left off.
Predecessors(list, k) ==
  LET update[i \in 0 .. list.curLevel] ==
        Advance(list, IF i = list.curLevel THEN Header ELSE update[i + 1], i, k)
  IN update

\* The node after the last one below k.
Position(list, k) == Forward(list, Predecessors(list, k)[0], 0)

Find(list, k) == Position(list, k) = k

Get(list, k) == IF Find(list, k) THEN list.value[k] ELSE Nil

Size(list) == list.elementCount

----------------------------------------------------------------------------
(* insert() and erase()                                                    *)

\* A node of height random goes behind its predecessors: the header on the
\* levels that the list did not have.
LinkNode(list, k, random) ==
  LET update == Predecessors(list, k)
      before(i) == IF i <= list.curLevel THEN update[i] ELSE Header
  IN [ n \in Nodes(list) \cup {k} |->
         IF n = k THEN [i \in 0 .. random |-> Forward(list, before(i), i)]
         ELSE [i \in DOMAIN list.forward[n] |->
                 IF i <= random /\ before(i) = n THEN k ELSE Forward(list, n, i)] ]

\* random is what getRandomLevel() returns.
Insert(list, k, v, random) ==
  IF Find(list, k) THEN [list EXCEPT !.value[k] = v]
  ELSE [ forward      |-> LinkNode(list, k, random),
         value        |-> [ n \in DOMAIN list.value \cup {k} |->
                              IF n = k THEN v ELSE list.value[n] ],
         curLevel     |-> IF random > list.curLevel THEN random ELSE list.curLevel,
         elementCount |-> list.elementCount + 1 ]

\* Mutant: the node is taken out of the lowest sublist only.
UnlinkNode_Bottom(list, k) ==
  LET update == Predecessors(list, k)
  IN [ n \in Nodes(list) \ {k} |->
         [i \in DOMAIN list.forward[n] |->
            IF i = 0 /\ update[0] = n THEN Forward(list, k, i) ELSE Forward(list, n, i)] ]

\* From the lowest level up to the first on which the node is not linked.
UnlinkNode(list, k) ==
  LET update == Predecessors(list, k)
      linked(i) == \A j \in 0 .. i : Forward(list, update[j], j) = k
  IN [ n \in Nodes(list) \ {k} |->
         [i \in DOMAIN list.forward[n] |->
            IF i <= list.curLevel /\ update[i] = n /\ linked(i)
            THEN Forward(list, k, i) ELSE Forward(list, n, i)] ]

\* Without the node, and without the levels that it leaves empty.
Removed(list, k) ==
  LET forward == UnlinkNode(list, k)
      unused == { i \in 1 .. list.curLevel :
                    \A j \in i .. list.curLevel : forward[Header][j] = Nil }
  IN [ forward      |-> forward,
       value        |-> [ n \in DOMAIN list.value \ {k} |-> list.value[n] ],
       curLevel     |-> list.curLevel - Cardinality(unused),
       elementCount |-> list.elementCount - 1 ]

\* Mutant: the key of the node that is found is not compared.
Erase_Any(list, k) ==
  IF Position(list, k) = Nil THEN list ELSE Removed(list, Position(list, k))

Erase(list, k) == IF Find(list, k) THEN Removed(list, k) ELSE list

----------------------------------------------------------------------------
(* Walks along the lowest sublist                                          *)

\* The nodes of level i from the header on.
Chain(list, i) ==
  LET rest[n \in NodesOn(list, i)] ==
        IF Forward(list, n, i) = Nil THEN << >>
        ELSE << Forward(list, n, i) >> \o rest[Forward(list, n, i)]
  IN rest[Header]

\* dumpToJson(): the pairs by key.
DumpToJson(list) ==
  [ k \in IF list.elementCount = 0 THEN {} ELSE ToSet(Chain(list, 0)) |-> list.value[k] ]

\* Mutant: the sizes are not compared.
Equal_Prefix(list1, list2) ==
  \A i \in DOMAIN Chain(list1, 0) \cap DOMAIN Chain(list2, 0) :
    LET k == Chain(list1, 0)[i] IN
    k = Chain(list2, 0)[i] /\ list1.value[k] = list2.value[k]

\* operator==: the sizes, then pair by pair to the end of either list.
Equal(list1, list2) ==
  LET pairs(list) == [ i \in DOMAIN Chain(list, 0) |->
                         << Chain(list, 0)[i], list.value[Chain(list, 0)[i]] >> ]
      a == pairs(list1)
      b == pairs(list2)
  IN /\ Size(list1) = Size(list2)
     /\ \A i \in DOMAIN a \cap DOMAIN b : a[i] = b[i]

\* clear(header_->forward_[0]) frees every node but the header, whose links,
\* with curLevel_ and elementCount_, stay as they are.
Clear(list) ==
  [ list EXCEPT !.forward = [n \in {Header} |-> list.forward[Header]],
                !.value = [n \in {} |-> Nil] ]

\* Mutant: the pairs are inserted from the largest key down.
LoadFromJson_Descending(list, json, keyWord, word, random) ==
  LET insert(k, acc) == Insert(acc, keyWord[k], word[json[k]], random[k])
  IN IF list.elementCount > 0 THEN Clear(list)
     ELSE MapThenFoldSet(insert, list, LAMBDA k : k, Min, DOMAIN json)

\* loadFromJson(): the pairs are inserted in the order of their keys.  keyWord
\* and word are what the extraction with >> leaves of a key and of a value, so
\* that keys may fall together: the last of them to be inserted gives the value.
\* random are the levels that are drawn.  A list that holds something is cleared
\* first, and the insertions then run over freed nodes: it is left as clear()
\* leaves it.
LoadFromJson(list, json, keyWord, word, random) ==
  LET insert(k, acc) == Insert(acc, keyWord[k], word[json[k]], random[k])
  IN IF list.elementCount > 0 THEN Clear(list)
     ELSE MapThenFoldSet(insert, list, LAMBDA k : k, Max, DOMAIN json)

----------------------------------------------------------------------------
(* What makes the links a skip list                                        *)

\* On every level up to curLevel_ the keys of the nodes of at least that
\* height, ascending; nothing above; the counts that go with it.
WellFormed(list) ==
  /\ \A i \in Level : LET keys == Chain(list, i) IN
       /\ ToSet(keys) = NodesOn(list, i) \ {Header}
       /\ \A x, y \in DOMAIN keys : x < y => keys[x] < keys[y]
  /\ list.curLevel = Cardinality({ i \in 1 .. MaxLevel : Forward(list, Header, i) # Nil })
  /\ list.elementCount = Cardinality(Nodes(list) \ {Header})
  /\ DOMAIN list.value = Nodes(list) \ {Header}

\* Every link leads to memory that is not freed.
NoDanglingLink(list) ==
  \A n \in Nodes(list) : \A i \in DOMAIN list.forward[n] :
    list.forward[n][i] \in Nodes(list) \cup {Nil}
=============================================================================
