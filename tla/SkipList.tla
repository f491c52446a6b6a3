------------------------------ MODULE SkipList ------------------------------
(* anytls/skiplist: the ordered list of idle sessions.  A node is its key; *)
(* HeadNode is before and Nil after every key.  next[n][i] is the successor of *)
(* n on level i (level 1 is the code's 0).  Walks go down from the top     *)
(* level and never back.                                                   *)
EXTENDS Naturals, FiniteSets

CONSTANTS MaxKey, MaxLevel,     \* bounds: keys, and levels of a node
          Values, NoValue

ASSUME SkipListAssumption == MaxKey \in Nat \ {0} /\ MaxLevel \in Nat \ {0} /\ NoValue \notin Values

VARIABLES next,     \* node -> level -> node
          height,   \* key -> levels of its node, 0 when it is not in the list
          value,    \* key -> value of its node
          level,    \* sl.level: levels in use
          len       \* sl.len

listVars == <<next, height, value, level, len>>

Keys == 1 .. MaxKey
HeadNode == 0
Nil == MaxKey + 1
Nodes == Keys \cup {HeadNode}
Levels == 1 .. MaxLevel

ListInit ==
  /\ next = [n \in Nodes |-> [i \in Levels |-> Nil]]
  /\ height = [k \in Keys |-> 0] /\ value = [k \in Keys |-> NoValue]
  /\ level = 1 /\ len = 0

-----------------------------------------------------------------------------
(* The walks of skipListOrdered.                                           *)

\* From node p along level i, the last node before key.
Along(p, i, key) ==
  LET walk[n \in Nodes] == IF next[n][i] < key THEN walk[next[n][i]] ELSE n
  IN walk[p]

\* prevs: on each level the last node before key.
FindPrevNodes(key) ==
  LET prevs[i \in 1 .. level] == Along(IF i = level THEN HeadNode ELSE prevs[i + 1], i, key)
  IN prevs

\* The insertion walk stops on the first level where it meets the key.
FindInsertPoint(key) ==
  LET prevs == FindPrevNodes(key)
      hits == {i \in 1 .. level : next[prevs[i]][i] = key}
  IN IF hits # {} THEN [node |-> key, prevs |-> <<>>] ELSE [node |-> Nil, prevs |-> prevs]

FindRemovePoint(key) ==
  LET prevs == FindPrevNodes(key)
      node == next[prevs[1]][1]
  IN IF node # key THEN [node |-> Nil, prevs |-> <<>>] ELSE [node |-> node, prevs |-> prevs]

\* doFindNode: the node with the key wherever the walk meets it; else, unless
\* the key itself is wanted, what follows the last node before it.
DoFindNode(key, eq) ==
  LET point == FindInsertPoint(key) IN
  IF point.node # Nil THEN point.node
  ELSE IF eq THEN Nil ELSE next[point.prevs[1]][1]

LowerBound(key) == DoFindNode(key, FALSE)
UpperBound(key) == IF LowerBound(key) = key THEN next[key][1] ELSE LowerBound(key)
Has(key) == DoFindNode(key, TRUE) # Nil
Find(key) == IF Has(key) THEN value[key] ELSE NoValue

\* skipListFunc does the same with a comparison function; only its findNode
\* goes through lowerBound.
FuncLowerBound(key) ==
  LET prevs[i \in 1 .. level] == Along(IF i = level THEN HeadNode ELSE prevs[i + 1], i, key)
      hits == {i \in 1 .. level : next[prevs[i]][i] = key}
  IN IF hits # {} THEN key ELSE next[prevs[1]][1]
FuncFindNode(key) == IF FuncLowerBound(key) = key THEN key ELSE Nil
FuncUpperBound(key) == IF FuncLowerBound(key) = key THEN next[key][1] ELSE FuncLowerBound(key)

\* The keys an iterator visits from node n up to node end, by next[0].
Visited(n, end) ==
  LET seen[m \in Nodes \cup {Nil}] == IF m \in {end, Nil} THEN {} ELSE {m} \cup seen[next[m][1]]
  IN seen[n]
FindRange(first, last) == Visited(LowerBound(first), UpperBound(last))
ForEach == Visited(next[HeadNode][1], Nil)

-----------------------------------------------------------------------------
\* randomLevel: any level, but above 3 only with 2^(level-3) elements.
RandomLevels == {h \in Levels : h > 3 => 2 ^ (h - 3) <= len}

\* newSkipListNode: a node with h successors.
NewNode(key, h, prevs) == [i \in Levels |-> IF i <= h /\ i <= level THEN next[prevs[i]][i] ELSE Nil]

\* The new node is linked after prevs on the levels in use and after head on
\* the levels it adds.
Link(key, h, prevs) ==
  [n \in Nodes |->
     IF n = key THEN NewNode(key, h, prevs)
     ELSE [i \in Levels |-> IF i <= h /\ (IF i <= level THEN prevs[i] = n ELSE n = HeadNode)
                            THEN key ELSE next[n][i]]]

Insert(key, v) ==
  LET point == FindInsertPoint(key) IN
  /\ value' = [value EXCEPT ![key] = v]
  /\ \/ point.node # Nil /\ UNCHANGED <<next, height, level, len>>
     \/ /\ point.node = Nil
        /\ \E h \in RandomLevels :
             /\ height' = [height EXCEPT ![key] = h]
             /\ next' = Link(key, h, point.prevs)
             /\ level' = IF h > level THEN h ELSE level
        /\ len' = len + 1

\* A mutant: only the lowest level is unlinked.
UnlinkLowest(key, prevs) ==
  [n \in Nodes |->
     [i \in Levels |-> IF n = key THEN Nil ELSE IF i = 1 /\ prevs[i] = n THEN next[key][i] ELSE next[n][i]]]

\* The node is unlinked on each of its levels; what it pointed to is garbage.
Unlink(key, prevs) ==
  [n \in Nodes |->
     [i \in Levels |-> IF n = key THEN Nil ELSE IF i <= height[key] /\ prevs[i] = n THEN next[key][i] ELSE next[n][i]]]

\* sl.level falls while the top level is empty.
Lowered(nxt) ==
  LET used == {i \in 2 .. level : \A j \in i .. level : nxt[HeadNode][j] = Nil}
  IN level - Cardinality(used)

Remove(key) ==
  LET point == FindRemovePoint(key) IN
  /\ point.node # Nil
  /\ next' = Unlink(key, point.prevs)
  /\ level' = Lowered(next')
  /\ height' = [height EXCEPT ![key] = 0] /\ value' = [value EXCEPT ![key] = NoValue]
  /\ len' = len - 1

Clear ==
  /\ next' = [n \in Nodes |-> [i \in Levels |-> Nil]]
  /\ height' = [k \in Keys |-> 0] /\ value' = [k \in Keys |-> NoValue]
  /\ level' = 1 /\ len' = 0

ListNext == \/ \E k \in Keys : Remove(k) \/ \E v \in Values : Insert(k, v)
            \/ Clear

ListSpec == ListInit /\ [][ListNext]_listVars

-----------------------------------------------------------------------------
(* Properties.                                                             *)

\* The list implements the map of its keys, as its own Find sees it: an
\* insertion or removal never hides or revives another key, whatever levels
\* the nodes have (Insert and Remove splice up to 40 levels by prevs).
Contents == [k \in Keys |-> Find(k)]
Map == INSTANCE OrderedMap WITH map <- Contents, MapKeys <- Keys, MapValues <- Values, Absent <- NoValue
ImplementsMap == Map!MapSpec

\* The least key of S, Nil when there is none.
Least(S) == CHOOSE k \in S \cup {Nil} : \A j \in S : k <= j

\* Every walk tells the truth: a bound is the least key at or after its
\* argument, in both implementations; the iteration visits len keys; and a
\* range goes from the lower bound of first to the upper bound of last, so it
\* holds the keys from first to last, last included.  The comment on FindRange
\* leaves last out: see RangeExcludesLast.
WalksAgree ==
  LET present == {k \in Keys : height[k] > 0} IN
  /\ ForEach = present /\ len = Cardinality(present)
  /\ \A k \in Keys :
       /\ LowerBound(k) = Least({j \in present : j >= k}) /\ FuncLowerBound(k) = LowerBound(k)
       /\ UpperBound(k) = Least({j \in present : j > k}) /\ FuncUpperBound(k) = UpperBound(k)
       /\ (FuncFindNode(k) # Nil) = Has(k)
       /\ \A l \in k .. MaxKey : FindRange(k, l) = present \cap (k .. l)

\* The comment on FindRange (skiplist.go:141): "FindRange returns an iterator in range
\* [first, last) (last is not includeed)".  The code ends the range at upperBound(last),
\* which is after last.
RangeExcludesLast ==
  \A k \in Keys : \A l \in k .. MaxKey : l \notin FindRange(k, l)
=============================================================================
