----------------------------- MODULE OrderedMap -----------------------------
(* What SkipList promises: a map from keys to values.                      *)
CONSTANTS MapKeys, MapValues, Absent
VARIABLE map

MapInit == map = [k \in MapKeys |-> Absent]
Put(k, v) == map' = [map EXCEPT ![k] = v]
Drop(k) == map[k] # Absent /\ map' = [map EXCEPT ![k] = Absent]
Empty == map' = [k \in MapKeys |-> Absent]

MapNext == \/ Empty
           \/ \E k \in MapKeys : Drop(k) \/ \E v \in MapValues : Put(k, v)
MapSpec == MapInit /\ [][MapNext]_map
=============================================================================
