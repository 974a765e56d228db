------------------------------ MODULE MCLevelDB ------------------------------
(* LevelDB with small tables: a memtable is full with one entry, levels    *)
(* are compacted at two.                                                   *)
EXTENDS LevelDB

Put(k) == [key |-> k, del |-> FALSE]
Del(k) == [key |-> k, del |-> TRUE]

OnePut == { <<Put(1)>> }
PutsOrDel == { <<Put(1), Put(3)>>, <<Del(1)>> }
=============================================================================
