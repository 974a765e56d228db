------------------------------- MODULE KVStore -------------------------------
(***************************************************************************)
(* What LevelDB promises its users: a map from keys to values, written by  *)
(* groups of writes that take effect as a whole, with snapshots that stay  *)
(* as they are.  A crash may lose acknowledged writes, but none of a group *)
(* that had to be synced (WriteOptions.sync), and a group that was on its  *)
(* way may turn up or not.                                                 *)
(***************************************************************************)
EXTENDS Integers, FiniteSets

CONSTANTS Keys, Readers, NoSnapshot

VARIABLES
  held,    \* the groups the map is made of: entries, and "has to last"
  loose,   \* groups that may or may not last
  frozen,  \* reader -> the groups its snapshot is made of, or NoSnapshot
  view,    \* key -> what a read returns: the seq of its value, or 0
  shown    \* reader -> the same at its snapshot

vars == <<held, loose, frozen>>

(* The map that a set of groups amounts to.                                *)
Content(gs) ==
  [k \in Keys |->
     LET es == {e \in UNION {g.ents : g \in gs} : e.key = k}
         last == CHOOSE e \in es : \A x \in es : x.seq <= e.seq
     IN IF es = {} \/ last.del THEN 0 ELSE last.seq]

(* What is seen of it at any time.                                         *)
Observed ==
  /\ view = Content(held)
  /\ \A r \in Readers : frozen[r] # NoSnapshot => shown[r] = Content(frozen[r])

Init ==
  /\ held = {} /\ loose = {}
  /\ frozen = [r \in Readers |-> NoSnapshot]

Begin(g) == loose' = loose \cup {g} /\ UNCHANGED <<held, frozen>>

Commit(g) ==
  /\ g \in loose
  /\ loose' = loose \ {g}
  /\ held' = held \cup {g}
  /\ UNCHANGED frozen

TakeSnapshot(r) ==
  /\ frozen[r] = NoSnapshot
  /\ frozen' = [frozen EXCEPT ![r] = held]
  /\ UNCHANGED <<held, loose>>

ReleaseSnapshot(r) ==
  /\ frozen' = [frozen EXCEPT ![r] = NoSnapshot]
  /\ UNCHANGED <<held, loose>>

Crash ==
  /\ held' \subseteq held \cup loose
  /\ \A g \in held : g.last => g \in held'
  /\ loose' = {}
  /\ frozen' = [r \in Readers |-> NoSnapshot]

(* What the implementation writes is for it to choose.                     *)
Next ==
  \/ \E g \in loose' \ loose : Begin(g)
  \/ \E g \in loose : Commit(g)
  \/ \E r \in Readers : TakeSnapshot(r) \/ ReleaseSnapshot(r)
  \/ Crash

Spec == Init /\ [][Next]_vars /\ []Observed
=============================================================================
