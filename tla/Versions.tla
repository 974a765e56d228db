------------------------------ MODULE Versions ------------------------------
(***************************************************************************)
(* The pure part of LevelDB's version_set.cc: what a version - the table   *)
(* files of each level - finds for a key, where a flushed memtable may go, *)
(* which files a compaction takes together, and what it keeps of them.     *)
(*                                                                         *)
(* A table is a set of entries [key, seq, del]; keys are numbers, an entry *)
(* stands for its value.  A version maps each level to the numbers of its  *)
(* files; "tab" maps the numbers to the tables.  Sizes count entries.      *)
(***************************************************************************)
EXTENDS Integers, Sequences, FiniteSets, SequencesExt, FiniteSetsExt

CONSTANTS
  NumLevels,     \* config::kNumLevels
  MaxMemLevel,   \* config::kMaxMemCompactLevel
  L0Trigger,     \* config::kL0_CompactionTrigger
  LevelSize,     \* size of level 1 at which it is compacted
  TableSize,     \* size of a compaction's output file
  GrandLimit,    \* MaxGrandParentOverlapBytes
  ExpandLimit    \* ExpandedCompactionByteSizeLimit

ASSUME LevelsAssumption ==
  NumLevels \in Nat /\ MaxMemLevel \in 0..(NumLevels - 1) /\ NumLevels > 1
ASSUME SizesAssumption ==
  {L0Trigger, LevelSize, TableSize} \subseteq Nat \ {0}
    /\ {GrandLimit, ExpandLimit} \subseteq Nat

Level == 0..(NumLevels - 1)
First == 0         \* a NULL begin: before every key
After == 1000      \* a NULL end: after every key

(* Internal keys: user keys up, sequence numbers down.                     *)
Before(a, b) == a.key < b.key \/ (a.key = b.key /\ a.seq > b.seq)
Smallest(t) == CHOOSE a \in t : \A b \in t : ~Before(b, a)
Largest(t) == CHOOSE a \in t : \A b \in t : ~Before(a, b)

(* A set in order, each element at the place its rank gives it.            *)
InOrder(S, Less(_, _)) ==
  [i \in 1..Cardinality(S) |->
     CHOOSE x \in S : Cardinality({y \in S : Less(y, x)}) = i - 1]

Size(tab, fs) == FoldSet(LAMBDA f, n : n + Cardinality(tab[f]), 0, fs)
Precedes(tab, f, g) ==
  LET a == Smallest(tab[f])
      b == Smallest(tab[g])
  IN Before(a, b) \/ (~Before(b, a) /\ f < g)
Sorted(tab, fs) == InOrder(fs, LAMBDA f, g : Precedes(tab, f, g))
-----------------------------------------------------------------------------
(* What a set of entries holds for a key at a sequence number.             *)
Versions(t, k, n) == {e \in t : e.key = k /\ e.seq <= n}
Newest(es) == CHOOSE e \in es : \A x \in es : x.seq <= e.seq

(* Version::Get: level 0 newest file first, then the one file of each      *)
(* deeper level that may hold the key.                                     *)
Covers(t, k) == Smallest(t).key <= k /\ k <= Largest(t).key

NewestFirst(f, g) == f > g

FindFile(tab, fs, k, n) ==
  LET above == {f \in fs : ~Before(Largest(tab[f]), [key |-> k, seq |-> n])}
  IN IF above = {} THEN {} ELSE {Head(Sorted(tab, above))}

Searched(tab, v, k, n) ==
  InOrder({f \in v[0] : Covers(tab[f], k)}, NewestFirst)
    \o FlattenSeq([l \in 1..(NumLevels - 1) |->
          SetToSeq({f \in FindFile(tab, v[l], k, n) : Smallest(tab[f]).key <= k})])

(* The answer comes from the first place that holds the key at all; 0      *)
(* stands for "not found".                                                 *)
Answer(places, k, n) ==
  LET hits == SelectSeq(places, LAMBDA t : Versions(t, k, n) # {})
      e == Newest(Versions(Head(hits), k, n))
  IN IF hits = <<>> \/ e.del THEN 0 ELSE e.seq

InTables(tab, v, k, n) ==
  LET fs == Searched(tab, v, k, n) IN [i \in DOMAIN fs |-> tab[fs[i]]]
-----------------------------------------------------------------------------
(* The files of a level that hold keys of a range.                         *)
Overlapping(tab, v, l, lo, hi) ==
  {f \in v[l] : Largest(tab[f]).key >= lo /\ Smallest(tab[f]).key <= hi}

(* GetOverlappingInputs: on level 0, where files overlap each other, the   *)
(* range grows with the files it has met, unless its end is open.          *)
Growth(tab, v, l, lo, hi) ==
  LET grown[n \in 0..Cardinality(v[l])] ==
        IF n = 0 \/ l > 0 THEN <<lo, hi>>
        ELSE LET r == grown[n - 1]
                 fs == Overlapping(tab, v, l, r[1], r[2])
             IN << IF lo = First THEN First
                   ELSE Min({r[1]} \cup {Smallest(tab[f]).key : f \in fs}),
                   IF hi = After THEN After
                   ELSE Max({r[2]} \cup {Largest(tab[f]).key : f \in fs}) >>
  IN grown[Cardinality(v[l])]

Inputs(tab, v, l, lo, hi) ==
  LET r == Growth(tab, v, l, lo, hi) IN Overlapping(tab, v, l, r[1], r[2])

Lo(tab, fs) == Min({Smallest(tab[f]).key : f \in fs})
Hi(tab, fs) == Max({Largest(tab[f]).key : f \in fs})
Around(tab, v, l, fs) == Inputs(tab, v, l, Lo(tab, fs), Hi(tab, fs))

(* PickLevelForMemTableOutput: as deep as nothing is in the way.  One      *)
(* mutant looks only at the level it goes to, the other only at level 0.   *)
Free(tab, v, l, lo, hi) ==
  /\ Overlapping(tab, v, l, lo, hi) = {}
  /\ l + 1 < NumLevels => Size(tab, Overlapping(tab, v, l + 1, lo, hi)) <= GrandLimit

PickAnyLevel(tab, v, lo, hi) ==
  Max({0} \cup {l \in 1..MaxMemLevel : Free(tab, v, l, lo, hi)})
PickLevel(tab, v, lo, hi) ==
  IF Overlapping(tab, v, 0, lo, hi) # {} THEN 0
  ELSE Max({0} \cup {l \in 1..MaxMemLevel : \A m \in 1..l : Free(tab, v, m, lo, hi)})
-----------------------------------------------------------------------------
(* MaxBytesForLevel: the size at which a level is compacted.               *)
MaxBytes[l \in Level] == IF l <= 1 THEN LevelSize ELSE 10 * MaxBytes[l - 1]

(* Finalize: the level that most exceeds its size, as a fraction.          *)
Score(tab, v, l) ==
  IF l = 0 THEN <<Cardinality(v[0]), L0Trigger>>
  ELSE <<Size(tab, v[l]), MaxBytes[l]>>
Exceeds(a, b) == a[1] * b[2] > b[1] * a[2]

Fullest(tab, v, l) ==
  \A m \in 0..(NumLevels - 2) \ {l} :
    IF m < l THEN Exceeds(Score(tab, v, l), Score(tab, v, m))
    ELSE ~Exceeds(Score(tab, v, m), Score(tab, v, l))

TooBig(tab, v) ==
  \E l \in 0..(NumLevels - 2) :
    LET s == Score(tab, v, l) IN s[1] >= s[2]

(* The first file behind the compaction pointer, or the first of all.      *)
NextFile(tab, fs, pointer) ==
  LET behind == {f \in fs : pointer = <<>> \/ Before(pointer[1], Largest(tab[f]))}
      from == IF behind = {} THEN fs ELSE behind
  IN {f \in from : \A g \in from \ {f} : Precedes(tab, f, g)}

(* SetupOtherInputs: the files of the next level that overlap, and more of *)
(* this level if that takes no more of the next.                           *)
Compaction(tab, v, l, in0) ==
  LET in1  == Around(tab, v, l + 1, in0)
      exp0 == Around(tab, v, l, in0 \cup in1)
      grow == /\ in1 # {} /\ Cardinality(exp0) > Cardinality(in0)
              /\ Size(tab, in1) + Size(tab, exp0) < ExpandLimit
              /\ Cardinality(Around(tab, v, l + 1, exp0)) = Cardinality(in1)
      take == IF grow THEN <<exp0, Around(tab, v, l + 1, exp0)>> ELSE <<in0, in1>>
  IN [level |-> l, in0 |-> take[1], in1 |-> take[2],
      grand |-> IF l + 2 < NumLevels THEN Around(tab, v, l + 2, take[1] \cup take[2])
                ELSE {}]

(* PickCompaction.  A file of level 0 takes with it all it overlaps.       *)
Picked(tab, v, l, f) ==
  Compaction(tab, v, l, IF l = 0 THEN Around(tab, v, 0, {f}) ELSE {f})

(* VersionSet::CompactRange: below level 0 no more than one file's size.   *)
Ranged(tab, v, l, lo) ==
  LET fs == Sorted(tab, Inputs(tab, v, l, lo, After))
      enough == {i \in DOMAIN fs : Size(tab, {fs[j] : j \in 1..i}) >= TableSize}
      last == IF l = 0 \/ enough = {} THEN Len(fs) ELSE Min(enough)
  IN Compaction(tab, v, l, {fs[j] : j \in 1..last})

IsTrivialMove(tab, c) ==
  Cardinality(c.in0) = 1 /\ c.in1 = {} /\ Size(tab, c.grand) <= GrandLimit
-----------------------------------------------------------------------------
(* DoCompactionWork: the entries a compaction drops - those hidden from    *)
(* every snapshot, and the deletions that have nothing left to hide.       *)
IsBase(tab, v, l, k) ==
  \A m \in (l + 2)..(NumLevels - 1) : \A f \in v[m] : ~Covers(tab[f], k)

Hidden(es, e, oldest) ==
  \E x \in es : x.key = e.key /\ x.seq > e.seq /\ x.seq <= oldest

Kept(tab, v, c, oldest) ==
  LET es == UNION {tab[f] : f \in c.in0 \cup c.in1}
  IN {e \in es : ~Hidden(es, e, oldest)
                   /\ ~(e.del /\ e.seq <= oldest /\ IsBase(tab, v, c.level, e.key))}

(* ShouldStopBefore: grandparents that end between two keys of the input.  *)
Passed(tab, c, a, b) ==
  {f \in c.grand : Before(Largest(tab[f]), b) /\ ~Before(Largest(tab[f]), a)}

(* The output files, in order: a file ends when it is full, or before a    *)
(* key where the compaction has passed too many grandparents.              *)
Outputs(tab, v, c, oldest) ==
  LET keep == Kept(tab, v, c, oldest)
      Work(st, e) ==
        LET over == IF st.prev = <<>> THEN 0
                    ELSE st.over + Size(tab, Passed(tab, c, st.prev[1], e))
            stop == over > GrandLimit
            open == st.open /\ ~stop
            outs == IF e \notin keep THEN st.outs
                    ELSE IF open THEN [st.outs EXCEPT ![Len(st.outs)] = @ \cup {e}]
                    ELSE Append(st.outs, {e})
        IN [outs |-> outs, prev |-> <<e>>, over |-> IF stop THEN 0 ELSE over,
            open |-> (open \/ e \in keep) /\ Cardinality(Last(outs)) < TableSize]
      start == [outs |-> <<>>, prev |-> <<>>, over |-> 0, open |-> FALSE]
  IN FoldLeft(Work, start,
              InOrder(UNION {tab[f] : f \in c.in0 \cup c.in1}, Before)).outs
=============================================================================
