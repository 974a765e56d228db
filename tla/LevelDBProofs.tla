--------------------------- MODULE LevelDBProofs ---------------------------
(***************************************************************************)
(* Promises of the database that hold however many files, levels, readers, *)
(* crashes and failures there are: no file that is still needed is         *)
(* removed, nobody waits for a background thread that is not on its way,   *)
(* no table in use is ever written again, no file of the last level is     *)
(* found worn out, and every variable keeps its type.  The first two       *)
(* follow from the inductive invariant LevelInv; the third needs           *)
(* NumberInv, what is known of the numbers given out, on top of it; the    *)
(* last two need TypeInv, what is known of tables, logs and the queue.     *)
(***************************************************************************)
EXTENDS LevelDB, FiniteSetTheorems, SequenceTheorems, WellFoundedInduction, TLAPS

(* The fields that records have.                                           *)
Formed ==
  /\ {"torn", "files", "next"} \subseteq DOMAIN manifest
  /\ DOMAIN rd = Readers /\ scheduled \in BOOLEAN /\ bgError \in BOOLEAN
  /\ \A r \in Readers : rd[r] # NoRead => "ver" \in DOMAIN rd[r]
  /\ comp # NoComp => {"ver", "made"} \subseteq DOMAIN comp
  /\ edit # NoEdit => /\ {"kind", "written", "del", "add", "next"} \subseteq DOMAIN edit
                      /\ edit.kind \in {"flush", "move", "compact", "open"}

(* File numbers go up: the table a memtable is flushed to is none of the   *)
(* outputs of the compaction that waits for the flush.                     *)
Numbered ==
  /\ nextFile \in Nat /\ manifest.next \in Nat
  /\ edit # NoEdit => edit.next \in Nat
  /\ comp # NoComp =>
       /\ \A f \in comp.made : f \in Nat /\ f < nextFile
       /\ flush # 0 => flush \notin comp.made

(* The logs are numbered, and sequences of records.                        *)
Logged ==
  /\ \E b \in Nat : DOMAIN logs \subseteq 0..b
  /\ \A n \in DOMAIN logs :
       /\ {"recs", "synced"} \subseteq DOMAIN logs[n]
       /\ logs[n].synced \in Nat
       /\ \E S : logs[n].recs \in Seq(S)

(* The files somebody will look for are on the disk.                       *)
Present ==
  /\ Files(current) \subseteq DOMAIN tables
  /\ Files(manifest.files) \subseteq DOMAIN tables
  /\ \A r \in Readers : rd[r] # NoRead => Files(rd[r].ver) \subseteq DOMAIN tables
  /\ comp # NoComp => /\ Files(comp.ver) \subseteq DOMAIN tables
                      /\ comp.made \subseteq DOMAIN tables
                      /\ comp.made \subseteq pending
  /\ edit # NoEdit => Files(edit.add) \subseteq DOMAIN tables

(* As long as nothing has failed the manifest adds up to the current       *)
(* version, or to the one that is about to be installed.                   *)
InStep ==
  up # "down" /\ ~bgError =>
    /\ edit # NoEdit /\ edit.written => manifest.files = Apply(current, edit)
    /\ ~(edit # NoEdit /\ edit.written) => manifest.files = current
    /\ manifest.torn => edit.kind = "open" /\ ~edit.written

(* Before DB::Open is over nobody reads, and the background thread sleeps. *)
Ended ==
  /\ up # "open" =>
       /\ \A r \in Readers : rd[r] = NoRead
       /\ range = NoRange /\ ~scheduled /\ comp = NoComp /\ flush = 0
       /\ edit = NoEdit \/ edit.kind = "open"
  /\ edit.kind = "open" => up = "opening"
  /\ up = "down" => edit = NoEdit

(* The background thread is on its way when there is work for it, and      *)
(* while it works.                                                         *)
ToDo == imm # NoMem \/ Ranging(range) \/ TooBig(tables, current) \/ seek # 0
AtWork == comp # NoComp \/ flush # 0 \/ edit # NoEdit
Busy ==
  /\ flush # 0 => edit = NoEdit
  /\ edit.kind = "move" => comp = NoComp
  /\ up = "open" /\ ~bgError /\ (ToDo \/ AtWork) => scheduled

LevelInv == Formed /\ Numbered /\ Logged /\ Present /\ InStep /\ Ended /\ Busy
-----------------------------------------------------------------------------
(* Files of versions.                                                      *)
LEMMA FilesOf ==
  /\ Files(NoFiles) = {}
  /\ \A l, fs : Files(At(l, fs)) \subseteq fs
  /\ \A v, e : Files(Apply(v, e)) \subseteq Files(v) \cup Files(e.add)
  <1>1. Files(NoFiles) = {}
    BY DEF Files, NoFiles
  <1>2. ASSUME NEW l, NEW fs
        PROVE  Files(At(l, fs)) \subseteq fs
    BY DEF Files, At, NoFiles
  <1>3. ASSUME NEW v, NEW e
        PROVE  Files(Apply(v, e)) \subseteq Files(v) \cup Files(e.add)
    BY DEF Files, Apply
  <1> QED
    BY <1>1, <1>2, <1>3

(* What is live: the files being written, and those of every version that  *)
(* somebody uses.                                                          *)
LEMMA LiveFiles ==
  ASSUME NEW p, NEW v, NEW c
  PROVE  /\ p \subseteq Live(p, v, c) /\ Files(v) \subseteq Live(p, v, c)
         /\ \A r \in Readers : rd[r] # NoRead => Files(rd[r].ver) \subseteq Live(p, v, c)
         /\ c # NoComp => Files(c.ver) \subseteq Live(p, v, c)
  BY DEF Live, LiveVersions

LEMMA OnlyThese ==
  ASSUME NEW p, NEW v, NEW c, NEW fs, Files(v) \subseteq fs,
         \A r \in Readers : rd[r] # NoRead => Files(rd[r].ver) \subseteq fs,
         c # NoComp => Files(c.ver) \subseteq fs
  PROVE  LiveVersions(p, v, c) \subseteq fs
  BY DEF LiveVersions

(* DeleteObsoleteFiles keeps what is live.                                 *)
LEMMA LiveIsKept ==
  ASSUME DeleteObsoleteFiles, NEW fs, fs \subseteq DOMAIN tables,
         ~bgError' => fs \subseteq Live(pending', current', comp')
  PROVE  fs \subseteq DOMAIN tables'
  BY DEF DeleteObsoleteFiles

(* ... and the logs it keeps are as they were.                             *)
LEMMA LogsOfDelete == Logged /\ DeleteObsoleteFiles => Logged'
  <1> SUFFICES ASSUME Logged, DeleteObsoleteFiles
               PROVE  Logged'
    OBVIOUS
  <1>1. DOMAIN logs' \subseteq DOMAIN logs
    BY DEF DeleteObsoleteFiles
  <1>2. \A n \in DOMAIN logs' : logs'[n] = logs[n]
    BY DEF DeleteObsoleteFiles
  <1> QED
    BY <1>1, <1>2 DEF Logged

(* A compaction takes files of its level from the version it works on.     *)
LEMMA PickedFiles ==
  ASSUME NEW tab, NEW v, NEW l, NEW f \in v[l]
  PROVE  Picked(tab, v, l, f).level = l /\ Picked(tab, v, l, f).in0 \subseteq v[l]
  <1>1. \A fs : Around(tab, v, l, fs) \subseteq v[l]
    BY DEF Around, Inputs, Overlapping
  <1>2. \A fs : fs \subseteq v[l] =>
          /\ Compaction(tab, v, l, fs).level = l
          /\ Compaction(tab, v, l, fs).in0 \subseteq v[l]
    BY <1>1 DEF Compaction
  <1> QED
    BY <1>1, <1>2 DEF Picked
-----------------------------------------------------------------------------
(* Every set of numbers has a least one, and a greatest one if it has a    *)
(* bound.                                                                  *)
LEMMA LeastNumber ==
  ASSUME NEW T \in SUBSET Nat, T # {}
  PROVE  \E n \in T : \A m \in T : n <= m
  <1> DEFINE R == OpToRel(<, Nat)
  <1>1. \A m, n \in Nat : m < n => <<m, n>> \in R
    BY DEF OpToRel
  <1>2. IsWellFoundedOn(R, Nat)
    BY NatLessThanWellFounded
  <1> HIDE DEF R
  <1>3. PICK n \in T : \A m \in T : ~(<<m, n>> \in R)
    BY <1>2, WFMin
  <1>4. ASSUME NEW m \in T
        PROVE  n <= m
    <2>1. m \in Nat /\ n \in Nat
      OBVIOUS
    <2>2. ~(m < n)
      BY <1>1, <1>3, <2>1
    <2> QED
      BY <2>1, <2>2
  <1> QED
    BY <1>4

LEMMA MaxOfNumbers ==
  ASSUME NEW b \in Nat, NEW T \in SUBSET (0..b), T # {}
  PROVE  Max(T) \in Nat /\ \A x \in T : x <= Max(T)
  <1> DEFINE U == {u \in 0..b : \A x \in T : x <= u}
  <1>1. U \in SUBSET Nat /\ b \in U
    OBVIOUS
  <1>2. PICK u \in U : \A v \in U : u <= v
    <2> HIDE DEF U
    <2> QED
      BY <1>1, LeastNumber
  <1>3. u \in 0..b /\ \A x \in T : x <= u
    OBVIOUS
  <1>4. u \in T
    <2> SUFFICES ASSUME u \notin T
                 PROVE  FALSE
      OBVIOUS
    <2>1. \A x \in T : x \in 0..b /\ x < u
      BY <1>3
    <2>2. u - 1 \in 0..b /\ \A x \in T : x <= u - 1
      <3>1. PICK x \in T : TRUE
        OBVIOUS
      <3>2. u > 0
        BY <1>3, <2>1, <3>1
      <3> QED
        BY <1>3, <2>1, <3>2
    <2>3. u - 1 \in U
      BY <2>2
    <2>4. u <= u - 1
      <3> HIDE DEF U
      <3> QED
        BY <1>2, <2>3
    <2> QED
      BY <1>3, <2>4
  <1>5. \E x \in T : \A y \in T : x >= y
    BY <1>3, <1>4
  <1>6. Max(T) \in T /\ \A y \in T : Max(T) >= y
    BY <1>5 DEF Max
  <1>7. \A x \in T : x \in Nat
    OBVIOUS
  <1> HIDE DEF U
  <1> QED
    BY <1>6, <1>7

(* What is computed from one number to the next exists.                    *)
Computed(g, n, S, z, F) ==
  /\ g \in [0..n -> S]
  /\ g[0] = z
  /\ \A i \in 1..n : g[i] = F[<<g[i - 1], i>>]

LEMMA Iterated ==
  ASSUME NEW n \in Nat, NEW S, NEW z \in S, NEW F \in [S \X (1..n) -> S]
  PROVE  \E g : Computed(g, n, S, z, F)
  <1> USE DEF Computed
  <1> DEFINE Upto(m, g) == Computed(g, m, S, z, F)
             T == {m \in 0..n : \A g \in [0..m -> S] : ~Upto(m, g)}
  <1>1. T = {}
    <2> SUFFICES ASSUME T # {}
                 PROVE  FALSE
      OBVIOUS
    <2>1. T \in SUBSET Nat
      OBVIOUS
    <2>2. PICK m \in T : \A k \in T : m <= k
      <3> HIDE DEF T
      <3> QED
        BY <2>1, LeastNumber
    <2>3. m \in 0..n /\ \A g \in [0..m -> S] : ~Upto(m, g)
      OBVIOUS
    <2>4. CASE m = 0
      <3> DEFINE h == [i \in 0..m |-> z]
      <3>1. Upto(m, h)
        BY <2>4
      <3> QED
        BY <2>3, <3>1
    <2>5. CASE m # 0
      <3>1. m - 1 \in 0..n /\ ~(m <= m - 1)
        BY <2>3, <2>5
      <3>2. m - 1 \notin T
        <4> HIDE DEF T
        <4> QED
          BY <2>2, <3>1
      <3>3. PICK g \in [0..(m - 1) -> S] : Upto(m - 1, g)
        BY <3>1, <3>2
      <3> DEFINE h == [i \in 0..m |-> IF i = m THEN F[<<g[m - 1], m>>] ELSE g[i]]
      <3>4. g[m - 1] \in S /\ <<g[m - 1], m>> \in S \X (1..n)
        BY <2>3, <2>5, <3>3
      <3>5. \A i \in 0..m : i # m => i \in 0..(m - 1) /\ h[i] = g[i]
        BY <2>3
      <3>6. h \in [0..m -> S]
        BY <3>4, <3>5
      <3>7. h[0] = z
        BY <2>3, <2>5, <3>3
      <3>8. ASSUME NEW i \in 1..m
            PROVE  h[i] = F[<<h[i - 1], i>>]
        <4>1. i - 1 \in 0..(m - 1) /\ i - 1 # m /\ i - 1 \in 0..m
          BY <2>3
        <4>2. h[i - 1] = g[i - 1]
          BY <4>1
        <4>3. CASE i = m
          <5>1. m \in 0..m
            BY <2>3
          <5>2. h[m] = F[<<g[m - 1], m>>]
            BY <5>1
          <5> HIDE DEF h
          <5> QED
            BY <4>2, <4>3, <5>2
        <4>4. CASE i # m
          <5>1. i \in 1..(m - 1) /\ i \in 0..m
            BY <2>3, <4>4
          <5>2. g[i] = F[<<g[i - 1], i>>]
            BY <3>3, <5>1
          <5>3. h[i] = g[i]
            BY <4>4, <5>1
          <5> QED
            BY <4>2, <5>2, <5>3
        <4> QED
          BY <4>3, <4>4
      <3>9. Upto(m, h)
        <4> HIDE DEF h
        <4> QED
          BY <3>6, <3>7, <3>8
      <3> QED
        BY <2>3, <3>6, <3>9
    <2> QED
      BY <2>4, <2>5
  <1>2. n \in 0..n
    OBVIOUS
  <1> QED
    BY <1>1, <1>2

(* RecoverLogFile makes a sequence of memtables of a log: of its records,  *)
(* several of them together in one memtable.                               *)
LEMMA MemtablesOfLog ==
  ASSUME NEW R, \A a, b \in R : a \cup b \in R, NEW recs \in Seq(R)
  PROVE  Memtables(recs) \in Seq(R)
  <1> DEFINE n == Len(recs)
             S == Seq(R)
             Step(ms, r) == IF ms = <<>> \/ Cardinality(Last(ms)) > BufferSize
                            THEN Append(ms, r) ELSE [ms EXCEPT ![Len(ms)] = @ \cup r]
             Body(m) == [i \in 0..n |-> IF i = 0 THEN <<>> ELSE Step(m[i - 1], recs[i])]
             F == [x \in S \X (1..n) |-> Step(x[1], recs[x[2]])]
             mems == CHOOSE m : m = Body(m)
  <1>1. n \in Nat /\ <<>> \in S /\ \A i \in 1..n : recs[i] \in R
    OBVIOUS
  <1>2. ASSUME NEW ms \in S, NEW i \in 1..n
        PROVE  Step(ms, recs[i]) \in S
    <2>1. Append(ms, recs[i]) \in S
      BY <1>1
    <2>2. CASE ms # <<>>
      <3>1. Len(ms) \in 1..Len(ms) /\ ms[Len(ms)] \in R
        BY <2>2
      <3>2. ms[Len(ms)] \cup recs[i] \in R
        BY <1>1, <3>1
      <3>3. [ms EXCEPT ![Len(ms)] = @ \cup recs[i]] \in S
        BY <3>1, <3>2, ExceptSeq
      <3> QED
        BY <2>1, <3>3
    <2> QED
      BY <2>1, <2>2
  <1>3. F \in [S \X (1..n) -> S]
    BY <1>2
  <1>4. \A ms \in S, i \in 1..n : F[<<ms, i>>] = Step(ms, recs[i])
    <2> HIDE DEF S, Step
    <2> QED
      OBVIOUS
  <1> HIDE DEF S, Step, F
  <1>5. PICK g \in [0..n -> S] :
          g[0] = <<>> /\ \A i \in 1..n : g[i] = F[<<g[i - 1], i>>]
    <2> DEFINE z == <<>>
    <2>1. z \in S /\ n \in Nat
      BY <1>1
    <2> HIDE DEF n, z
    <2>2. \E g : Computed(g, n, S, z, F)
      BY <1>3, <2>1, Iterated
    <2> QED
      BY <2>2 DEF z, Computed
  <1>6. g = Body(g)
    <2> SUFFICES ASSUME NEW i \in 0..n
                 PROVE  g[i] = Body(g)[i]
      BY <1>1
    <2>1. CASE i = 0
      BY <1>5, <2>1
    <2>2. CASE i # 0
      <3>1. i \in 1..n /\ i - 1 \in 0..n
        BY <1>1, <2>2
      <3>2. g[i - 1] \in S
        BY <1>5, <3>1
      <3>3. g[i] = Step(g[i - 1], recs[i])
        BY <1>4, <1>5, <3>1, <3>2
      <3> QED
        BY <2>2, <3>3
    <2> QED
      BY <2>1, <2>2
  <1>7. mems = Body(mems)
    <2> HIDE DEF Body
    <2> QED
      BY <1>6
  <1> HIDE DEF mems
  <1> DEFINE T == {i \in 0..n : mems[i] \notin S}
  <1>8. T = {}
    <2> SUFFICES ASSUME T # {}
                 PROVE  FALSE
      OBVIOUS
    <2>1. T \in SUBSET Nat
      BY <1>1
    <2>2. PICK i \in T : \A m \in T : i <= m
      <3> HIDE DEF T
      <3> QED
        BY <2>1, LeastNumber
    <2>3. i \in 0..n /\ mems[i] \notin S
      OBVIOUS
    <2>4. mems[i] = IF i = 0 THEN <<>> ELSE Step(mems[i - 1], recs[i])
      BY <1>7, <2>3
    <2>5. i # 0 /\ i \in 1..n /\ i - 1 \in 0..n /\ ~(i <= i - 1)
      BY <1>1, <2>3, <2>4
    <2>6. mems[i - 1] \in S
      BY <2>2, <2>5
    <2> QED
      BY <1>2, <2>3, <2>4, <2>5, <2>6
  <1>9. mems[n] \in S
    BY <1>1, <1>8
  <1>10. Memtables(recs) = mems[n]
    BY DEF Memtables, mems, Step
  <1> QED
    BY <1>9, <1>10 DEF S

(* DB::Open's recovery makes tables of memtables, numbers them behind the  *)
(* number that the manifest has for the next file, and ends with one for   *)
(* the file after them.                                                    *)
LEMMA RecoveredNumber ==
  ASSUME Logged, manifest.next \in Nat
  PROVE  /\ Recovered.next \in Nat /\ manifest.next < Recovered.next
         /\ IsFiniteSet(DOMAIN Recovered.tabs)
         /\ \A f \in DOMAIN Recovered.tabs :
              /\ f \in Nat /\ manifest.next < f /\ f < Recovered.next
              /\ \E n \in DOMAIN logs : \E j \in 1..Len(Memtables(logs[n].recs)) :
                   Recovered.tabs[f] = Memtables(logs[n].recs)[j]
  <1> DEFINE top == Max({0} \cup DOMAIN logs)
             Ms(i) == Memtables(logs[i].recs)
             V == UNION {{Ms(n)[j] : j \in 1..Len(Ms(n))} : n \in DOMAIN logs}
             Numbers == {D \in SUBSET Nat : IsFiniteSet(D)}
             Tabs == UNION {[D -> V] : D \in Numbers}
             S == {st \in [tabs : Tabs, next : Nat] :
                     /\ manifest.next < st.next
                     /\ \A f \in DOMAIN st.tabs : manifest.next < f /\ f < st.next}
             z == [tabs |-> [f \in {} |-> {}], next |-> manifest.next + 1]
             Add(st, ms, i) ==
               [tabs |-> [f \in DOMAIN st.tabs \cup (st.next..(st.next + Len(ms) - 1)) |->
                            IF f < st.next THEN st.tabs[f] ELSE ms[f - st.next + 1]],
                next |-> Max({st.next + Len(ms), i + 1})]
             Step(st, i) == IF i \notin Replayed(logs) THEN st ELSE Add(st, Ms(i), i)
             Body(m) == [i \in 0..top |-> IF i = 0 THEN z ELSE Step(m[i - 1], i)]
             F == [x \in S \X (1..top) |-> Step(x[1], x[2])]
             upTo == CHOOSE m : m = Body(m)
  <1>1. top \in Nat
    <2>1. PICK b \in Nat : DOMAIN logs \subseteq 0..b
      BY DEF Logged
    <2>2. {0} \cup DOMAIN logs \in SUBSET (0..b) /\ {0} \cup DOMAIN logs # {}
      BY <2>1
    <2> QED
      BY <2>2, MaxOfNumbers
  <1>2. z \in S
    <2>1. [f \in {} |-> {}] \in [{} -> V] /\ DOMAIN [f \in {} |-> {}] = {}
      OBVIOUS
    <2>2. [f \in {} |-> {}] \in Tabs
      BY <2>1, FS_EmptySet
    <2> HIDE DEF Tabs
    <2> QED
      BY <2>1, <2>2
  <1>3. ASSUME NEW st \in S, NEW i \in 1..top
        PROVE  Step(st, i) \in S
    <2> SUFFICES ASSUME i \in Replayed(logs)
                 PROVE  Add(st, Ms(i), i) \in S
      OBVIOUS
    <2> DEFINE ms == Ms(i)
               new == DOMAIN st.tabs \cup (st.next..(st.next + Len(ms) - 1))
               tabs == [f \in new |->
                          IF f < st.next THEN st.tabs[f] ELSE ms[f - st.next + 1]]
               next == Max({st.next + Len(ms), i + 1})
    <2>1. i \in DOMAIN logs
      BY DEF Replayed
    <2>2. Len(ms) \in Nat
      <3>1. PICK R : logs[i].recs \in Seq(R)
        BY <2>1 DEF Logged
      <3> DEFINE Q == SUBSET UNION R
      <3>2. R \subseteq Q /\ \A a, b \in Q : a \cup b \in Q
        OBVIOUS
      <3> HIDE DEF Q
      <3>3. logs[i].recs \in Seq(Q)
        BY <3>1, <3>2, SeqMonotonic
      <3>4. Memtables(logs[i].recs) \in Seq(Q)
        BY <3>2, <3>3, MemtablesOfLog
      <3> QED
        BY <3>4
    <2>3. \A j \in 1..Len(ms) : ms[j] \in V
      <3> HIDE DEF Ms, S, Tabs, z
      <3> QED
        BY <2>1
    <2>4. PICK D \in Numbers : st.tabs \in [D -> V]
      <3> HIDE DEF V, Numbers
      <3> QED
        OBVIOUS
    <2>5. /\ st.next \in Nat /\ manifest.next < st.next
          /\ \A f \in DOMAIN st.tabs : manifest.next < f /\ f < st.next
      <3> HIDE DEF Tabs
      <3> QED
        OBVIOUS
    <2> HIDE DEF ms, V
    <2>6. new \in Numbers
      <3>1. DOMAIN st.tabs = D /\ D \subseteq Nat /\ IsFiniteSet(D)
        BY <2>4
      <3>2. st.next..(st.next + Len(ms) - 1) \subseteq Nat
        BY <2>2, <2>5
      <3>3. IsFiniteSet(st.next..(st.next + Len(ms) - 1))
        BY <2>2, <2>5, FS_Interval
      <3> QED
        BY <3>1, <3>2, <3>3, FS_Union
    <2>7. ASSUME NEW f \in new
          PROVE  (IF f < st.next THEN st.tabs[f] ELSE ms[f - st.next + 1]) \in V
      <3>1. CASE f < st.next
        <4>1. f \in D
          BY <2>2, <2>4, <2>5, <3>1
        <4> QED
          BY <2>4, <3>1, <4>1
      <3>2. CASE ~(f < st.next)
        <4>1. f \notin DOMAIN st.tabs
          BY <2>5, <3>2
        <4>2. f \in st.next..(st.next + Len(ms) - 1)
          BY <4>1
        <4>3. f - st.next + 1 \in 1..Len(ms)
          BY <2>2, <2>5, <4>2
        <4> QED
          BY <2>3, <3>2, <4>3
      <3> QED
        BY <3>1, <3>2
    <2>8. tabs \in [new -> V]
      BY <2>7
    <2>9. tabs \in Tabs
      <3> HIDE DEF tabs, new, Numbers
      <3> QED
        BY <2>6, <2>8
    <2>10. next \in Nat /\ st.next + Len(ms) <= next
      <3> DEFINE a == st.next + Len(ms)
                 c == i + 1
      <3>1. a \in Nat /\ c \in Nat /\ a + c \in Nat
        BY <2>2, <2>5
      <3> HIDE DEF a, c
      <3>2. {a, c} \in SUBSET (0..(a + c)) /\ {a, c} # {}
        BY <3>1
      <3>3. Max({a, c}) \in Nat /\ a <= Max({a, c})
        BY <3>1, <3>2, MaxOfNumbers
      <3> QED
        BY <3>3 DEF a, c
    <2> HIDE DEF next
    <2>11. /\ manifest.next < next
           /\ \A f \in new : manifest.next < f /\ f < next
      BY <2>2, <2>5, <2>10
    <2>12. Add(st, Ms(i), i) = [tabs |-> tabs, next |-> next]
      BY DEF ms, next
    <2>13. DOMAIN tabs = new
      OBVIOUS
    <2> HIDE DEF tabs, Tabs, Add, new
    <2> QED
      BY <2>9, <2>10, <2>11, <2>12, <2>13
  <1> HIDE DEF S, Step, z
  <1>4. F \in [S \X (1..top) -> S] /\ \A st \in S, i \in 1..top : F[<<st, i>>] = Step(st, i)
    <2> HIDE DEF top
    <2> QED
      BY <1>3
  <1> HIDE DEF F, top
  <1>5. PICK g : Computed(g, top, S, z, F)
    BY <1>1, <1>2, <1>4, Iterated
  <1>6. g = Body(g)
    <2>1. g \in [0..top -> S] /\ g[0] = z /\ \A i \in 1..top : g[i] = F[<<g[i - 1], i>>]
      BY <1>5 DEF Computed
    <2> SUFFICES ASSUME NEW i \in 0..top
                 PROVE  g[i] = Body(g)[i]
      BY <2>1
    <2>2. CASE i = 0
      BY <2>1, <2>2
    <2>3. CASE i # 0
      <3>1. i \in 1..top /\ i - 1 \in 0..top
        BY <1>1, <2>3
      <3>2. g[i] = Step(g[i - 1], i)
        BY <1>4, <2>1, <3>1
      <3> QED
        BY <2>3, <3>2
    <2> QED
      BY <2>2, <2>3
  <1>7. upTo = Body(upTo)
    <2> HIDE DEF Body
    <2> QED
      BY <1>6
  <1> HIDE DEF upTo
  <1> DEFINE T == {i \in 0..top : upTo[i] \notin S}
  <1>8. T = {}
    <2> SUFFICES ASSUME T # {}
                 PROVE  FALSE
      OBVIOUS
    <2>1. T \in SUBSET Nat
      BY <1>1
    <2>2. PICK i \in T : \A m \in T : i <= m
      <3> HIDE DEF T
      <3> QED
        BY <2>1, LeastNumber
    <2>3. i \in 0..top /\ upTo[i] \notin S
      OBVIOUS
    <2>4. upTo[i] = IF i = 0 THEN z ELSE Step(upTo[i - 1], i)
      BY <1>7, <2>3
    <2>5. i # 0 /\ i \in 1..top /\ i - 1 \in 0..top /\ ~(i <= i - 1)
      BY <1>1, <1>2, <2>3, <2>4
    <2>6. upTo[i - 1] \in S
      BY <2>2, <2>5
    <2> QED
      BY <1>3, <2>3, <2>4, <2>5, <2>6
  <1>9. upTo[top] \in S
    BY <1>1, <1>8
  <1>10. Recovered = upTo[top]
    BY DEF Recovered, top, upTo, z, Step
  <1>11. ASSUME NEW st \in S
         PROVE  /\ st.next \in Nat /\ manifest.next < st.next
                /\ IsFiniteSet(DOMAIN st.tabs)
                /\ \A f \in DOMAIN st.tabs :
                     f \in Nat /\ manifest.next < f /\ f < st.next /\ st.tabs[f] \in V
    <2>1. /\ st.next \in Nat /\ st.tabs \in Tabs /\ manifest.next < st.next
          /\ \A f \in DOMAIN st.tabs : manifest.next < f /\ f < st.next
      <3> HIDE DEF Tabs
      <3> QED
        BY DEF S
    <2> HIDE DEF V
    <2>2. PICK D \in Numbers : st.tabs \in [D -> V]
      <3> HIDE DEF Numbers
      <3> QED
        BY <2>1
    <2> QED
      BY <2>1, <2>2
  <1>12. \A v \in V : \E n \in DOMAIN logs : \E j \in 1..Len(Ms(n)) : v = Ms(n)[j]
    OBVIOUS
  <1> HIDE DEF V
  <1> QED
    BY <1>9, <1>10, <1>11, <1>12
-----------------------------------------------------------------------------
(* Levels without files have nothing to compact.                           *)
LEMMA MaxBytesPositive == \A l \in Level : MaxBytes[l] \in Nat \ {0}
  <1> DEFINE n == NumLevels - 1
             S == Nat \ {0}
             Body(m) == [l \in Level |-> IF l <= 1 THEN LevelSize ELSE 10 * m[l - 1]]
             F == [x \in S \X (1..n) |-> IF x[2] <= 1 THEN LevelSize ELSE 10 * x[1]]
  <1>1. n \in Nat /\ Level = 0..n /\ LevelSize \in S
    BY LevelsAssumption, SizesAssumption DEF Level
  <1>2. \A s \in S : 10 * s \in S
    OBVIOUS
  <1>3. F \in [S \X (1..n) -> S]
    BY <1>1, <1>2
  <1>4. \A s \in S, l \in 1..n : F[<<s, l>>] = IF l <= 1 THEN LevelSize ELSE 10 * s
    BY <1>1
  <1> HIDE DEF n, S, F
  <1>5. PICK g : Computed(g, n, S, LevelSize, F)
    BY <1>1, <1>3, Iterated
  <1>6. /\ g \in [0..n -> S]
        /\ g[0] = LevelSize
        /\ \A l \in 1..n : g[l] = F[<<g[l - 1], l>>]
    BY <1>5 DEF Computed
  <1>7. g = Body(g)
    <2> SUFFICES ASSUME NEW l \in 0..n
                 PROVE  g[l] = IF l <= 1 THEN LevelSize ELSE 10 * g[l - 1]
      BY <1>1, <1>6
    <2>1. CASE l = 0
      BY <1>6, <2>1
    <2>2. CASE l # 0
      <3>1. l \in 1..n /\ l - 1 \in 0..n
        BY <1>1, <2>2
      <3>2. g[l - 1] \in S /\ g[l] = F[<<g[l - 1], l>>]
        BY <1>6, <3>1
      <3>3. F[<<g[l - 1], l>>] = IF l <= 1 THEN LevelSize ELSE 10 * g[l - 1]
        BY <1>4, <3>1, <3>2
      <3> QED
        BY <3>2, <3>3
    <2> QED
      BY <2>1, <2>2
  <1>8. MaxBytes = Body(MaxBytes)
    <2>1. MaxBytes = CHOOSE m : m = Body(m)
      BY DEF MaxBytes
    <2> HIDE DEF Body
    <2> QED
      BY <1>7, <2>1
  <1> DEFINE T == {l \in 0..n : MaxBytes[l] \notin S}
  <1>9. T = {}
    <2> SUFFICES ASSUME T # {}
                 PROVE  FALSE
      OBVIOUS
    <2>1. T \in SUBSET Nat
      BY <1>1
    <2>2. PICK l \in T : \A m \in T : l <= m
      <3> HIDE DEF T
      <3> QED
        BY <2>1, LeastNumber
    <2>3. l \in 0..n /\ MaxBytes[l] \notin S
      OBVIOUS
    <2>4. MaxBytes[l] = IF l <= 1 THEN LevelSize ELSE 10 * MaxBytes[l - 1]
      BY <1>1, <1>8, <2>3
    <2>5. ~(l <= 1) /\ l - 1 \in 0..n /\ ~(l <= l - 1)
      BY <1>1, <2>3, <2>4
    <2>6. MaxBytes[l - 1] \in S
      BY <2>2, <2>5
    <2> QED
      BY <1>2, <2>3, <2>4, <2>5, <2>6
  <1> QED
    BY <1>1, <1>9 DEF S

LEMMA SizeOfNone ==
  ASSUME NEW tab
  PROVE  Size(tab, {}) = 0
  <1> DEFINE Body(m) == [s \in SUBSET {} |->
                           IF s = {} THEN 0
                           ELSE LET x == CHOOSE y \in s : TRUE
                                IN m[s \ {x}] + Cardinality(tab[x])]
             none == [s \in SUBSET {} |-> 0]
             iter == CHOOSE m : m = Body(m)
  <1>1. Size(tab, {}) = iter[{}]
    BY DEF Size, FoldSet, MapThenFoldSet
  <1>2. none = Body(none)
    BY Zenon
  <1>3. iter = Body(iter)
    <2> HIDE DEF Body, none
    <2> QED
      BY <1>2
  <1>4. Body(iter)[{}] = 0
    <2> HIDE DEF iter
    <2> QED
      BY {} \in SUBSET {}
  <1> QED
    BY <1>1, <1>3, <1>4

LEMMA NothingTooBig == ~TooBig(tables, NoFiles)
  <1> SUFFICES ASSUME NEW l \in 0..(NumLevels - 2)
               PROVE  LET s == Score(tables, NoFiles, l) IN ~(s[1] >= s[2])
    BY DEF TooBig
  <1>1. l \in Level /\ 0 \in Level /\ NoFiles[l] = {} /\ NoFiles[0] = {}
    BY LevelsAssumption DEF Level, NoFiles
  <1>2. Size(tables, NoFiles[l]) = 0 /\ Cardinality(NoFiles[0]) = 0
    BY <1>1, SizeOfNone, FS_EmptySet
  <1>3. L0Trigger \in Nat \ {0} /\ MaxBytes[l] \in Nat \ {0}
    BY <1>1, SizesAssumption, MaxBytesPositive
  <1> QED
    BY <1>2, <1>3 DEF Score
-----------------------------------------------------------------------------
LEMMA InitLevel == Init => LevelInv
  <1> SUFFICES ASSUME Init
               PROVE  LevelInv
    OBVIOUS
  <1> USE DEF Init
  <1>1. edit = NoEdit /\ edit.kind = "none"
    BY DEF NoEdit
  <1>2. Formed
    BY <1>1 DEF Formed
  <1>3. Numbered
    BY <1>1 DEF Numbered
  <1>4. Logged
    <2>1. 3 \in Nat /\ DOMAIN logs = {3} /\ DOMAIN logs \subseteq 0..3
      OBVIOUS
    <2>2. logs[3] = [recs |-> <<>>, synced |-> 0] /\ <<>> \in Seq({})
      OBVIOUS
    <2> QED
      BY <2>1, <2>2 DEF Logged
  <1>5. Present
    BY <1>1, FilesOf DEF Present
  <1>6. InStep
    BY <1>1 DEF InStep
  <1>7. Ended
    BY <1>1 DEF Ended
  <1>8. Busy
    <2>1. ~TooBig(tables, current)
      BY NothingTooBig
    <2> QED
      BY <1>1, <2>1 DEF Busy, ToDo, AtWork, Ranging
  <1> QED
    BY <1>2, <1>3, <1>4, <1>5, <1>6, <1>7, <1>8 DEF LevelInv

(* What the invariant speaks of.                                           *)
seen == <<up, imm, logs, nextFile, manifest, edit, comp, flush, current, tables, rd,
          pending, bgError, range, scheduled, seek>>

LEMMA Quiet == LevelInv /\ UNCHANGED seen => LevelInv'
  <1> SUFFICES ASSUME LevelInv, UNCHANGED seen
               PROVE  LevelInv'
    OBVIOUS
  <1> USE DEF seen, LevelInv
  <1>1. Formed'
    BY DEF Formed
  <1>2. Numbered'
    BY DEF Numbered
  <1>3. Logged'
    BY DEF Logged
  <1>4. Present'
    BY DEF Present
  <1>5. InStep'
    BY DEF InStep
  <1>6. Ended'
    BY DEF Ended
  <1>7. Busy'
    BY DEF Busy, ToDo, AtWork
  <1> QED
    BY <1>1, <1>2, <1>3, <1>4, <1>5, <1>6, <1>7

LEMMA CallsKeep ==
  ASSUME LevelInv, Calls
  PROVE  LevelInv'
  <1> USE DEF memVars, logVars, setVars, userVars, bgVars, history
  <1>1. CASE \E w \in Writers : Write(w)
    BY <1>1, Quiet DEF Write, seen
  <1>2. CASE \E r \in Readers : GetSnapshot(r) \/ ReleaseSnapshot(r)
    BY <1>2, Quiet DEF GetSnapshot, ReleaseSnapshot, seen
  <1>3. CASE \E r \in Readers : Capture(r)
    <2>1. PICK r \in Readers : Capture(r)
      BY <1>3
    <2>2. up = "open" /\ \E n, m, i, l :
            rd' = [rd EXCEPT ![r] = [n |-> n, log |-> l, mem |-> m, imm |-> i,
                                     ver |-> current]]
      BY <2>1 DEF Capture
    <2>3. UNCHANGED <<up, imm, logs, nextFile, manifest, edit, comp, flush, current,
                      tables, pending, bgError, range, scheduled, seek>>
      BY <2>1 DEF Capture
    <2>4. Formed'
      BY <2>2, <2>3 DEF LevelInv, Formed
    <2>5. Present'
      BY <2>2, <2>3 DEF LevelInv, Formed, Present
    <2>6. Numbered' /\ Logged' /\ InStep' /\ Ended'
      BY <2>2, <2>3 DEF LevelInv, Numbered, Logged, InStep, Ended
    <2>7. Busy'
      BY <2>3 DEF LevelInv, Busy, ToDo, AtWork
    <2> QED
      BY <2>4, <2>5, <2>6, <2>7 DEF LevelInv
  <1>4. CASE \E r \in Readers : Release(r)
    <2>1. PICK r \in Readers : Release(r)
      BY <1>4
    <2>2. rd[r] # NoRead /\ rd' = [rd EXCEPT ![r] = NoRead] /\ up = "open"
      BY <2>1 DEF Release, LevelInv, Ended
    <2>3. UNCHANGED <<up, imm, logs, nextFile, manifest, edit, comp, flush, current,
                      tables, pending, bgError, range>>
      BY <2>1 DEF Release
    <2>4. UNCHANGED <<scheduled, seek>> \/ MaybeSchedule
      BY <2>1 DEF Release
    <2>5. Formed'
      BY <2>2, <2>3, <2>4 DEF LevelInv, Formed, MaybeSchedule
    <2>6. Present'
      BY <2>2, <2>3 DEF LevelInv, Formed, Present
    <2>7. Numbered' /\ Logged' /\ InStep' /\ Ended'
      BY <2>2, <2>3 DEF LevelInv, Numbered, Logged, InStep, Ended
    <2>8. Busy'
      BY <2>3, <2>4 DEF LevelInv, Busy, ToDo, AtWork, MaybeSchedule, Work
    <2> QED
      BY <2>5, <2>6, <2>7, <2>8 DEF LevelInv
  <1>5. CASE \E l \in 0..(NumLevels - 2) : CompactLevel(l)
    <2>1. PICK l \in 0..(NumLevels - 2) : CompactLevel(l)
      BY <1>5
    <2>2. UNCHANGED <<up, imm, logs, nextFile, manifest, edit, comp, flush, current,
                      tables, rd, pending, bgError, seek>>
      BY <2>1 DEF CompactLevel
    <2>3. up = "open" /\ MaybeSchedule
      BY <2>1 DEF CompactLevel
    <2>4. Formed'
      BY <2>2, <2>3 DEF LevelInv, Formed, MaybeSchedule
    <2>5. Present' /\ Numbered' /\ Logged' /\ InStep' /\ Ended'
      BY <2>2, <2>3 DEF LevelInv, Present, Numbered, Logged, InStep, Ended
    <2>6. Busy'
      BY <2>2, <2>3 DEF LevelInv, Busy, ToDo, AtWork, MaybeSchedule, Work
    <2> QED
      BY <2>4, <2>5, <2>6 DEF LevelInv
  <1> QED
    BY <1>1, <1>2, <1>3, <1>4, <1>5 DEF Calls

LEMMA ForegroundKeeps ==
  ASSUME LevelInv, Foreground
  PROVE  LevelInv'
  <1> USE DEF memVars, logVars, setVars, userVars, bgVars, history
  <1>1. CASE WriteRefused \/ WriteStarts
    BY <1>1, Quiet DEF WriteRefused, WriteStarts, Lead, seen
  <1>2. CASE WriteSwitches
    <2>1. UNCHANGED <<up, manifest, edit, comp, flush, current, tables, rd, pending,
                      bgError, range, seek>>
      BY <1>2 DEF WriteSwitches
    <2>2. up = "open" /\ MaybeSchedule /\ nextFile' = nextFile + 1
      BY <1>2 DEF WriteSwitches, InFront, Switch
    <2>3. /\ DOMAIN logs' = DOMAIN logs \cup {nextFile}
          /\ \A n \in DOMAIN logs' :
               logs'[n] = IF n = nextFile THEN [recs |-> <<>>, synced |-> 0] ELSE logs[n]
      BY <1>2 DEF WriteSwitches, Switch
    <2>4. Formed'
      BY <2>1, <2>2 DEF LevelInv, Formed, MaybeSchedule
    <2>5. Numbered'
      BY <2>1, <2>2 DEF LevelInv, Numbered
    <2>6. Logged'
      <3>1. nextFile \in Nat /\ Logged
        BY DEF LevelInv, Numbered
      <3>2. PICK b \in Nat : DOMAIN logs \subseteq 0..b
        BY <3>1 DEF Logged
      <3>3. b + nextFile \in Nat /\ DOMAIN logs' \subseteq 0..(b + nextFile)
        BY <2>3, <3>1, <3>2
      <3>4. ASSUME NEW n \in DOMAIN logs'
            PROVE  /\ {"recs", "synced"} \subseteq DOMAIN logs'[n]
                   /\ logs'[n].synced \in Nat
                   /\ \E S : logs'[n].recs \in Seq(S)
        <4>1. CASE n = nextFile
          <5>1. logs'[n] = [recs |-> <<>>, synced |-> 0] /\ <<>> \in Seq({})
            BY <2>3, <4>1
          <5> QED
            BY <5>1
        <4>2. CASE n # nextFile
          BY <2>3, <3>1, <4>2 DEF Logged
        <4> QED
          BY <4>1, <4>2
      <3> QED
        BY <3>3, <3>4 DEF Logged
    <2>7. Present' /\ InStep' /\ Ended'
      BY <2>1, <2>2 DEF LevelInv, Present, InStep, Ended
    <2>8. Busy'
      BY <2>1, <2>2 DEF LevelInv, Busy, ToDo, AtWork, MaybeSchedule, Work
    <2> QED
      BY <2>4, <2>5, <2>6, <2>7, <2>8 DEF LevelInv
  <1>3. CASE AppendRecord \/ SyncLog
    <2>1. UNCHANGED <<up, imm, nextFile, manifest, edit, comp, flush, current, tables, rd,
                      pending, bgError, range, scheduled, seek>>
      BY <1>3 DEF AppendRecord, SyncLog
    <2>2. Logged'
      <3>1. CASE UNCHANGED logs
        BY <3>1 DEF LevelInv, Logged
      <3>2. CASE logs' = Appended
        <4>1. DOMAIN logs' = DOMAIN logs
          BY <3>2 DEF Appended
        <4>2. ASSUME NEW n \in DOMAIN logs
              PROVE  /\ {"recs", "synced"} \subseteq DOMAIN logs'[n]
                     /\ logs'[n].synced \in Nat
                     /\ \E S : logs'[n].recs \in Seq(S)
          <5>1. /\ {"recs", "synced"} \subseteq DOMAIN logs[n]
                /\ logs[n].synced \in Nat
            BY DEF LevelInv, Logged
          <5>2. PICK S : logs[n].recs \in Seq(S)
            BY DEF LevelInv, Logged
          <5>3. CASE n = logNo
            <6>1. logs'[n] = [logs[n] EXCEPT !.recs = Append(logs[n].recs, group.ents)]
              BY <3>2, <5>3 DEF Appended
            <6>2. logs[n].recs \in Seq(S \cup {group.ents})
              BY <5>2
            <6>3. Append(logs[n].recs, group.ents) \in Seq(S \cup {group.ents})
              BY <6>2
            <6> QED
              BY <5>1, <6>1, <6>3
          <5>4. CASE n # logNo
            BY <3>2, <5>1, <5>2, <5>4 DEF Appended
          <5> QED
            BY <5>3, <5>4
        <4> QED
          BY <4>1, <4>2 DEF LevelInv, Logged
      <3>3. CASE logs' = [logs EXCEPT ![logNo].synced = Len(logs[logNo].recs)]
        <4>1. DOMAIN logs' = DOMAIN logs
          BY <3>3
        <4>2. ASSUME NEW n \in DOMAIN logs
              PROVE  /\ {"recs", "synced"} \subseteq DOMAIN logs'[n]
                     /\ logs'[n].synced \in Nat
                     /\ \E S : logs'[n].recs \in Seq(S)
          <5>1. /\ {"recs", "synced"} \subseteq DOMAIN logs[n]
                /\ logs[n].synced \in Nat
            BY DEF LevelInv, Logged
          <5>2. PICK S : logs[n].recs \in Seq(S)
            BY DEF LevelInv, Logged
          <5>3. CASE n = logNo
            <6>1. logs'[n] = [logs[n] EXCEPT !.synced = Len(logs[n].recs)]
              BY <3>3, <5>3
            <6>2. Len(logs[n].recs) \in Nat
              BY <5>2
            <6> QED
              BY <5>1, <5>2, <6>1, <6>2
          <5>4. CASE n # logNo
            BY <3>3, <5>1, <5>2, <5>4
          <5> QED
            BY <5>3, <5>4
        <4> QED
          BY <4>1, <4>2 DEF LevelInv, Logged
      <3> QED
        BY <1>3, <3>1, <3>2, <3>3 DEF AppendRecord, SyncLog
    <2>3. Formed' /\ Numbered' /\ Present' /\ InStep' /\ Ended'
      BY <2>1 DEF LevelInv, Formed, Numbered, Present, InStep, Ended
    <2>4. Busy'
      BY <2>1 DEF LevelInv, Busy, ToDo, AtWork
    <2> QED
      BY <2>2, <2>3, <2>4 DEF LevelInv
  <1>4. CASE InsertInto
    <2>1. UNCHANGED <<up, imm, logs, nextFile, manifest, edit, comp, flush, current, tables,
                      pending, bgError, range, scheduled, seek>>
      BY <1>4 DEF InsertInto
    <2>2. rd' = [r \in Readers |->
                   IF rd[r] # NoRead /\ rd[r].log = logNo THEN [rd[r] EXCEPT !.mem = mem']
                   ELSE rd[r]]
      BY <1>4 DEF InsertInto
    <2>3. \A r \in Readers : rd'[r] # NoRead =>
            /\ rd[r] # NoRead /\ "ver" \in DOMAIN rd'[r] /\ rd'[r].ver = rd[r].ver
      BY <2>2 DEF LevelInv, Formed
    <2>4. Formed'
      BY <2>1, <2>2, <2>3 DEF LevelInv, Formed
    <2>5. Present'
      BY <2>1, <2>3 DEF LevelInv, Present
    <2>6. Ended'
      BY <2>1, <2>2 DEF LevelInv, Ended
    <2>7. Numbered' /\ Logged' /\ InStep'
      BY <2>1 DEF LevelInv, Numbered, Logged, InStep
    <2>8. Busy'
      BY <2>1 DEF LevelInv, Busy, ToDo, AtWork
    <2> QED
      BY <2>4, <2>5, <2>6, <2>7, <2>8 DEF LevelInv
  <1>5. CASE WriteReturns
    <2>1. UNCHANGED <<up, imm, logs, nextFile, manifest, edit, comp, flush, current, tables,
                      rd, pending, range, scheduled, seek>>
      BY <1>5 DEF WriteReturns
    <2>2. bgError' = (bgError \/ Stage("failed"))
      BY <1>5 DEF WriteReturns
    <2>3. Formed'
      BY <2>1, <2>2 DEF LevelInv, Formed
    <2>4. Numbered' /\ Logged' /\ Present' /\ InStep' /\ Ended'
      BY <2>1, <2>2 DEF LevelInv, Numbered, Logged, Present, InStep, Ended
    <2>5. Busy'
      BY <2>1, <2>2 DEF LevelInv, Busy, ToDo, AtWork
    <2> QED
      BY <2>3, <2>4, <2>5 DEF LevelInv
  <1> QED
    BY <1>1, <1>2, <1>3, <1>4, <1>5 DEF Foreground
-----------------------------------------------------------------------------
(* The steps of the background thread.                                     *)
LEMMA FlushStarts ==
  ASSUME LevelInv, StartFlush, scheduled \/ comp # NoComp
  PROVE  LevelInv'
  <1>1. UNCHANGED <<up, imm, logs, manifest, edit, comp, current, tables, rd, bgError, range,
                    scheduled, seek>>
    BY DEF StartFlush, memVars, logVars, userVars
  <1>2. /\ edit = NoEdit /\ flush' = nextFile /\ nextFile' = nextFile + 1
        /\ pending' = pending \cup {nextFile}
    BY DEF StartFlush, Resting
  <1>3. Formed' /\ Logged'
    BY <1>1 DEF LevelInv, Formed, Logged
  <1>4. Numbered'
    BY <1>1, <1>2 DEF LevelInv, Numbered
  <1>5. Present'
    BY <1>1, <1>2 DEF LevelInv, Present
  <1>6. InStep'
    BY <1>1 DEF LevelInv, InStep
  <1>7. Ended'
    BY <1>1, <1>2 DEF LevelInv, Ended
  <1>8. Busy'
    BY <1>1, <1>2 DEF LevelInv, Busy, ToDo, AtWork
  <1> QED
    BY <1>3, <1>4, <1>5, <1>6, <1>7, <1>8 DEF LevelInv

LEMMA TableBuilt ==
  ASSUME LevelInv, BuildTable
  PROVE  LevelInv'
  <1>1. UNCHANGED <<up, imm, logs, nextFile, manifest, comp, current, rd, range, seek>>
    BY DEF BuildTable, memVars, logVars, userVars
  <1>2. flush # 0 /\ flush' = 0 /\ pending' = pending \ {flush} /\ edit = NoEdit
    BY DEF BuildTable, LevelInv, Busy
  <1>3. CASE /\ UNCHANGED <<tables, edit>> /\ bgError' = TRUE
             /\ scheduled' = (scheduled /\ comp # NoComp)
    <2>1. Formed' /\ Logged'
      BY <1>1, <1>2, <1>3 DEF LevelInv, Formed, Logged
    <2>2. Numbered'
      BY <1>1, <1>2, <1>3 DEF LevelInv, Numbered
    <2>3. Present'
      BY <1>1, <1>2, <1>3 DEF LevelInv, Present, Numbered
    <2>4. InStep' /\ Ended' /\ Busy'
      BY <1>1, <1>2, <1>3 DEF LevelInv, InStep, Ended, Busy
    <2> QED
      BY <2>1, <2>2, <2>3, <2>4 DEF LevelInv
  <1>4. CASE \E l, a, s, p :
               /\ IF imm = {} THEN UNCHANGED tables /\ a = NoFiles
                  ELSE /\ DOMAIN tables' = DOMAIN tables \cup {flush}
                       /\ a = At(l, {flush})
               /\ edit' = [kind |-> "flush", written |-> FALSE, del |-> NoFiles, add |-> a,
                           log |-> logNo, next |-> nextFile', seq |-> s, pointer |-> p]
               /\ UNCHANGED <<bgError, scheduled>>
    <2>1. PICK l, a, s, p :
            /\ IF imm = {} THEN UNCHANGED tables /\ a = NoFiles
               ELSE /\ DOMAIN tables' = DOMAIN tables \cup {flush}
                    /\ a = At(l, {flush})
            /\ edit' = [kind |-> "flush", written |-> FALSE, del |-> NoFiles, add |-> a,
                        log |-> logNo, next |-> nextFile', seq |-> s, pointer |-> p]
            /\ UNCHANGED <<bgError, scheduled>>
      BY <1>4
    <2>2. /\ {"kind", "written", "del", "add", "next"} \subseteq DOMAIN edit'
          /\ edit'.kind = "flush" /\ edit'.written = FALSE /\ edit'.add = a
          /\ edit'.next = nextFile'
      BY <2>1
    <2>3. DOMAIN tables \subseteq DOMAIN tables' /\ Files(a) \subseteq DOMAIN tables'
      BY <2>1, FilesOf
    <2>4. up = "open"
      BY <1>2 DEF LevelInv, Ended
    <2>5. Formed' /\ Logged'
      BY <1>1, <2>1, <2>2 DEF LevelInv, Formed, Logged
    <2>6. Numbered'
      BY <1>1, <1>2, <2>2 DEF LevelInv, Numbered
    <2>7. Present'
      BY <1>1, <1>2, <2>2, <2>3 DEF LevelInv, Present, Numbered
    <2>8. InStep'
      BY <1>1, <1>2, <2>1, <2>2 DEF LevelInv, InStep, NoEdit
    <2>9. Ended'
      BY <1>1, <2>1, <2>2, <2>4 DEF LevelInv, Ended
    <2>10. Busy'
      <3>1. ~bgError => scheduled
        BY <1>2, <2>4 DEF LevelInv, Busy, AtWork
      <3> QED
        BY <1>2, <2>1, <2>2, <3>1 DEF Busy
    <2> QED
      BY <2>5, <2>6, <2>7, <2>8, <2>9, <2>10 DEF LevelInv
  <1>5. ASSUME ~(/\ UNCHANGED <<tables, edit>> /\ bgError' = TRUE
                 /\ scheduled' = (scheduled /\ comp # NoComp))
        PROVE  \E l, a, s, p :
               /\ IF imm = {} THEN UNCHANGED tables /\ a = NoFiles
                  ELSE /\ DOMAIN tables' = DOMAIN tables \cup {flush}
                       /\ a = At(l, {flush})
               /\ edit' = [kind |-> "flush", written |-> FALSE, del |-> NoFiles, add |-> a,
                           log |-> logNo, next |-> nextFile', seq |-> s, pointer |-> p]
               /\ UNCHANGED <<bgError, scheduled>>
    BY <1>5 DEF BuildTable, EditOf
  <1> QED
    BY <1>3, <1>4, <1>5

LEMMA NothingToDo ==
  ASSUME LevelInv, BgNothing
  PROVE  LevelInv'
  <1>1. UNCHANGED <<up, imm, logs, nextFile, manifest, edit, comp, flush, current, tables, rd,
                    pending, bgError, range, seek>>
    BY DEF BgNothing, memVars, logVars, setVars, userVars
  <1>2. scheduled' = FALSE /\ up = "open" /\ comp = NoComp /\ flush = 0 /\ edit = NoEdit
    BY DEF BgNothing, BgCall, Resting
  <1>3. bgError \/ ~ToDo
    BY DEF BgNothing, ToDo
  <1>4. ~bgError => ~ToDo'
    BY <1>1, <1>3 DEF ToDo
  <1>5. Formed' /\ Numbered' /\ Logged' /\ Present' /\ InStep' /\ Ended'
    BY <1>1, <1>2 DEF LevelInv, Formed, Numbered, Logged, Present, InStep, Ended
  <1>6. Busy'
    BY <1>1, <1>2, <1>4 DEF LevelInv, Busy, AtWork
  <1> QED
    BY <1>5, <1>6 DEF LevelInv

(* A compaction, or the move of a file, whose files are of the current     *)
(* version.                                                                *)
LEMMA CompactionStarts ==
  ASSUME LevelInv, BgCall, NEW c, NEW isManual \in BOOLEAN, StartCompaction(c, isManual),
         ~isManual => c.level \in Level /\ c.in0 \subseteq current[c.level]
  PROVE  LevelInv'
  <1>1. UNCHANGED <<up, imm, logs, nextFile, manifest, flush, current, tables, rd, pending,
                    bgError, range, scheduled, seek>>
    BY DEF StartCompaction, memVars, logVars, userVars
  <1>2. scheduled /\ up = "open" /\ comp = NoComp /\ flush = 0 /\ edit = NoEdit
    BY DEF BgCall, Resting
  <1>3. CASE /\ ~isManual /\ UNCHANGED comp
             /\ edit' = EditOf("move", Consumed(c), At(c.level + 1, c.in0), minLog)
    <2>1. /\ {"kind", "written", "del", "add", "next"} \subseteq DOMAIN edit'
          /\ edit'.kind = "move" /\ edit'.written = FALSE
          /\ edit'.add = At(c.level + 1, c.in0) /\ edit'.next = nextFile'
      BY <1>3 DEF EditOf
    <2>2. Files(edit'.add) \subseteq Files(current)
      BY <1>3, <2>1, FilesOf DEF Files
    <2>3. Formed' /\ Logged'
      BY <1>1, <1>3, <2>1 DEF LevelInv, Formed, Logged
    <2>4. Numbered'
      BY <1>1, <1>2, <1>3, <2>1 DEF LevelInv, Numbered
    <2>5. Present'
      BY <1>1, <1>2, <1>3, <2>2 DEF LevelInv, Present
    <2>6. InStep'
      BY <1>1, <1>2, <2>1 DEF LevelInv, InStep, NoEdit
    <2>7. Ended' /\ Busy'
      BY <1>1, <1>2, <1>3, <2>1 DEF LevelInv, Ended, Busy
    <2> QED
      BY <2>3, <2>4, <2>5, <2>6, <2>7 DEF LevelInv
  <1>4. CASE /\ UNCHANGED edit
             /\ comp' = [c |-> c, ver |-> current, made |-> {}, manual |-> isManual,
                         outs |-> Outputs(tables, current, c, Oldest)]
    <2>1. {"ver", "made"} \subseteq DOMAIN comp' /\ comp'.ver = current /\ comp'.made = {}
      BY <1>4
    <2>2. Formed' /\ Logged'
      BY <1>1, <1>4, <2>1 DEF LevelInv, Formed, Logged
    <2>3. Numbered'
      BY <1>1, <1>4, <2>1 DEF LevelInv, Numbered
    <2>4. Present'
      BY <1>1, <1>4, <2>1 DEF LevelInv, Present
    <2>5. InStep'
      BY <1>1, <1>4 DEF LevelInv, InStep
    <2>6. Ended' /\ Busy'
      BY <1>1, <1>2, <1>4 DEF LevelInv, Ended, Busy, NoEdit
    <2> QED
      BY <2>2, <2>3, <2>4, <2>5, <2>6 DEF LevelInv
  <1> QED
    BY <1>3, <1>4 DEF StartCompaction

LEMMA CompactionKeeps ==
  ASSUME LevelInv, BgCompaction
  PROVE  LevelInv'
  <1>1. BgCall
    BY DEF BgCompaction
  <1>2. CASE \E l \in 0..(NumLevels - 2) : \E f \in NextFile(tables, current[l], pointer[l]) :
               StartCompaction(Picked(tables, current, l, f), FALSE)
    <2>1. PICK l \in 0..(NumLevels - 2) : \E f \in NextFile(tables, current[l], pointer[l]) :
            StartCompaction(Picked(tables, current, l, f), FALSE)
      BY <1>2
    <2>2. PICK f \in NextFile(tables, current[l], pointer[l]) :
            StartCompaction(Picked(tables, current, l, f), FALSE)
      BY <2>1
    <2>3. f \in current[l]
      BY DEF NextFile
    <2>4. l \in Level
      BY LevelsAssumption DEF Level
    <2> DEFINE c == Picked(tables, current, l, f)
    <2>5. c.level \in Level /\ c.in0 \subseteq current[c.level]
      BY <2>3, <2>4, PickedFiles
    <2>6. StartCompaction(c, FALSE)
      BY <2>2
    <2> HIDE DEF c
    <2> QED
      BY <1>1, <2>5, <2>6, CompactionStarts
  <1>3. CASE \E l \in Level :
               seek \in current[l] /\ StartCompaction(Picked(tables, current, l, seek), FALSE)
    <2>1. PICK l \in Level :
            seek \in current[l] /\ StartCompaction(Picked(tables, current, l, seek), FALSE)
      BY <1>3
    <2> DEFINE c == Picked(tables, current, l, seek)
    <2>2. c.level \in Level /\ c.in0 \subseteq current[c.level]
      BY <2>1, PickedFiles
    <2>3. StartCompaction(c, FALSE)
      BY <2>1
    <2> HIDE DEF c
    <2> QED
      BY <1>1, <2>2, <2>3, CompactionStarts
  <1> QED
    BY <1>2, <1>3 DEF BgCompaction

LEMMA RangeKeeps ==
  ASSUME LevelInv, BgRange
  PROVE  LevelInv'
  <1>1. BgCall
    BY DEF BgRange
  <1>2. CASE StartCompaction(Ranged(tables, current, range.level, range.begin), TRUE)
    BY <1>1, <1>2, CompactionStarts
  <1>3. CASE /\ range' = NoRange /\ EndOfCall
             /\ UNCHANGED <<up, memVars, logVars, tables, setVars, queue, group, userVars,
                            pending, bgError, flush, comp, edit, history, count>>
    <2>1. UNCHANGED <<up, imm, logs, nextFile, manifest, edit, comp, flush, current, tables, rd,
                      pending, bgError, seek>>
      BY <1>3 DEF memVars, logVars, setVars, userVars
    <2>2. up = "open" /\ comp = NoComp /\ flush = 0 /\ edit = NoEdit
      BY <1>1 DEF BgCall, Resting
    <2>3. scheduled' \in BOOLEAN
      BY <1>3 DEF EndOfCall
    <2>4. Formed' /\ Numbered' /\ Logged' /\ Present' /\ InStep' /\ Ended'
      BY <2>1, <2>2, <2>3 DEF LevelInv, Formed, Numbered, Logged, Present, InStep, Ended
    <2>5. Busy'
      BY <1>3, <2>1, <2>2 DEF LevelInv, Busy, ToDo, AtWork, EndOfCall, Work
    <2> QED
      BY <2>4, <2>5 DEF LevelInv
  <1> QED
    BY <1>2, <1>3 DEF BgRange

LEMMA OutputMade ==
  ASSUME LevelInv, MakeOutput
  PROVE  LevelInv'
  <1>1. UNCHANGED <<up, imm, logs, manifest, edit, flush, current, rd, seek>>
    BY DEF MakeOutput, memVars, logVars, userVars
  <1>2. comp # NoComp /\ flush = 0 /\ edit = NoEdit /\ nextFile' = nextFile + 1
    BY DEF MakeOutput, Compacting, Resting
  <1>3. up = "open"
    BY <1>2 DEF LevelInv, Ended
  <1>4. CASE /\ DOMAIN tables' = DOMAIN tables \cup {nextFile}
             /\ pending' = pending \cup {nextFile}
             /\ comp' = [comp EXCEPT !.made = @ \cup {nextFile}, !.outs = Tail(@)]
             /\ UNCHANGED <<bgError, scheduled, range>>
    <2>1. /\ {"ver", "made"} \subseteq DOMAIN comp'
          /\ comp'.ver = comp.ver /\ comp'.made = comp.made \cup {nextFile}
      BY <1>2, <1>4 DEF LevelInv, Formed
    <2>2. Formed' /\ Logged'
      BY <1>1, <1>4, <2>1 DEF LevelInv, Formed, Logged
    <2>3. Numbered'
      BY <1>1, <1>2, <2>1 DEF LevelInv, Numbered
    <2>4. Present'
      BY <1>1, <1>2, <1>4, <2>1 DEF LevelInv, Present
    <2>5. InStep' /\ Ended'
      BY <1>1, <1>2, <1>3, <1>4 DEF LevelInv, InStep, Ended
    <2>6. Busy'
      BY <1>1, <1>2, <1>3, <1>4 DEF LevelInv, Busy, AtWork, NoEdit
    <2> QED
      BY <2>2, <2>3, <2>4, <2>5, <2>6 DEF LevelInv
  <1>5. CASE Abandon /\ UNCHANGED tables
    <2>1. bgError' = TRUE /\ scheduled' = FALSE /\ comp' = NoComp
      BY <1>5 DEF Abandon
    <2>2. Formed' /\ Logged'
      BY <1>1, <2>1 DEF LevelInv, Formed, Logged
    <2>3. Numbered'
      BY <1>1, <1>2, <2>1 DEF LevelInv, Numbered
    <2>4. Present'
      BY <1>1, <1>5, <2>1 DEF LevelInv, Present
    <2>5. InStep' /\ Ended' /\ Busy'
      BY <1>1, <1>2, <1>3, <2>1 DEF LevelInv, InStep, Ended, Busy
    <2> QED
      BY <2>2, <2>3, <2>4, <2>5 DEF LevelInv
  <1> QED
    BY <1>4, <1>5 DEF MakeOutput

LEMMA ResultsInstalled ==
  ASSUME LevelInv, InstallCompactionResults
  PROVE  LevelInv'
  <1>1. UNCHANGED <<up, imm, logs, nextFile, manifest, comp, flush, current, tables, rd, pending,
                    bgError, range, scheduled, seek>>
    BY DEF InstallCompactionResults, memVars, logVars, setVars, userVars
  <1>2. comp # NoComp /\ flush = 0 /\ edit = NoEdit
    BY DEF InstallCompactionResults, Compacting, Resting
  <1>3. up = "open"
    BY <1>2 DEF LevelInv, Ended
  <1>4. /\ {"kind", "written", "del", "add", "next"} \subseteq DOMAIN edit'
        /\ edit'.kind = "compact" /\ edit'.written = FALSE
        /\ edit'.add = At(comp.c.level + 1, comp.made) /\ edit'.next = nextFile'
    BY DEF InstallCompactionResults, EditOf
  <1>5. Files(edit'.add) \subseteq comp.made
    BY <1>4, FilesOf
  <1>6. Formed' /\ Logged'
    BY <1>1, <1>4 DEF LevelInv, Formed, Logged
  <1>7. Numbered'
    BY <1>1, <1>2, <1>4 DEF LevelInv, Numbered
  <1>8. Present'
    BY <1>1, <1>2, <1>5 DEF LevelInv, Present
  <1>9. InStep'
    BY <1>1, <1>2, <1>4 DEF LevelInv, InStep, NoEdit
  <1>10. Ended'
    BY <1>1, <1>3, <1>4 DEF LevelInv, Ended
  <1>11. Busy'
    BY <1>1, <1>2, <1>3, <1>4 DEF LevelInv, Busy, AtWork
  <1> QED
    BY <1>6, <1>7, <1>8, <1>9, <1>10, <1>11 DEF LevelInv

(* The record of an edit: as long as nothing has failed, the manifest then *)
(* adds up to what is about to be installed.                               *)
LEMMA ManifestWritten ==
  ASSUME LevelInv, WriteManifest
  PROVE  LevelInv'
  <1>1. UNCHANGED <<up, imm, logs, nextFile, comp, flush, current, tables, rd, pending,
                    bgError, range, scheduled, seek>>
    BY DEF WriteManifest, memVars, logVars, userVars
  <1>2. edit # NoEdit /\ ~edit.written
    BY DEF WriteManifest
  <1>3. edit' = [edit EXCEPT !.written = TRUE]
    BY DEF WriteManifest
  <1>4. /\ {"kind", "written", "del", "add", "next"} \subseteq DOMAIN edit'
        /\ edit'.kind = edit.kind /\ edit'.written = TRUE
        /\ edit'.add = edit.add /\ edit'.del = edit.del /\ edit'.next = edit.next
    BY <1>2, <1>3 DEF LevelInv, Formed
  <1>5. edit' # NoEdit
    BY <1>2, <1>4 DEF LevelInv, Formed, NoEdit
  <1>6. \/ /\ manifest' = manifest /\ manifest.torn /\ edit.kind # "open"
        \/ /\ {"torn", "files", "next"} \subseteq DOMAIN manifest'
           /\ manifest'.torn = FALSE /\ manifest'.next = edit.next
           /\ manifest'.files = Apply(manifest.files, edit)
    BY DEF WriteManifest, Recorded
  <1>7. Formed'
    BY <1>1, <1>2, <1>4, <1>6 DEF LevelInv, Formed
  <1>8. Numbered'
    BY <1>1, <1>2, <1>4, <1>6 DEF LevelInv, Numbered
  <1>9. Logged'
    BY <1>1 DEF LevelInv, Logged
  <1>10. Present'
    BY <1>1, <1>2, <1>4, <1>6, FilesOf DEF LevelInv, Present
  <1>11. InStep'
    <2> SUFFICES ASSUME up' # "down", ~bgError'
                 PROVE  /\ manifest'.files = Apply(current', edit')
                        /\ ~manifest'.torn
      BY <1>4, <1>5 DEF InStep
    <2>1. manifest.files = current /\ (manifest.torn => edit.kind = "open")
      BY <1>1, <1>2 DEF LevelInv, InStep
    <2>2. Apply(current', edit') = Apply(current, edit)
      BY <1>1, <1>4 DEF Apply
    <2> QED
      BY <1>6, <2>1, <2>2
  <1>12. Ended'
    BY <1>1, <1>2, <1>4 DEF LevelInv, Ended
  <1>13. Busy'
    BY <1>1, <1>2, <1>4 DEF LevelInv, Busy, ToDo, AtWork
  <1> QED
    BY <1>7, <1>8, <1>9, <1>10, <1>11, <1>12, <1>13 DEF LevelInv

LEMMA ManifestInDoubt ==
  ASSUME LevelInv, ManifestFails
  PROVE  LevelInv'
  <1>1. UNCHANGED <<up, imm, logs, nextFile, flush, current, tables, rd, seek>>
    BY DEF ManifestFails, memVars, logVars, userVars
  <1>2. edit # NoEdit /\ up = "open" /\ edit' = NoEdit /\ edit'.kind = "none"
    BY DEF ManifestFails, NoEdit
  <1>3. \/ UNCHANGED manifest
        \/ manifest' = [manifest EXCEPT !.torn = TRUE]
        \/ /\ {"torn", "files", "next"} \subseteq DOMAIN manifest'
           /\ manifest'.next = edit.next
           /\ manifest'.files = Apply(manifest.files, edit)
    BY DEF ManifestFails, Recorded
  <1>4. /\ {"torn", "files", "next"} \subseteq DOMAIN manifest'
        /\ manifest'.next \in Nat
        /\ Files(manifest'.files) \subseteq DOMAIN tables
    BY <1>2, <1>3, FilesOf DEF LevelInv, Formed, Numbered, Present
  <1>5. /\ bgError' = TRUE /\ scheduled' \in BOOLEAN
        /\ comp' = NoComp \/ UNCHANGED <<comp, pending>>
    BY DEF ManifestFails, Abandon
  <1>6. Formed' /\ Logged'
    BY <1>1, <1>2, <1>4, <1>5 DEF LevelInv, Formed, Logged
  <1>7. Numbered'
    BY <1>1, <1>2, <1>4, <1>5 DEF LevelInv, Numbered
  <1>8. Present'
    BY <1>1, <1>2, <1>4, <1>5 DEF LevelInv, Present
  <1>9. InStep' /\ Ended' /\ Busy'
    BY <1>1, <1>2, <1>5 DEF LevelInv, InStep, Ended, Busy
  <1> QED
    BY <1>6, <1>7, <1>8, <1>9 DEF LevelInv
-----------------------------------------------------------------------------
(* A version is installed, and what is no longer needed removed.           *)
LEMMA VersionApplied ==
  ASSUME LevelInv, Applied, edit # NoEdit, edit.written
  PROVE  /\ UNCHANGED <<nextFile, manifest, rd, bgError, flush>>
         /\ seek' = 0 /\ edit' = NoEdit /\ edit'.kind = "none" /\ flush = 0
         /\ up # "down"
         /\ Files(current') \subseteq DOMAIN tables
         /\ InStep'
  <1>1. /\ UNCHANGED <<nextFile, manifest, rd, bgError, flush>>
        /\ seek' = 0 /\ edit' = NoEdit /\ edit'.kind = "none"
        /\ current' = Apply(current, edit)
    BY DEF Applied, NoEdit, userVars
  <1>2. up # "down" /\ flush = 0
    BY DEF LevelInv, Ended, Busy
  <1>3. Files(current') \subseteq DOMAIN tables
    BY <1>1, FilesOf DEF LevelInv, Present
  <1>4. InStep'
    BY <1>1, <1>2 DEF LevelInv, InStep
  <1> QED
    BY <1>1, <1>2, <1>3, <1>4

LEMMA NeededIsKept ==
  ASSUME LevelInv, Applied, edit # NoEdit, edit.written, DeleteObsoleteFiles,
         (UNCHANGED <<comp, pending>>) \/ comp' = NoComp, up' # "down"
  PROVE  Present'
  <1>1. /\ UNCHANGED <<manifest, rd, bgError>>
        /\ edit' = NoEdit
        /\ Files(current') \subseteq DOMAIN tables
        /\ InStep'
    BY VersionApplied
  <1>2. /\ pending' \subseteq Live(pending', current', comp')
        /\ Files(current') \subseteq Live(pending', current', comp')
        /\ \A r \in Readers : rd[r] # NoRead =>
             Files(rd[r].ver) \subseteq Live(pending', current', comp')
        /\ comp' # NoComp => Files(comp'.ver) \subseteq Live(pending', current', comp')
    BY LiveFiles
  <1>3. Files(current') \subseteq DOMAIN tables'
    BY <1>1, <1>2, LiveIsKept
  <1>4. Files(manifest'.files) \subseteq DOMAIN tables'
    <2>1. ~bgError' => manifest.files = current'
      BY <1>1 DEF InStep
    <2>2. Files(manifest.files) \subseteq DOMAIN tables
      BY DEF LevelInv, Present
    <2>3. ~bgError' => Files(manifest.files) \subseteq Live(pending', current', comp')
      BY <1>2, <2>1
    <2> QED
      BY <1>1, <2>2, <2>3, LiveIsKept
  <1>5. ASSUME NEW r \in Readers, rd'[r] # NoRead
        PROVE  Files(rd'[r].ver) \subseteq DOMAIN tables'
    <2>1. Files(rd[r].ver) \subseteq DOMAIN tables
      BY <1>1, <1>5 DEF LevelInv, Present
    <2> QED
      BY <1>1, <1>2, <1>5, <2>1, LiveIsKept
  <1>6. ASSUME comp' # NoComp
        PROVE  /\ Files(comp'.ver) \subseteq DOMAIN tables'
               /\ comp'.made \subseteq DOMAIN tables'
               /\ comp'.made \subseteq pending'
    <2>1. /\ Files(comp'.ver) \subseteq DOMAIN tables
          /\ comp'.made \subseteq DOMAIN tables
          /\ comp'.made \subseteq pending'
      BY <1>6 DEF LevelInv, Present
    <2>2. comp'.made \subseteq Live(pending', current', comp')
      BY <1>2, <2>1
    <2> QED
      BY <1>2, <1>6, <2>1, <2>2, LiveIsKept
  <1> QED
    BY <1>1, <1>3, <1>4, <1>5, <1>6 DEF Present

LEMMA FlushKeeps ==
  ASSUME LevelInv, FlushInstalled
  PROVE  LevelInv'
  <1>1. /\ edit # NoEdit /\ edit.written /\ edit.kind = "flush" /\ Applied
        /\ imm' = NoMem /\ UNCHANGED <<up, pending, comp, range>> /\ DeleteObsoleteFiles
    BY DEF FlushInstalled, Installs
  <1>2. /\ UNCHANGED <<nextFile, manifest, rd, bgError, flush>>
        /\ seek' = 0 /\ edit' = NoEdit /\ edit'.kind = "none" /\ flush = 0
        /\ InStep'
    BY <1>1, VersionApplied
  <1>3. up = "open"
    BY <1>1 DEF LevelInv, Ended
  <1>4. \/ comp = NoComp /\ EndOfCall
        \/ comp # NoComp /\ UNCHANGED scheduled
    BY DEF FlushInstalled
  <1>5. Formed'
    BY <1>1, <1>2, <1>4 DEF LevelInv, Formed, EndOfCall
  <1>6. Numbered'
    BY <1>1, <1>2 DEF LevelInv, Numbered
  <1>7. Logged'
    BY <1>1, LogsOfDelete DEF LevelInv
  <1>8. Present'
    BY <1>1, <1>3, NeededIsKept
  <1>9. Ended'
    BY <1>1, <1>2, <1>3 DEF Ended
  <1>10. Busy'
    <2>1. CASE comp = NoComp
      BY <1>1, <1>2, <1>4, <2>1 DEF Busy, ToDo, AtWork, EndOfCall, Work
    <2>2. CASE comp # NoComp
      BY <1>1, <1>2, <1>3, <1>4, <2>2 DEF LevelInv, Busy, AtWork
    <2> QED
      BY <2>1, <2>2
  <1> QED
    BY <1>2, <1>5, <1>6, <1>7, <1>8, <1>9, <1>10 DEF LevelInv

LEMMA MoveKeeps ==
  ASSUME LevelInv, MoveInstalled
  PROVE  LevelInv'
  <1>1. /\ edit # NoEdit /\ edit.written /\ edit.kind = "move" /\ Applied /\ EndOfCall
        /\ UNCHANGED <<up, imm, logs, tables, pending, comp, range>>
    BY DEF MoveInstalled, Installs
  <1>2. /\ UNCHANGED <<nextFile, manifest, rd, bgError, flush>>
        /\ seek' = 0 /\ edit' = NoEdit /\ edit'.kind = "none" /\ flush = 0
        /\ Files(current') \subseteq DOMAIN tables
        /\ InStep'
    BY <1>1, VersionApplied
  <1>3. up = "open" /\ comp = NoComp
    BY <1>1 DEF LevelInv, Ended, Busy
  <1>4. Formed' /\ Logged'
    BY <1>1, <1>2 DEF LevelInv, Formed, Logged, EndOfCall
  <1>5. Numbered'
    BY <1>1, <1>2 DEF LevelInv, Numbered
  <1>6. Present'
    BY <1>1, <1>2 DEF LevelInv, Present
  <1>7. Ended'
    BY <1>1, <1>2, <1>3 DEF Ended
  <1>8. Busy'
    BY <1>1, <1>2, <1>3 DEF Busy, ToDo, AtWork, EndOfCall, Work
  <1> QED
    BY <1>2, <1>4, <1>5, <1>6, <1>7, <1>8 DEF LevelInv

LEMMA ResultsKeep ==
  ASSUME LevelInv, CompactionInstalled
  PROVE  LevelInv'
  <1>1. /\ edit # NoEdit /\ edit.written /\ edit.kind = "compact" /\ Applied /\ EndOfCall
        /\ comp' = NoComp /\ UNCHANGED <<up, imm>> /\ DeleteObsoleteFiles
    BY DEF CompactionInstalled, Installs
  <1>2. /\ UNCHANGED <<nextFile, manifest, rd, bgError, flush>>
        /\ seek' = 0 /\ edit' = NoEdit /\ edit'.kind = "none" /\ flush = 0
        /\ InStep'
    BY <1>1, VersionApplied
  <1>3. up = "open"
    BY <1>1 DEF LevelInv, Ended
  <1>4. Formed'
    BY <1>1, <1>2 DEF LevelInv, Formed, EndOfCall
  <1>5. Numbered'
    BY <1>1, <1>2 DEF LevelInv, Numbered
  <1>6. Logged'
    BY <1>1, LogsOfDelete DEF LevelInv
  <1>7. Present'
    BY <1>1, <1>3, NeededIsKept
  <1>8. Ended'
    BY <1>1, <1>2, <1>3 DEF Ended
  <1>9. Busy'
    BY <1>1, <1>2, <1>3 DEF Busy, ToDo, AtWork, EndOfCall, Work
  <1> QED
    BY <1>2, <1>4, <1>5, <1>6, <1>7, <1>8, <1>9 DEF LevelInv

LEMMA CallerGoesOn ==
  ASSUME LevelInv, CompactOn
  PROVE  LevelInv'
  <1>1. UNCHANGED <<up, imm, logs, nextFile, manifest, edit, comp, flush, current, tables, rd,
                    pending, bgError, seek>>
    BY DEF CompactOn, memVars, logVars, setVars, userVars
  <1>2. MaybeSchedule /\ up = "open"
    BY DEF CompactOn, LevelInv, Ended
  <1>3. Formed'
    BY <1>1, <1>2 DEF LevelInv, Formed, MaybeSchedule
  <1>4. Numbered' /\ Logged' /\ Present' /\ InStep' /\ Ended'
    BY <1>1, <1>2 DEF LevelInv, Numbered, Logged, Present, InStep, Ended
  <1>5. Busy'
    BY <1>1, <1>2 DEF LevelInv, Busy, ToDo, AtWork, MaybeSchedule, Work
  <1> QED
    BY <1>3, <1>4, <1>5 DEF LevelInv
-----------------------------------------------------------------------------
(* The process ends, and DB::Open.                                         *)
LEMMA CrashKeeps ==
  ASSUME LevelInv, Crash
  PROVE  LevelInv'
  <1>1. /\ UNCHANGED <<tables, manifest>>
        /\ up' = "down" /\ current' = NoFiles /\ nextFile' = 0 /\ seek' = 0
        /\ rd' = [r \in Readers |-> NoRead]
        /\ bgError' = FALSE /\ scheduled' = FALSE
        /\ flush' = 0 /\ comp' = NoComp /\ edit' = NoEdit /\ edit'.kind = "none"
        /\ range' = NoRange
    BY DEF Crash, NoEdit
  <1>2. Formed'
    BY <1>1 DEF LevelInv, Formed
  <1>3. Numbered'
    BY <1>1 DEF LevelInv, Numbered
  <1>4. Logged'
    <2>1. PICK cut \in [DOMAIN logs -> 0..MaxWrites] :
            /\ \A n \in DOMAIN logs : cut[n] \in logs[n].synced..Len(logs[n].recs)
            /\ logs' = [n \in DOMAIN logs |->
                          [recs |-> SubSeq(logs[n].recs, 1, cut[n]), synced |-> cut[n]]]
      BY DEF Crash
    <2>2. ASSUME NEW n \in DOMAIN logs
          PROVE  /\ {"recs", "synced"} \subseteq DOMAIN logs'[n]
                 /\ logs'[n].synced \in Nat
                 /\ \E S : logs'[n].recs \in Seq(S)
      <3>1. PICK S : logs[n].recs \in Seq(S)
        BY DEF LevelInv, Logged
      <3>2. cut[n] \in Nat /\ cut[n] <= Len(logs[n].recs)
        <4>1. logs[n].synced \in Nat /\ Len(logs[n].recs) \in Nat
          BY <3>1 DEF LevelInv, Logged
        <4> QED
          BY <2>1, <4>1
      <3>3. \A i \in 1..cut[n] : logs[n].recs[i] \in S
        BY <3>1, <3>2
      <3>4. SubSeq(logs[n].recs, 1, cut[n]) \in Seq(S)
        BY <3>2, <3>3, SubSeqProperties
      <3>5. logs'[n] = [recs |-> SubSeq(logs[n].recs, 1, cut[n]), synced |-> cut[n]]
        BY <2>1
      <3>6. DOMAIN logs'[n] = {"recs", "synced"} /\ logs'[n].synced = cut[n]
        BY <3>5
      <3>7. logs'[n].recs = SubSeq(logs[n].recs, 1, cut[n])
        BY <3>5
      <3>8. logs'[n].recs \in Seq(S)
        BY <3>4, <3>7
      <3> QED
        BY <3>2, <3>6, <3>8
    <2>3. DOMAIN logs' = DOMAIN logs
      BY <2>1
    <2> QED
      BY <2>2, <2>3 DEF LevelInv, Logged
  <1>5. Present'
    BY <1>1, FilesOf DEF LevelInv, Present
  <1>6. InStep' /\ Ended' /\ Busy'
    BY <1>1 DEF InStep, Ended, Busy
  <1> QED
    BY <1>2, <1>3, <1>4, <1>5, <1>6 DEF LevelInv

LEMMA RecoverKeeps ==
  ASSUME LevelInv, Recover
  PROVE  LevelInv'
  <1> DEFINE next == Recovered.next
             made == DOMAIN Recovered.tabs
  <1>1. next \in Nat
    BY RecoveredNumber DEF LevelInv, Numbered
  <1>2. /\ up = "down" /\ up' = "opening"
        /\ nextFile' = next + 1
        /\ current' = manifest.files
        /\ UNCHANGED <<imm, manifest, comp, flush, rd, pending, bgError, range, scheduled, seek>>
        /\ DOMAIN tables' = DOMAIN tables \cup made
        /\ edit' = EditOf("open", NoFiles, At(0, made), next)
    BY DEF Recover, userVars
  <1>3. /\ DOMAIN logs' = DOMAIN logs \cup {next}
        /\ \A n \in DOMAIN logs' :
             logs'[n] = IF n = next THEN [recs |-> <<>>, synced |-> 0] ELSE logs[n]
    BY DEF Recover
  <1> HIDE DEF next, made
  <1>4. /\ {"kind", "written", "del", "add", "next"} \subseteq DOMAIN edit'
        /\ edit'.kind = "open" /\ edit'.written = FALSE
        /\ edit'.add = At(0, made) /\ edit'.next = nextFile'
    BY <1>2 DEF EditOf
  <1>5. nextFile' \in Nat
    BY <1>1, <1>2
  <1>6. edit' # NoEdit
    BY <1>4 DEF NoEdit
  <1>7. Formed'
    BY <1>2, <1>4 DEF LevelInv, Formed
  <1>8. Numbered'
    BY <1>2, <1>4, <1>5 DEF LevelInv, Numbered, Ended
  <1>9. Logged'
    <2>1. PICK b \in Nat : DOMAIN logs \subseteq 0..b
      BY DEF LevelInv, Logged
    <2>2. b + next \in Nat /\ DOMAIN logs' \subseteq 0..(b + next)
      BY <1>1, <1>3, <2>1
    <2>3. ASSUME NEW n \in DOMAIN logs'
          PROVE  /\ {"recs", "synced"} \subseteq DOMAIN logs'[n]
                 /\ logs'[n].synced \in Nat
                 /\ \E S : logs'[n].recs \in Seq(S)
      <3>1. CASE n = next
        <4>1. logs'[n] = [recs |-> <<>>, synced |-> 0] /\ <<>> \in Seq({})
          BY <1>3, <3>1
        <4> QED
          BY <4>1
      <3>2. CASE n # next
        BY <1>3, <3>2 DEF LevelInv, Logged
      <3> QED
        BY <3>1, <3>2
    <2> QED
      BY <2>2, <2>3 DEF Logged
  <1>10. Present'
    <2>1. Files(edit'.add) \subseteq DOMAIN tables'
      BY <1>2, <1>4, FilesOf
    <2>2. Files(current') \subseteq DOMAIN tables' /\ Files(manifest'.files) \subseteq DOMAIN tables'
      BY <1>2 DEF LevelInv, Present
    <2>3. comp' = NoComp /\ \A r \in Readers : rd'[r] = NoRead
      BY <1>2 DEF LevelInv, Ended
    <2> QED
      BY <2>1, <2>2, <2>3 DEF Present
  <1>11. InStep'
    BY <1>2, <1>4 DEF InStep
  <1>12. Ended' /\ Busy'
    BY <1>2, <1>4 DEF LevelInv, Ended, Busy
  <1> QED
    BY <1>7, <1>8, <1>9, <1>10, <1>11, <1>12 DEF LevelInv

LEMMA OpenKeeps ==
  ASSUME LevelInv, OpenInstalled
  PROVE  LevelInv'
  <1>1. /\ edit # NoEdit /\ edit.written /\ edit.kind = "open" /\ Applied /\ MaybeSchedule
        /\ up' = "open" /\ UNCHANGED <<imm, pending, comp, range>> /\ DeleteObsoleteFiles
    BY DEF OpenInstalled, Installs
  <1>2. /\ UNCHANGED <<nextFile, manifest, rd, bgError, flush>>
        /\ seek' = 0 /\ edit' = NoEdit /\ edit'.kind = "none" /\ flush = 0
        /\ InStep'
    BY <1>1, VersionApplied
  <1>3. comp = NoComp
    BY <1>1 DEF LevelInv, Ended
  <1>4. Formed'
    BY <1>1, <1>2 DEF LevelInv, Formed, MaybeSchedule
  <1>5. Numbered'
    BY <1>1, <1>2 DEF LevelInv, Numbered
  <1>6. Logged'
    BY <1>1, LogsOfDelete DEF LevelInv
  <1>7. Present'
    BY <1>1, NeededIsKept
  <1>8. Ended'
    BY <1>1, <1>2 DEF Ended
  <1>9. Busy'
    BY <1>1, <1>2, <1>3 DEF Busy, ToDo, AtWork, MaybeSchedule, Work
  <1> QED
    BY <1>2, <1>4, <1>5, <1>6, <1>7, <1>8, <1>9 DEF LevelInv
-----------------------------------------------------------------------------
LEMMA LevelInvariant == Spec => []LevelInv
  <1>1. ASSUME LevelInv, Next
        PROVE  LevelInv'
    <2>1. CASE Calls
      BY <1>1, <2>1, CallsKeep
    <2>2. CASE Foreground
      BY <1>1, <2>2, ForegroundKeeps
    <2>3. CASE Background
      <3>1. CASE BgFlush
        BY <1>1, <3>1, FlushStarts DEF BgFlush, BgCall
      <3>2. CASE FlushFirst
        BY <1>1, <3>2, FlushStarts DEF FlushFirst, Compacting
      <3>3. CASE BgCompaction \/ BgRange \/ BgNothing
        BY <1>1, <3>3, CompactionKeeps, RangeKeeps, NothingToDo
      <3>4. CASE MakeOutput \/ InstallCompactionResults \/ BuildTable \/ WriteManifest
        BY <1>1, <3>4, OutputMade, ResultsInstalled, TableBuilt, ManifestWritten
      <3>5. CASE FlushInstalled \/ MoveInstalled \/ CompactionInstalled \/ CompactOn
        BY <1>1, <3>5, FlushKeeps, MoveKeeps, ResultsKeep, CallerGoesOn
      <3> QED
        BY <2>3, <3>1, <3>2, <3>3, <3>4, <3>5 DEF Background
    <2>4. CASE ManifestFails \/ Crash \/ Recover \/ OpenInstalled
      BY <1>1, <2>4, ManifestInDoubt, CrashKeeps, RecoverKeeps, OpenKeeps
    <2> QED
      BY <1>1, <2>1, <2>2, <2>3, <2>4 DEF Next
  <1>2. ASSUME LevelInv, UNCHANGED vars
        PROVE  LevelInv'
    BY <1>2, Quiet DEF vars, seen, memVars, logVars, setVars, userVars, bgVars
  <1> QED
    BY <1>1, <1>2, InitLevel, PTL DEF Spec

(* No file that a reader, a compaction, the current version or the manifest *)
(* needs is ever removed by DeleteObsoleteFiles, whatever failed before.   *)
THEOREM FilesAreKept == Spec => []LiveFilesExist
  <1>1. LevelInv => LiveFilesExist
    <2> SUFFICES ASSUME Present
                 PROVE  LiveFilesExist
      BY DEF LevelInv
    <2>1. /\ Files(current) \subseteq DOMAIN tables
          /\ \A r \in Readers : rd[r] # NoRead => Files(rd[r].ver) \subseteq DOMAIN tables
          /\ comp # NoComp => Files(comp.ver) \subseteq DOMAIN tables
      BY DEF Present
    <2>2. LiveVersions(pending, current, comp) \subseteq DOMAIN tables
      BY <2>1, OnlyThese
    <2> QED
      BY <2>2 DEF Present, LiveFilesExist
  <1> QED
    BY <1>1, LevelInvariant, PTL

(* The disk holds a finite number of tables, so that the files of level 0  *)
(* can be counted.                                                         *)
Finite == IsFiniteSet(DOMAIN tables)

LEMMA FinitelyMany == Spec => []Finite
  <1>1. Init => Finite
    BY FS_EmptySet DEF Init, Finite
  <1>2. \A f : Finite /\ DOMAIN tables' = DOMAIN tables \cup {f} => Finite'
    BY FS_AddElement DEF Finite
  <1>3. Finite /\ DeleteObsoleteFiles => Finite'
    BY FS_Subset DEF DeleteObsoleteFiles, Finite
  <1>4. Finite /\ UNCHANGED tables => Finite'
    BY DEF Finite
  <1>5. ASSUME LevelInv, Finite, Next
        PROVE  Finite'
    <2>1. CASE Calls
      BY <1>4, <1>5, <2>1
         DEF Calls, Write, GetSnapshot, ReleaseSnapshot, Capture, Release, CompactLevel
    <2>2. CASE Foreground
      BY <1>4, <1>5, <2>2
         DEF Foreground, WriteRefused, WriteStarts, WriteSwitches, AppendRecord, SyncLog,
             InsertInto, WriteReturns
    <2>3. CASE Background
      <3>1. CASE BgFlush \/ FlushFirst
        BY <1>4, <1>5, <3>1 DEF BgFlush, FlushFirst, StartFlush
      <3>2. CASE BgCompaction \/ BgRange \/ BgNothing
        BY <1>4, <1>5, <3>2 DEF BgCompaction, BgRange, BgNothing, StartCompaction
      <3>3. CASE MakeOutput
        BY <1>2, <1>4, <1>5, <3>3 DEF MakeOutput
      <3>4. CASE BuildTable
        BY <1>2, <1>4, <1>5, <3>4 DEF BuildTable
      <3>5. CASE InstallCompactionResults \/ WriteManifest \/ MoveInstalled \/ CompactOn
        BY <1>4, <1>5, <3>5 DEF InstallCompactionResults, WriteManifest, MoveInstalled, CompactOn
      <3>6. CASE FlushInstalled \/ CompactionInstalled
        BY <1>3, <1>5, <3>6 DEF FlushInstalled, CompactionInstalled
      <3> QED
        BY <2>3, <3>1, <3>2, <3>3, <3>4, <3>5, <3>6 DEF Background
    <2>4. CASE ManifestFails \/ Crash
      BY <1>4, <1>5, <2>4 DEF ManifestFails, Crash
    <2>5. CASE Recover
      <3>1. IsFiniteSet(DOMAIN Recovered.tabs)
        BY <1>5, RecoveredNumber DEF LevelInv, Numbered
      <3>2. DOMAIN tables' = DOMAIN tables \cup DOMAIN Recovered.tabs
        BY <2>5 DEF Recover
      <3> QED
        BY <1>5, <3>1, <3>2, FS_Union DEF Finite
    <2>6. CASE OpenInstalled
      BY <1>3, <1>5, <2>6 DEF OpenInstalled
    <2> QED
      BY <1>5, <2>1, <2>2, <2>3, <2>4, <2>5, <2>6 DEF Next
  <1>6. Finite /\ UNCHANGED vars => Finite'
    BY <1>4 DEF vars
  <1> QED
    BY <1>1, <1>5, <1>6, LevelInvariant, PTL DEF Spec

(* MaybeScheduleCompaction is called wherever it has to be: who waits for  *)
(* room or for a manual compaction waits for a thread on its way.          *)
THEOREM NobodyForgotten == Spec => []WaitersAreServed
  <1>1. LevelInv /\ Finite => WaitersAreServed
    <2> SUFFICES ASSUME LevelInv, Finite, up = "open", ~bgError
                 PROVE  /\ InFront /\ Full /\ ~HasRoom => scheduled
                        /\ Ranging(range) => scheduled
      BY DEF WaitersAreServed
    <2>1. ToDo => scheduled
      BY DEF LevelInv, Busy
    <2>2. ASSUME ~HasRoom, imm = NoMem
          PROVE  TooBig(tables, current)
      <3>1. ~(Cardinality(current[0]) < L0Stop)
        BY <2>2 DEF HasRoom
      <3>2. 0 \in Level /\ 0 \in 0..(NumLevels - 2)
        BY LevelsAssumption DEF Level
      <3>3. current[0] \subseteq DOMAIN tables
        BY <3>2 DEF LevelInv, Present, Files
      <3>4. Cardinality(current[0]) \in Nat
        BY <3>3, FS_Subset, FS_CardinalityType DEF Finite
      <3>5. Cardinality(current[0]) >= L0Trigger
        BY <3>1, <3>4, TriggersAssumption, SizesAssumption, LimitsAssumption
      <3>6. Score(tables, current, 0)[1] >= Score(tables, current, 0)[2]
        BY <3>5 DEF Score
      <3> QED
        BY <3>2, <3>6 DEF TooBig
    <2> QED
      BY <2>1, <2>2 DEF ToDo, HasRoom
  <1> QED
    BY <1>1, LevelInvariant, FinitelyMany, PTL
-----------------------------------------------------------------------------
(* File numbers: those in use are below the next one, also of the process  *)
(* that would start from the manifest, and no file is in two levels.       *)
Below(fs, n) == \A f \in fs : f \in Nat /\ f < n
Apart(v) == \A l, m \in Level : l # m => v[l] \cap v[m] = {}

InUseBelow(n) ==
  /\ Below(Files(current), n)
  /\ \A r \in Readers : rd[r] # NoRead => Below(Files(rd[r].ver), n)
  /\ comp # NoComp => Below(Files(comp.ver), n)
Unused(n) ==
  /\ n \notin Files(current) /\ n \notin Files(manifest.files)
  /\ \A r \in Readers : rd[r] # NoRead => n \notin Files(rd[r].ver)
  /\ comp # NoComp => n \notin Files(comp.ver)

(* The numbers given out.                                                  *)
GivenOut ==
  /\ Below(Files(manifest.files), manifest.next)
  /\ up = "down" => current = NoFiles
  /\ up # "down" => manifest.next <= nextFile
  /\ InUseBelow(nextFile)
  /\ flush # 0 => flush \in Nat /\ flush < nextFile /\ Unused(flush)
  /\ edit # NoEdit => /\ manifest.next <= edit.next /\ edit.next <= nextFile
                      /\ Below(Files(edit.add), edit.next)
  /\ comp # NoComp =>
       /\ comp.made \cap Files(current) = {}
       /\ edit.kind # "compact" => comp.made \cap Files(manifest.files) = {}
       /\ edit # NoEdit /\ edit.kind # "compact" => comp.made \cap Files(edit.add) = {}

(* One level for each file, now and when the edit is applied.              *)
OneLevel ==
  /\ Apart(current) /\ Apart(manifest.files)
  /\ edit # NoEdit => /\ Apart(Apply(current, edit))
                      /\ ~edit.written => Apart(Apply(manifest.files, edit))

NumberInv == LevelInv /\ GivenOut /\ OneLevel
-----------------------------------------------------------------------------
LEMMA MoreBelow ==
  ASSUME NEW fs, NEW m \in Nat, NEW n \in Nat, Below(fs, m), m <= n
  PROVE  Below(fs, n)
  BY DEF Below

LEMMA BelowIsUnused ==
  ASSUME GivenOut, LevelInv, up # "down"
  PROVE  Unused(nextFile)
  <1>1. nextFile \in Nat /\ manifest.next \in Nat /\ manifest.next <= nextFile
    BY DEF LevelInv, Numbered, GivenOut
  <1>2. Below(Files(manifest.files), nextFile)
    BY <1>1 DEF GivenOut, Below
  <1> QED
    BY <1>1, <1>2 DEF GivenOut, InUseBelow, Unused, Below

(* New files go where none is, and a moved file leaves its level.          *)
LEMMA ApartWithNew ==
  ASSUME NEW v, NEW e, NEW l, NEW fs, Apart(v), e.add = At(l, fs), fs \cap Files(v) = {}
  PROVE  Apart(Apply(v, e))
  <1> SUFFICES ASSUME NEW a \in Level, NEW b \in Level, a # b, NEW f,
                      f \in Apply(v, e)[a], f \in Apply(v, e)[b]
               PROVE  FALSE
    BY DEF Apart
  <1>1. \A m \in Level : Apply(v, e)[m] = (v[m] \ e.del[m]) \cup e.add[m]
    BY DEF Apply
  <1>2. \A m \in Level : m # l => e.add[m] = {}
    BY DEF At, NoFiles
  <1>3. \A m \in Level : e.add[m] \subseteq fs
    BY DEF At, NoFiles
  <1>4. \A m \in Level : v[m] \subseteq Files(v)
    BY DEF Files
  <1>5. ~(f \in v[a] /\ f \in v[b])
    BY DEF Apart
  <1> QED
    BY <1>1, <1>2, <1>3, <1>4, <1>5

LEMMA ApartWithMoved ==
  ASSUME NEW v, NEW e, NEW l, NEW k \in Level, NEW fs, Apart(v),
         e.add = At(l, fs), e.del[k] = fs, fs \subseteq v[k]
  PROVE  Apart(Apply(v, e))
  <1> SUFFICES ASSUME NEW a \in Level, NEW b \in Level, a # b, NEW f,
                      f \in Apply(v, e)[a], f \in Apply(v, e)[b]
               PROVE  FALSE
    BY DEF Apart
  <1>1. \A m \in Level : Apply(v, e)[m] = (v[m] \ e.del[m]) \cup e.add[m]
    BY DEF Apply
  <1>2. \A m \in Level : m # l => e.add[m] = {}
    BY DEF At, NoFiles
  <1>3. \A m \in Level : e.add[m] \subseteq fs
    BY DEF At, NoFiles
  <1>4. \A m \in Level : m # k => fs \cap v[m] = {}
    BY DEF Apart
  <1>5. ~(f \in v[a] /\ f \in v[b])
    BY DEF Apart
  <1> QED
    BY <1>1, <1>2, <1>3, <1>4, <1>5

LEMMA ApartNone == Apart(NoFiles) /\ \A v, e : e.add = NoFiles /\ Apart(v) => Apart(Apply(v, e))
  <1>1. Apart(NoFiles)
    BY DEF Apart, NoFiles
  <1>2. ASSUME NEW v, NEW e, e.add = NoFiles, Apart(v)
        PROVE  Apart(Apply(v, e))
    <2>1. \A m \in Level : e.add[m] = {}
      BY <1>2 DEF NoFiles
    <2> QED
      BY <1>2, <2>1 DEF Apart, Apply
  <1> QED
    BY <1>1, <1>2
-----------------------------------------------------------------------------
numbers == <<up, nextFile, manifest, edit, comp, flush, current, rd>>

LEMMA NumbersQuiet == GivenOut /\ OneLevel /\ UNCHANGED numbers => GivenOut' /\ OneLevel'
  <1> SUFFICES ASSUME GivenOut, OneLevel, UNCHANGED numbers
               PROVE  GivenOut' /\ OneLevel'
    OBVIOUS
  <1> USE DEF numbers
  <1>1. InUseBelow(nextFile)' /\ (Unused(flush) => Unused(flush)')
    BY DEF GivenOut, InUseBelow, Unused
  <1>2. GivenOut'
    BY <1>1 DEF GivenOut
  <1>3. OneLevel'
    BY DEF OneLevel, Apply
  <1> QED
    BY <1>2, <1>3

LEMMA InitNumbers == Init => GivenOut /\ OneLevel
  <1> SUFFICES ASSUME Init
               PROVE  GivenOut /\ OneLevel
    OBVIOUS
  <1> USE DEF Init
  <1>1. edit = NoEdit /\ Files(current) = {} /\ Files(manifest.files) = {}
    BY FilesOf
  <1>2. GivenOut
    BY <1>1 DEF GivenOut, InUseBelow, Below
  <1>3. OneLevel
    BY <1>1, ApartNone DEF OneLevel
  <1> QED
    BY <1>2, <1>3

(* Readers look at the current version, and then at none.                  *)
LEMMA ReadersKeep ==
  ASSUME NumberInv,
         UNCHANGED <<up, nextFile, manifest, edit, comp, flush, current>>,
         \A r \in Readers : rd'[r] # NoRead =>
           rd'[r].ver = current \/ (rd[r] # NoRead /\ rd'[r].ver = rd[r].ver)
  PROVE  GivenOut' /\ OneLevel'
  <1>1. InUseBelow(nextFile)' /\ (Unused(flush) => Unused(flush)')
    BY DEF NumberInv, GivenOut, InUseBelow, Unused
  <1>2. GivenOut'
    BY <1>1 DEF NumberInv, GivenOut
  <1>3. OneLevel'
    BY DEF NumberInv, OneLevel, Apply
  <1> QED
    BY <1>2, <1>3

LEMMA CallsNumber ==
  ASSUME NumberInv, Calls
  PROVE  GivenOut' /\ OneLevel'
  <1> USE DEF memVars, logVars, setVars, userVars, bgVars, history
  <1>1. CASE \E w \in Writers : Write(w)
    BY <1>1, NumbersQuiet DEF Write, numbers, NumberInv
  <1>2. CASE \E r \in Readers : GetSnapshot(r) \/ ReleaseSnapshot(r)
    BY <1>2, NumbersQuiet DEF GetSnapshot, ReleaseSnapshot, numbers, NumberInv
  <1>3. CASE \E r \in Readers : Capture(r)
    <2>1. PICK r \in Readers : Capture(r)
      BY <1>3
    <2>2. \E n, m, i, l :
            rd' = [rd EXCEPT ![r] = [n |-> n, log |-> l, mem |-> m, imm |-> i,
                                     ver |-> current]]
      BY <2>1 DEF Capture
    <2>3. UNCHANGED <<up, nextFile, manifest, edit, comp, flush, current>>
      BY <2>1 DEF Capture
    <2>4. \A x \in Readers : rd'[x] # NoRead =>
            rd'[x].ver = current \/ (rd[x] # NoRead /\ rd'[x].ver = rd[x].ver)
      BY <2>2 DEF NumberInv, LevelInv, Formed
    <2> QED
      BY <2>3, <2>4, ReadersKeep
  <1>4. CASE \E r \in Readers : Release(r)
    <2>1. PICK r \in Readers : Release(r)
      BY <1>4
    <2>2. rd' = [rd EXCEPT ![r] = NoRead]
      BY <2>1 DEF Release
    <2>3. UNCHANGED <<up, nextFile, manifest, edit, comp, flush, current>>
      BY <2>1 DEF Release
    <2>4. \A x \in Readers : rd'[x] # NoRead => rd[x] # NoRead /\ rd'[x].ver = rd[x].ver
      BY <2>2 DEF NumberInv, LevelInv, Formed
    <2> QED
      BY <2>3, <2>4, ReadersKeep
  <1>5. CASE \E l \in 0..(NumLevels - 2) : CompactLevel(l)
    BY <1>5, NumbersQuiet DEF CompactLevel, numbers, NumberInv
  <1> QED
    BY <1>1, <1>2, <1>3, <1>4, <1>5 DEF Calls

(* Numbers are only added.                                                 *)
LEMMA NextNumber ==
  ASSUME NumberInv, nextFile' = nextFile + 1,
         UNCHANGED <<up, manifest, edit, comp, flush, current, rd>>
  PROVE  GivenOut' /\ OneLevel'
  <1>1. nextFile \in Nat /\ manifest.next \in Nat /\ (edit # NoEdit => edit.next \in Nat)
    BY DEF NumberInv, LevelInv, Numbered
  <1>2. \A fs : Below(fs, nextFile) => Below(fs, nextFile')
    BY <1>1 DEF Below
  <1>3. InUseBelow(nextFile)' /\ (Unused(flush) => Unused(flush)')
    BY <1>2 DEF NumberInv, GivenOut, InUseBelow, Unused
  <1>4. GivenOut'
    BY <1>1, <1>3 DEF NumberInv, GivenOut
  <1>5. OneLevel'
    BY DEF NumberInv, OneLevel, Apply
  <1> QED
    BY <1>4, <1>5

LEMMA ForegroundNumbers ==
  ASSUME NumberInv, Foreground
  PROVE  GivenOut' /\ OneLevel'
  <1> USE DEF memVars, logVars, setVars, userVars, bgVars, history
  <1>1. CASE WriteRefused \/ WriteStarts \/ AppendRecord \/ SyncLog \/ WriteReturns
    BY <1>1, NumbersQuiet
       DEF WriteRefused, WriteStarts, AppendRecord, SyncLog, WriteReturns, numbers, NumberInv
  <1>2. CASE WriteSwitches
    BY <1>2, NextNumber DEF WriteSwitches, Switch
  <1>3. CASE InsertInto
    <2>1. UNCHANGED <<up, nextFile, manifest, edit, comp, flush, current>>
      BY <1>3 DEF InsertInto
    <2>2. rd' = [r \in Readers |->
                   IF rd[r] # NoRead /\ rd[r].log = logNo THEN [rd[r] EXCEPT !.mem = mem']
                   ELSE rd[r]]
      BY <1>3 DEF InsertInto
    <2>3. \A r \in Readers : rd'[r] # NoRead => rd[r] # NoRead /\ rd'[r].ver = rd[r].ver
      BY <2>2 DEF NumberInv, LevelInv, Formed
    <2> QED
      BY <2>1, <2>3, ReadersKeep
  <1> QED
    BY <1>1, <1>2, <1>3 DEF Foreground
-----------------------------------------------------------------------------
(* The background thread.                                                  *)
LEMMA FlushNumbered ==
  ASSUME NumberInv, StartFlush, up # "down"
  PROVE  GivenOut' /\ OneLevel'
  <1>1. UNCHANGED <<up, manifest, edit, comp, current, rd>> /\ edit = NoEdit
    BY DEF StartFlush, Resting, memVars, logVars, userVars
  <1>2. flush' = nextFile /\ nextFile' = nextFile + 1
    BY DEF StartFlush
  <1>3. nextFile \in Nat /\ manifest.next \in Nat
    BY DEF NumberInv, LevelInv, Numbered
  <1>4. \A fs : Below(fs, nextFile) => Below(fs, nextFile')
    BY <1>2, <1>3 DEF Below
  <1>5. InUseBelow(nextFile)'
    BY <1>1, <1>4 DEF NumberInv, GivenOut, InUseBelow
  <1>6. Unused(flush)'
    <2>1. Unused(nextFile)
      BY BelowIsUnused DEF NumberInv
    <2> QED
      BY <1>1, <1>2, <2>1 DEF Unused
  <1>7. GivenOut'
    BY <1>1, <1>2, <1>3, <1>5, <1>6 DEF NumberInv, GivenOut
  <1>8. OneLevel'
    BY <1>1 DEF NumberInv, OneLevel
  <1> QED
    BY <1>7, <1>8

LEMMA TableNumbered ==
  ASSUME NumberInv, BuildTable
  PROVE  GivenOut' /\ OneLevel'
  <1>1. UNCHANGED <<up, nextFile, manifest, comp, current, rd>>
    BY DEF BuildTable, memVars, logVars, userVars
  <1>2. flush # 0 /\ flush' = 0 /\ edit = NoEdit /\ up # "down"
    BY DEF BuildTable, NumberInv, LevelInv, Busy, Ended
  <1>3. InUseBelow(nextFile)'
    BY <1>1 DEF NumberInv, GivenOut, InUseBelow
  <1>4. CASE UNCHANGED edit
    <2>1. GivenOut'
      BY <1>1, <1>2, <1>3, <1>4 DEF NumberInv, GivenOut
    <2>2. OneLevel'
      BY <1>1, <1>2, <1>4 DEF NumberInv, OneLevel
    <2> QED
      BY <2>1, <2>2
  <1>5. CASE \E l, d, a, s, p, g :
               /\ a = NoFiles \/ a = At(l, {flush})
               /\ edit' = [kind |-> "flush", written |-> FALSE, del |-> d, add |-> a,
                           log |-> g, next |-> nextFile', seq |-> s, pointer |-> p]
    <2>1. PICK l, d, a, s, p, g :
               /\ a = NoFiles \/ a = At(l, {flush})
               /\ edit' = [kind |-> "flush", written |-> FALSE, del |-> d, add |-> a,
                           log |-> g, next |-> nextFile', seq |-> s, pointer |-> p]
      BY <1>5
    <2>2. edit'.kind = "flush" /\ ~edit'.written /\ edit'.add = a /\ edit'.next = nextFile'
      BY <2>1
    <2>3. Files(a) \subseteq {flush}
      BY <2>1, FilesOf
    <2>4. /\ flush \in Nat /\ flush < nextFile /\ flush \notin Files(current)
          /\ flush \notin Files(manifest.files)
      BY <1>2 DEF NumberInv, GivenOut, Unused
    <2>5. comp # NoComp => flush \notin comp.made
      BY <1>2 DEF NumberInv, LevelInv, Numbered
    <2>6. Below(Files(a), nextFile)
      BY <2>3, <2>4 DEF Below
    <2>7. GivenOut'
      <3>1. nextFile \in Nat
        BY DEF NumberInv, LevelInv, Numbered
      <3>2. comp # NoComp => /\ comp.made \cap Files(current) = {}
                             /\ comp.made \cap Files(manifest.files) = {}
        BY <1>2 DEF NumberInv, GivenOut, NoEdit
      <3> QED
        BY <1>1, <1>2, <1>3, <2>2, <2>3, <2>5, <2>6, <3>1, <3>2 DEF NumberInv, GivenOut
    <2>8. OneLevel'
      <3>1. Apart(current) /\ Apart(manifest.files)
        BY DEF NumberInv, OneLevel
      <3>2. CASE a = NoFiles
        <4>1. Apart(Apply(current, edit')) /\ Apart(Apply(manifest.files, edit'))
          BY <2>2, <3>1, <3>2, ApartNone
        <4> QED
          BY <1>1, <3>1, <4>1 DEF OneLevel
      <3>3. CASE a = At(l, {flush})
        <4>1. {flush} \cap Files(current) = {} /\ {flush} \cap Files(manifest.files) = {}
          BY <2>4
        <4>2. Apart(Apply(current, edit')) /\ Apart(Apply(manifest.files, edit'))
          BY <2>2, <3>1, <3>3, <4>1, ApartWithNew
        <4> QED
          BY <1>1, <3>1, <4>2 DEF OneLevel
      <3> QED
        BY <2>1, <3>2, <3>3
    <2> QED
      BY <2>7, <2>8
  <1>6. ASSUME ~UNCHANGED edit
        PROVE  \E l, d, a, s, p, g :
               /\ a = NoFiles \/ a = At(l, {flush})
               /\ edit' = [kind |-> "flush", written |-> FALSE, del |-> d, add |-> a,
                           log |-> g, next |-> nextFile', seq |-> s, pointer |-> p]
    BY <1>6 DEF BuildTable, EditOf
  <1> QED
    BY <1>4, <1>5, <1>6

LEMMA CompactionNumbers ==
  ASSUME NumberInv, BgCall, NEW c, NEW isManual \in BOOLEAN, StartCompaction(c, isManual),
         ~isManual => c.level \in Level /\ c.in0 \subseteq current[c.level] /\ ~bgError
  PROVE  GivenOut' /\ OneLevel'
  <1>1. UNCHANGED <<up, nextFile, manifest, flush, current, rd>>
    BY DEF StartCompaction, memVars, logVars, userVars
  <1>2. /\ up = "open" /\ comp = NoComp /\ flush = 0 /\ edit = NoEdit
        /\ manifest.next <= nextFile /\ nextFile \in Nat
    BY DEF BgCall, Resting, NumberInv, GivenOut, LevelInv, Numbered
  <1>3. CASE /\ ~isManual /\ UNCHANGED comp
             /\ edit' = EditOf("move", Consumed(c), At(c.level + 1, c.in0), minLog)
    <2>1. /\ edit'.kind = "move" /\ ~edit'.written /\ edit'.next = nextFile'
          /\ edit'.add = At(c.level + 1, c.in0) /\ edit'.del = Consumed(c)
      BY <1>3 DEF EditOf
    <2>2. Files(edit'.add) \subseteq Files(current)
      BY <1>3, <2>1, FilesOf DEF Files
    <2>3. manifest.files = current
      BY <1>2, <1>3 DEF NumberInv, LevelInv, InStep
    <2>4. Apart(Apply(current, edit'))
      <3> DEFINE k == c.level
                 l == c.level + 1
                 fs == c.in0
      <3>1. k \in Level /\ l # k
        BY <1>3, LevelsAssumption DEF Level
      <3>2. edit'.del[k] = fs
        BY <2>1, <3>1 DEF Consumed, NoFiles
      <3>3. fs \subseteq current[k] /\ edit'.add = At(l, fs) /\ Apart(current)
        BY <1>3, <2>1 DEF NumberInv, OneLevel
      <3> HIDE DEF k, l, fs
      <3> QED
        BY <3>1, <3>2, <3>3, ApartWithMoved
    <2>5. GivenOut'
      <3>1. InUseBelow(nextFile)'
        BY <1>1, <1>3 DEF NumberInv, GivenOut, InUseBelow
      <3>2. Below(Files(edit'.add), nextFile)
        BY <2>2 DEF NumberInv, GivenOut, InUseBelow, Below
      <3> QED
        BY <1>1, <1>2, <1>3, <2>1, <3>1, <3>2 DEF NumberInv, GivenOut
    <2>6. OneLevel'
      BY <1>1, <2>3, <2>4 DEF NumberInv, OneLevel
    <2> QED
      BY <2>5, <2>6
  <1>4. CASE /\ UNCHANGED edit
             /\ comp' = [c |-> c, ver |-> current, made |-> {}, manual |-> isManual,
                         outs |-> Outputs(tables, current, c, Oldest)]
    <2>1. comp'.ver = current /\ comp'.made = {}
      BY <1>4
    <2>2. InUseBelow(nextFile)'
      BY <1>1, <2>1 DEF NumberInv, GivenOut, InUseBelow
    <2>3. GivenOut'
      BY <1>1, <1>2, <1>4, <2>1, <2>2 DEF NumberInv, GivenOut
    <2>4. OneLevel'
      BY <1>1, <1>2, <1>4 DEF NumberInv, OneLevel
    <2> QED
      BY <2>3, <2>4
  <1> QED
    BY <1>3, <1>4 DEF StartCompaction

LEMMA PickedNumbers ==
  ASSUME NumberInv, BgCompaction
  PROVE  GivenOut' /\ OneLevel'
  <1>1. BgCall /\ ~bgError
    BY DEF BgCompaction
  <1>2. \E l \in Level : \E f \in current[l] :
          StartCompaction(Picked(tables, current, l, f), FALSE)
    <2>1. \A l \in 0..(NumLevels - 2) : l \in Level
      BY LevelsAssumption DEF Level
    <2>2. \A l \in Level : NextFile(tables, current[l], pointer[l]) \subseteq current[l]
      BY DEF NextFile
    <2> QED
      BY <2>1, <2>2 DEF BgCompaction
  <1>3. PICK l \in Level : \E f \in current[l] :
          StartCompaction(Picked(tables, current, l, f), FALSE)
    BY <1>2
  <1>4. PICK f \in current[l] : StartCompaction(Picked(tables, current, l, f), FALSE)
    BY <1>3
  <1> DEFINE c == Picked(tables, current, l, f)
  <1>5. c.level \in Level /\ c.in0 \subseteq current[c.level]
    BY PickedFiles
  <1>6. StartCompaction(c, FALSE)
    BY <1>4
  <1> HIDE DEF c
  <1> QED
    BY <1>1, <1>5, <1>6, CompactionNumbers

LEMMA RangeNumbers ==
  ASSUME NumberInv, BgRange
  PROVE  GivenOut' /\ OneLevel'
  <1>1. CASE StartCompaction(Ranged(tables, current, range.level, range.begin), TRUE)
    BY <1>1, CompactionNumbers DEF BgRange
  <1>2. CASE UNCHANGED <<up, memVars, logVars, tables, setVars, queue, group, userVars,
                         pending, bgError, flush, comp, edit, history, count>>
    BY <1>2, NumbersQuiet DEF numbers, NumberInv, setVars, userVars
  <1> QED
    BY <1>1, <1>2 DEF BgRange

(* A compaction that is given up is no longer one.                         *)
LEMMA GivenUp ==
  ASSUME NumberInv, UNCHANGED <<up, current, rd>>, comp' = NoComp \/ UNCHANGED comp,
         UNCHANGED <<manifest, nextFile, flush, edit>>
  PROVE  GivenOut' /\ OneLevel'
  <1>1. InUseBelow(nextFile)' /\ (Unused(flush) => Unused(flush)')
    BY DEF NumberInv, GivenOut, InUseBelow, Unused
  <1>2. GivenOut'
    BY <1>1 DEF NumberInv, GivenOut
  <1>3. OneLevel'
    BY DEF NumberInv, OneLevel, Apply
  <1> QED
    BY <1>2, <1>3

LEMMA OutputNumbered ==
  ASSUME NumberInv, MakeOutput
  PROVE  GivenOut' /\ OneLevel'
  <1>1. /\ UNCHANGED <<up, manifest, edit, flush, current, rd>>
        /\ nextFile' = nextFile + 1
    BY DEF MakeOutput, memVars, logVars, userVars
  <1>2. comp # NoComp /\ flush = 0 /\ edit = NoEdit /\ edit.kind = "none" /\ up = "open"
    BY DEF MakeOutput, Compacting, Resting, NumberInv, LevelInv, Ended, NoEdit
  <1>3. nextFile \in Nat /\ manifest.next \in Nat /\ manifest.next <= nextFile
    BY <1>2 DEF NumberInv, LevelInv, Numbered, GivenOut
  <1>4. \A fs : Below(fs, nextFile) => Below(fs, nextFile')
    BY <1>1, <1>3 DEF Below
  <1>5. Unused(nextFile)
    BY <1>2, BelowIsUnused DEF NumberInv
  <1>6. CASE comp' = [comp EXCEPT !.made = @ \cup {nextFile}, !.outs = Tail(@)]
    <2>1. comp'.ver = comp.ver /\ comp'.made = comp.made \cup {nextFile}
      BY <1>2, <1>6 DEF NumberInv, LevelInv, Formed
    <2>2. InUseBelow(nextFile)'
      BY <1>1, <1>2, <1>4, <2>1 DEF NumberInv, GivenOut, InUseBelow
    <2>3. GivenOut'
      BY <1>1, <1>2, <1>3, <1>5, <2>1, <2>2 DEF NumberInv, GivenOut, Unused
    <2> QED
      BY <1>1, <1>2, <2>3 DEF NumberInv, OneLevel
  <1>7. CASE Abandon
    <2>1. comp' = NoComp
      BY <1>7 DEF Abandon
    <2>2. InUseBelow(nextFile)'
      BY <1>1, <1>4, <2>1 DEF NumberInv, GivenOut, InUseBelow
    <2>3. GivenOut'
      BY <1>1, <1>2, <1>3, <2>1, <2>2 DEF NumberInv, GivenOut
    <2> QED
      BY <1>1, <1>2, <2>3 DEF NumberInv, OneLevel
  <1> QED
    BY <1>6, <1>7 DEF MakeOutput

LEMMA ResultsNumbered ==
  ASSUME NumberInv, InstallCompactionResults
  PROVE  GivenOut' /\ OneLevel'
  <1>1. UNCHANGED <<up, nextFile, manifest, comp, flush, current, rd>>
    BY DEF InstallCompactionResults, setVars, userVars
  <1>2. comp # NoComp /\ flush = 0 /\ edit = NoEdit /\ edit.kind = "none" /\ up = "open"
    BY DEF InstallCompactionResults, Compacting, Resting, NumberInv, LevelInv, Ended, NoEdit
  <1>3. /\ edit'.kind = "compact" /\ ~edit'.written /\ edit'.next = nextFile'
        /\ edit'.add = At(comp.c.level + 1, comp.made)
    BY DEF InstallCompactionResults, EditOf
  <1>4. Files(edit'.add) \subseteq comp.made
    BY <1>3, FilesOf
  <1>5. /\ Below(comp.made, nextFile) /\ nextFile \in Nat /\ manifest.next <= nextFile
        /\ comp.made \cap Files(current) = {} /\ comp.made \cap Files(manifest.files) = {}
    BY <1>2 DEF NumberInv, LevelInv, Numbered, GivenOut, Below
  <1>6. InUseBelow(nextFile)'
    BY <1>1 DEF NumberInv, GivenOut, InUseBelow
  <1>7. GivenOut'
    <2>1. Below(Files(edit'.add), nextFile)
      BY <1>4, <1>5 DEF Below
    <2> QED
      BY <1>1, <1>2, <1>3, <1>5, <1>6, <2>1 DEF NumberInv, GivenOut
  <1>8. OneLevel'
    <2>1. Apart(current) /\ Apart(manifest.files)
      BY DEF NumberInv, OneLevel
    <2>2. Apart(Apply(current, edit')) /\ Apart(Apply(manifest.files, edit'))
      BY <1>3, <1>5, <2>1, ApartWithNew
    <2> QED
      BY <1>1, <2>1, <2>2 DEF OneLevel
  <1> QED
    BY <1>7, <1>8

(* The record that goes to the manifest.                                   *)
LEMMA RecordNumbered ==
  ASSUME NumberInv, edit # NoEdit, ~edit.written
  PROVE  /\ Below(Files(Recorded.files), Recorded.next) /\ Recorded.next = edit.next
         /\ Apart(Recorded.files)
         /\ comp # NoComp /\ edit.kind # "compact" => comp.made \cap Files(Recorded.files) = {}
  <1>1. /\ Recorded.files = Apply(manifest.files, edit) /\ Recorded.next = edit.next
        /\ manifest.next \in Nat /\ edit.next \in Nat /\ manifest.next <= edit.next
    BY DEF Recorded, NumberInv, LevelInv, Numbered, GivenOut
  <1>2. Files(Recorded.files) \subseteq Files(manifest.files) \cup Files(edit.add)
    BY <1>1, FilesOf
  <1>3. Below(Files(manifest.files), edit.next) /\ Below(Files(edit.add), edit.next)
    BY <1>1 DEF NumberInv, GivenOut, Below
  <1> QED
    BY <1>1, <1>2, <1>3 DEF NumberInv, GivenOut, OneLevel, Below

LEMMA ManifestNumbered ==
  ASSUME NumberInv, WriteManifest
  PROVE  GivenOut' /\ OneLevel'
  <1>1. UNCHANGED <<up, nextFile, comp, flush, current, rd>>
    BY DEF WriteManifest, userVars
  <1>2. edit # NoEdit /\ ~edit.written /\ flush = 0 /\ up # "down"
    BY DEF WriteManifest, NumberInv, LevelInv, Busy, Ended
  <1>3. /\ edit'.kind = edit.kind /\ edit'.written = TRUE /\ edit' # NoEdit
        /\ edit'.add = edit.add /\ edit'.del = edit.del /\ edit'.next = edit.next
    BY <1>2 DEF WriteManifest, NumberInv, LevelInv, Formed, NoEdit
  <1>4. manifest' = manifest \/ manifest' = Recorded
    BY DEF WriteManifest
  <1>5. Apply(current', edit') = Apply(current, edit)
    BY <1>1, <1>3 DEF Apply
  <1>6. InUseBelow(nextFile)'
    BY <1>1 DEF NumberInv, GivenOut, InUseBelow
  <1>7. GivenOut'
    <2>1. CASE manifest' = manifest
      BY <1>1, <1>2, <1>3, <1>6, <2>1 DEF NumberInv, GivenOut
    <2>2. CASE manifest' = Recorded
      <3>1. /\ Below(Files(manifest'.files), manifest'.next) /\ manifest'.next = edit.next
            /\ comp # NoComp /\ edit.kind # "compact" =>
                 comp.made \cap Files(manifest'.files) = {}
        BY <1>2, <2>2, RecordNumbered
      <3>2. edit.next \in Nat /\ nextFile \in Nat
        BY <1>2 DEF NumberInv, LevelInv, Numbered
      <3> QED
        BY <1>1, <1>2, <1>3, <1>6, <3>1, <3>2 DEF NumberInv, GivenOut
    <2> QED
      BY <1>4, <2>1, <2>2
  <1>8. OneLevel'
    <2>1. Apart(manifest'.files)
      BY <1>2, <1>4, RecordNumbered DEF NumberInv, OneLevel
    <2> QED
      BY <1>1, <1>2, <1>3, <1>5, <2>1 DEF NumberInv, OneLevel
  <1> QED
    BY <1>7, <1>8

LEMMA DoubtNumbered ==
  ASSUME NumberInv, ManifestFails
  PROVE  GivenOut' /\ OneLevel'
  <1>1. UNCHANGED <<up, nextFile, flush, current, rd>>
    BY DEF ManifestFails, userVars
  <1>2. /\ edit # NoEdit /\ ~edit.written /\ up = "open" /\ flush = 0
        /\ edit' = NoEdit /\ edit'.kind = "none"
    BY DEF ManifestFails, NoEdit, NumberInv, LevelInv, Busy
  <1>3. \/ manifest'.files = manifest.files /\ manifest'.next = manifest.next
        \/ manifest' = Recorded
    BY DEF ManifestFails, NumberInv, LevelInv, Formed
  <1>4. comp' = NoComp \/ (UNCHANGED comp /\ edit.kind # "compact")
    BY DEF ManifestFails, Abandon
  <1>5. InUseBelow(nextFile)'
    BY <1>1, <1>4 DEF NumberInv, GivenOut, InUseBelow
  <1>6. /\ Below(Files(manifest'.files), manifest'.next) /\ manifest'.next <= nextFile
        /\ Apart(manifest'.files)
        /\ comp # NoComp /\ edit.kind # "compact" => comp.made \cap Files(manifest'.files) = {}
    <2>1. CASE manifest'.files = manifest.files /\ manifest'.next = manifest.next
      BY <1>2, <2>1 DEF NumberInv, GivenOut, OneLevel
    <2>2. CASE manifest' = Recorded
      BY <1>2, <2>2, RecordNumbered DEF NumberInv, GivenOut
    <2> QED
      BY <1>3, <2>1, <2>2
  <1>7. GivenOut'
    BY <1>1, <1>2, <1>4, <1>5, <1>6 DEF NumberInv, GivenOut
  <1>8. OneLevel'
    BY <1>1, <1>2, <1>6 DEF NumberInv, OneLevel
  <1> QED
    BY <1>7, <1>8

(* The edit is applied.                                                    *)
LEMMA AppliedNumbers ==
  ASSUME NumberInv, Applied, edit # NoEdit, edit.written, up' # "down",
         comp' = NoComp \/ (UNCHANGED comp /\ edit.kind # "compact")
  PROVE  GivenOut' /\ OneLevel'
  <1>1. /\ UNCHANGED <<nextFile, manifest, rd, flush>>
        /\ edit' = NoEdit /\ edit'.kind = "none"
        /\ current' = Apply(current, edit) /\ flush = 0 /\ up # "down"
    BY DEF Applied, NoEdit, userVars, NumberInv, LevelInv, Busy, Ended
  <1>2. Files(current') \subseteq Files(current) \cup Files(edit.add)
    BY <1>1, FilesOf
  <1>3. nextFile \in Nat /\ edit.next \in Nat
    BY DEF NumberInv, LevelInv, Numbered
  <1>4. Below(Files(edit.add), nextFile)
    BY <1>3 DEF NumberInv, GivenOut, Below
  <1>5. InUseBelow(nextFile)'
    <2>1. Below(Files(current'), nextFile)
      BY <1>2, <1>4 DEF NumberInv, GivenOut, InUseBelow, Below
    <2> QED
      BY <1>1, <2>1 DEF NumberInv, GivenOut, InUseBelow
  <1>6. comp' # NoComp => /\ comp' = comp /\ comp.made \cap Files(current') = {}
                          /\ comp.made \cap Files(manifest.files) = {}
    BY <1>2 DEF NumberInv, GivenOut
  <1>7. GivenOut'
    BY <1>1, <1>5, <1>6 DEF NumberInv, GivenOut
  <1>8. OneLevel'
    BY <1>1 DEF NumberInv, OneLevel
  <1> QED
    BY <1>7, <1>8

LEMMA CrashNumbers ==
  ASSUME NumberInv, Crash
  PROVE  GivenOut' /\ OneLevel'
  <1>1. /\ UNCHANGED manifest
        /\ up' = "down" /\ current' = NoFiles /\ nextFile' = 0
        /\ rd' = [r \in Readers |-> NoRead]
        /\ flush' = 0 /\ comp' = NoComp /\ edit' = NoEdit
    BY DEF Crash
  <1>2. Files(NoFiles) = {}
    BY FilesOf
  <1>3. InUseBelow(nextFile)'
    BY <1>1, <1>2 DEF InUseBelow, Below
  <1>4. GivenOut'
    BY <1>1, <1>3 DEF NumberInv, GivenOut
  <1>5. OneLevel'
    BY <1>1, ApartNone DEF NumberInv, OneLevel
  <1> QED
    BY <1>4, <1>5

LEMMA RecoverNumbers ==
  ASSUME NumberInv, Recover
  PROVE  GivenOut' /\ OneLevel'
  <1> DEFINE next == Recovered.next
             made == DOMAIN Recovered.tabs
  <1>1. /\ next \in Nat /\ manifest.next \in Nat /\ manifest.next < next
        /\ \A f \in made : f \in Nat /\ manifest.next < f /\ f < next
    BY RecoveredNumber DEF NumberInv, LevelInv, Numbered
  <1>2. /\ up = "down" /\ up' = "opening"
        /\ nextFile' = next + 1
        /\ current' = manifest.files
        /\ UNCHANGED <<manifest, comp, flush, rd>>
        /\ edit' = EditOf("open", NoFiles, At(0, made), next)
    BY DEF Recover, userVars
  <1> HIDE DEF next, made
  <1>3. /\ comp = NoComp /\ flush = 0 /\ \A r \in Readers : rd[r] = NoRead
        /\ Below(Files(manifest.files), manifest.next) /\ Apart(manifest.files)
    BY <1>2 DEF NumberInv, LevelInv, Ended, GivenOut, OneLevel
  <1>4. /\ edit'.kind = "open" /\ ~edit'.written
        /\ edit'.add = At(0, made) /\ edit'.next = nextFile'
    BY <1>2 DEF EditOf
  <1>5. Files(edit'.add) \subseteq made
    BY <1>4, FilesOf
  <1>6. Below(Files(manifest.files), nextFile') /\ Below(Files(edit'.add), nextFile')
    BY <1>1, <1>2, <1>3, <1>5 DEF Below
  <1>7. GivenOut'
    <2>1. InUseBelow(nextFile)'
      BY <1>2, <1>3, <1>6 DEF InUseBelow
    <2> QED
      BY <1>1, <1>2, <1>3, <1>4, <1>6, <2>1 DEF GivenOut
  <1>8. OneLevel'
    <2>1. made \cap Files(manifest.files) = {}
      BY <1>1, <1>3 DEF Below
    <2>2. Apart(Apply(manifest.files, edit'))
      BY <1>3, <1>4, <2>1, ApartWithNew
    <2> QED
      BY <1>2, <1>3, <2>2 DEF OneLevel
  <1> QED
    BY <1>7, <1>8

LEMMA NumbersStep ==
  ASSUME NumberInv, Next
  PROVE  GivenOut' /\ OneLevel'
  <1>1. CASE Calls
    BY <1>1, CallsNumber
  <1>2. CASE Foreground
    BY <1>2, ForegroundNumbers
  <1>3. CASE Background
    <2>1. CASE BgFlush \/ FlushFirst
      BY <2>1, FlushNumbered DEF BgFlush, FlushFirst, BgCall, Compacting, NumberInv, LevelInv, Ended
    <2>2. CASE BgNothing \/ CompactOn
      BY <2>2, NumbersQuiet DEF BgNothing, CompactOn, numbers, NumberInv, setVars, userVars
    <2>3. CASE BgCompaction \/ BgRange
      BY <2>3, PickedNumbers, RangeNumbers
    <2>4. CASE MakeOutput \/ InstallCompactionResults \/ BuildTable \/ WriteManifest
      BY <2>4, OutputNumbered, ResultsNumbered, TableNumbered, ManifestNumbered
    <2>5. CASE FlushInstalled \/ MoveInstalled \/ CompactionInstalled
      <3>1. up' # "down" /\ edit # NoEdit /\ edit.written /\ Applied
        BY <2>5 DEF FlushInstalled, MoveInstalled, CompactionInstalled, Installs, NumberInv,
                    LevelInv, Ended
      <3>2. comp' = NoComp \/ (UNCHANGED comp /\ edit.kind # "compact")
        BY <2>5 DEF FlushInstalled, MoveInstalled, CompactionInstalled, Installs
      <3> QED
        BY <3>1, <3>2, AppliedNumbers
    <2> QED
      BY <1>3, <2>1, <2>2, <2>3, <2>4, <2>5 DEF Background
  <1>4. CASE OpenInstalled
    <2>1. up' # "down" /\ edit # NoEdit /\ edit.written /\ Applied
      BY <1>4 DEF OpenInstalled, Installs
    <2>2. UNCHANGED comp /\ edit.kind # "compact"
      BY <1>4 DEF OpenInstalled, Installs
    <2> QED
      BY <2>1, <2>2, AppliedNumbers
  <1>5. CASE ManifestFails \/ Crash \/ Recover
    BY <1>5, DoubtNumbered, CrashNumbers, RecoverNumbers
  <1> QED
    BY <1>1, <1>2, <1>3, <1>4, <1>5 DEF Next

LEMMA NumberInvariant == Spec => []NumberInv
  <1>1. Init => GivenOut /\ OneLevel
    BY InitNumbers
  <1>2. ASSUME LevelInv, GivenOut /\ OneLevel, Next
        PROVE  GivenOut' /\ OneLevel'
    BY <1>2, NumbersStep DEF NumberInv
  <1>3. GivenOut /\ OneLevel /\ UNCHANGED vars => GivenOut' /\ OneLevel'
    BY NumbersQuiet DEF vars, numbers, setVars, userVars, bgVars
  <1>4. Spec => [](GivenOut /\ OneLevel)
    BY <1>1, <1>2, <1>3, LevelInvariant, PTL DEF Spec
  <1> QED
    BY <1>4, LevelInvariant, PTL DEF NumberInv

(* A table in use is never written again.                                  *)
THEOREM TablesAreKept == Spec => TablesStay
  <1> DEFINE Same == \A f \in LiveVersions(pending, current, comp) \cup Files(manifest.files) :
                       f \in DOMAIN tables' => tables'[f] = tables[f]
  <1>1. ASSUME NumberInv, Next
        PROVE  Same
    <2> DEFINE Added(n) == \A f \in DOMAIN tables' \ {n} : tables'[f] = tables[f]
    <2>1. ASSUME NEW n, Unused(n), Added(n)
          PROVE  Same
      BY <2>1 DEF Unused, LiveVersions
    <2>2. (\A f \in DOMAIN tables' : tables'[f] = tables[f]) => Same
      OBVIOUS
    <2>3. UNCHANGED tables \/ DeleteObsoleteFiles => Same
      BY DEF DeleteObsoleteFiles
    <2> HIDE DEF Same
    <2>4. CASE Calls
      BY <2>3, <2>4
         DEF Calls, Write, GetSnapshot, ReleaseSnapshot, Capture, Release, CompactLevel
    <2>5. CASE Foreground
      BY <2>3, <2>5
         DEF Foreground, WriteRefused, WriteStarts, WriteSwitches, AppendRecord, SyncLog,
             InsertInto, WriteReturns
    <2>6. CASE Background
      <3>1. CASE BgFlush \/ FlushFirst
        BY <2>3, <3>1 DEF BgFlush, FlushFirst, StartFlush
      <3>2. CASE BgCompaction \/ BgRange \/ BgNothing
        BY <2>3, <3>2 DEF BgCompaction, BgRange, BgNothing, StartCompaction
      <3>3. CASE MakeOutput
        <4>1. Unused(nextFile)
          BY <1>1, <3>3, BelowIsUnused
             DEF MakeOutput, Compacting, NumberInv, LevelInv, Ended
        <4>2. UNCHANGED tables \/ Added(nextFile)
          BY <3>3 DEF MakeOutput
        <4> QED
          BY <2>1, <2>3, <4>1, <4>2
      <3>4. CASE BuildTable
        <4>1. Unused(flush)
          BY <1>1, <3>4 DEF BuildTable, NumberInv, GivenOut
        <4>2. UNCHANGED tables \/ Added(flush)
          BY <3>4 DEF BuildTable
        <4> QED
          BY <2>1, <2>3, <4>1, <4>2
      <3>5. CASE InstallCompactionResults \/ WriteManifest \/ MoveInstalled \/ CompactOn
        BY <2>3, <3>5 DEF InstallCompactionResults, WriteManifest, MoveInstalled, CompactOn
      <3>6. CASE FlushInstalled \/ CompactionInstalled
        BY <2>3, <3>6 DEF FlushInstalled, CompactionInstalled
      <3> QED
        BY <2>6, <3>1, <3>2, <3>3, <3>4, <3>5, <3>6 DEF Background
    <2>7. CASE ManifestFails \/ Crash
      BY <2>3, <2>7 DEF ManifestFails, Crash
    <2>8. CASE Recover
      <3> DEFINE made == DOMAIN Recovered.tabs
      <3>1. /\ manifest.next \in Nat
            /\ \A f \in made : f \in Nat /\ manifest.next < f
        BY <1>1, RecoveredNumber DEF NumberInv, LevelInv, Numbered
      <3>2. \A f \in DOMAIN tables' \ made : tables'[f] = tables[f]
        BY <2>8 DEF Recover
      <3> HIDE DEF made
      <3>3. made \cap Files(manifest.files) = {}
        BY <1>1, <3>1 DEF NumberInv, GivenOut, Below
      <3>4. up = "down"
        BY <2>8 DEF Recover
      <3>5. LiveVersions(pending, current, comp) = {}
        BY <1>1, <3>4, FilesOf DEF LiveVersions, NumberInv, LevelInv, Ended, GivenOut
      <3> QED
        BY <3>2, <3>3, <3>5 DEF Same
    <2>9. CASE OpenInstalled
      BY <2>3, <2>9 DEF OpenInstalled
    <2> QED
      BY <1>1, <2>4, <2>5, <2>6, <2>7, <2>8, <2>9 DEF Next
  <1>2. NumberInv /\ [Next]_vars => [Same]_vars
    BY <1>1
  <1> QED
    BY <1>2, NumberInvariant, PTL DEF Spec, TablesStay
-----------------------------------------------------------------------------
(* A table is a finite set of entries, and not empty; a memtable may be.   *)
Table == {t \in SUBSET Entry : t # {} /\ IsFiniteSet(t)}
Memtable == Table \cup {{}}

TablesHold ==
  /\ mem \in Memtable /\ (imm # NoMem => imm \in Memtable)
  /\ flush # 0 => imm # NoMem
  /\ \A f \in DOMAIN tables : tables[f] \in Table
  /\ \A n \in DOMAIN logs : logs[n].recs \in Seq(Table)
  /\ comp # NoComp => "outs" \in DOMAIN comp /\ comp.outs \in Seq(Table)

(* The queue, and what its first writer takes of it.                       *)
Queued ==
  /\ queue \in Seq([by : Writers, batch : Batches, sync : BOOLEAN])
  /\ group # NoGroup =>
       /\ {"n", "stage", "ents"} \subseteq DOMAIN group
       /\ group.n \in Nat /\ group.n <= Len(queue) /\ group.ents \in Table

(* The log in use is there, and none that the manifest will name is newer. *)
LogInUse ==
  /\ minLog \in Nat
  /\ up # "down" => logNo \in DOMAIN logs /\ logNo \in Nat /\ logNo < nextFile
  /\ up = "open" => minLog <= logNo
  /\ "log" \in DOMAIN manifest /\ manifest.log \in Nat
  /\ edit # NoEdit => "log" \in DOMAIN edit /\ edit.log \in Nat /\ edit.log <= logNo

Sequenced ==
  /\ seq \in Nat /\ "seq" \in DOMAIN manifest /\ manifest.seq \in Nat
  /\ edit # NoEdit => "seq" \in DOMAIN edit /\ edit.seq \in Nat
  /\ DOMAIN snap = Readers /\ \A r \in Readers : snap[r] = NoSnapshot \/ snap[r] \in Nat

Shaped ==
  /\ up \in {"open", "down", "opening"} /\ (up = "down" => seek = 0)
  /\ current = [l \in Level |-> current[l]]
  /\ manifest.files = [l \in Level |-> manifest.files[l]]
  /\ pending \subseteq Nat
  /\ range # NoRange => "level" \in DOMAIN range /\ range.level \in 0..(NumLevels - 2)

Typed == TablesHold /\ Queued /\ LogInUse /\ Sequenced /\ Shaped /\ SeekIsAbove
TypeInv == NumberInv /\ Finite /\ Typed
-----------------------------------------------------------------------------
(* A finite set has a least element in any strict order, and one at every  *)
(* rank if the order is total.                                             *)
LEMMA Minimal ==
  ASSUME NEW T, IsFiniteSet(T), T # {}, NEW R,
         \A x \in T : <<x, x>> \notin R,
         \A x, y, z \in T : <<x, y>> \in R /\ <<y, z>> \in R => <<x, z>> \in R
  PROVE  \E m \in T : \A x \in T : <<x, m>> \notin R
  <1> DEFINE Behind(m) == {x \in T : <<x, m>> \in R}
             C == {Cardinality(Behind(m)) : m \in T}
  <1>1. \A m \in T : IsFiniteSet(Behind(m)) /\ Cardinality(Behind(m)) \in Nat
    <2> TAKE m \in T
    <2>1. Behind(m) \in SUBSET T
      OBVIOUS
    <2> HIDE DEF Behind
    <2> QED
      BY <2>1, FS_Subset, FS_CardinalityType
  <1>2. C \in SUBSET Nat /\ C # {}
    <2> HIDE DEF Behind
    <2> QED
      BY <1>1
  <1>3. PICK c \in C : \A d \in C : c <= d
    <2> HIDE DEF C
    <2> QED
      BY <1>2, LeastNumber
  <1>4. PICK m \in T : \A x \in T : Cardinality(Behind(m)) <= Cardinality(Behind(x))
    <2> HIDE DEF Behind
    <2> QED
      BY <1>3
  <1>5. ASSUME NEW x \in T, <<x, m>> \in R
        PROVE  FALSE
    <2>1. Behind(x) \in SUBSET Behind(m) /\ x \in Behind(m) /\ x \notin Behind(x)
      BY <1>5
    <2> HIDE DEF Behind
    <2>2. Cardinality(Behind(x)) <= Cardinality(Behind(m))
            /\ Cardinality(Behind(x)) # Cardinality(Behind(m))
      BY <1>1, <2>1, FS_Subset
    <2> QED
      BY <1>1, <1>4, <2>2
  <1> QED
    BY <1>5

LEMMA MaxOfFinite ==
  ASSUME NEW T \in SUBSET Nat, IsFiniteSet(T), T # {}
  PROVE  Max(T) \in T /\ \A x \in T : x <= Max(T)
  <1> DEFINE R == {p \in T \X T : p[1] > p[2]}
  <1>1. \A x, y \in T : <<x, y>> \in R <=> x > y
    OBVIOUS
  <1> HIDE DEF R
  <1>2. \A x, y, z \in T : <<x, y>> \in R /\ <<y, z>> \in R => <<x, z>> \in R
    BY <1>1
  <1>3. \A x \in T : <<x, x>> \notin R
    BY <1>1
  <1>4. PICK m \in T : \A x \in T : <<x, m>> \notin R
    BY <1>2, <1>3, Minimal
  <1>5. \A x \in T : m >= x
    <2> TAKE x \in T
    <2>1. ~(x > m) /\ x \in Nat /\ m \in Nat
      BY <1>1, <1>4
    <2> QED
      BY <2>1
  <1>6. Max(T) \in T /\ \A x \in T : Max(T) >= x
    BY <1>5 DEF Max
  <1> QED
    BY <1>6

LEMMA Ranked ==
  ASSUME NEW S, IsFiniteSet(S), NEW R,
         \A x \in S : <<x, x>> \notin R,
         \A x, y, z \in S : <<x, y>> \in R /\ <<y, z>> \in R => <<x, z>> \in R,
         \A x, y \in S : x # y => <<x, y>> \in R \/ <<y, x>> \in R,
         NEW i \in 1..Cardinality(S)
  PROVE  \E x \in S : Cardinality({y \in S : <<y, x>> \in R}) = i - 1
  <1> DEFINE Behind(m) == {y \in S : <<y, m>> \in R}
             n == Cardinality(S)
             rank == [x \in S |-> Cardinality(Behind(x)) + 1]
  <1>0. n \in Nat
    BY FS_CardinalityType
  <1>1. \A m \in S : Behind(m) \in SUBSET S /\ m \notin Behind(m)
    OBVIOUS
  <1>2. \A x, y \in S : <<x, y>> \in R => Behind(x) \in SUBSET Behind(y) /\ x \in Behind(y)
    OBVIOUS
  <1> HIDE DEF Behind
  <1>3. \A m \in S : IsFiniteSet(Behind(m)) /\ Cardinality(Behind(m)) \in Nat
    BY <1>1, FS_Subset, FS_CardinalityType
  <1>4. \A m \in S : Cardinality(Behind(m)) + 1 \in 1..n
    <2> TAKE m \in S
    <2>1. Cardinality(Behind(m)) <= n /\ Cardinality(Behind(m)) # n
      BY <1>1, FS_Subset
    <2> HIDE DEF n
    <2> QED
      BY <1>0, <1>3, <2>1
  <1>5. ASSUME NEW x \in S, NEW y \in S, <<x, y>> \in R
        PROVE  Cardinality(Behind(x)) # Cardinality(Behind(y))
    <2>1. Behind(x) \in SUBSET Behind(y) /\ Behind(x) # Behind(y)
      BY <1>1, <1>2, <1>5
    <2> QED
      BY <1>3, <2>1, FS_Subset
  <1>6. rank \in [S -> 1..n]
    BY <1>4
  <1>7. ASSUME NEW x \in S, NEW y \in S, x # y
        PROVE  rank[x] # rank[y]
    <2>1. Cardinality(Behind(x)) # Cardinality(Behind(y))
      BY <1>5, <1>7
    <2> QED
      BY <1>3, <2>1
  <1> HIDE DEF rank
  <1>8. rank \in Injection(S, 1..n)
    BY <1>6, <1>7 DEF Injection, IsInjective
  <1>9. IsFiniteSet(1..n) /\ Cardinality(1..n) = n
    BY <1>0, FS_Interval
  <1>10. rank \in Surjection(S, 1..n)
    BY <1>8, <1>9, FS_Injection
  <1>11. PICK x \in S : rank[x] = i
    BY <1>10 DEF Surjection
  <1>12. Cardinality(Behind(x)) = i - 1
    BY <1>3, <1>11 DEF rank
  <1> QED
    BY <1>12 DEF Behind
-----------------------------------------------------------------------------
(* The entries of a table are in order, and so are the tables.             *)
LEMMA EntryNumbers == \A e \in Entry : e.key \in Nat /\ e.seq \in Nat /\ e.key < After
  <1>1. \A k \in Keys : k \in Nat /\ k < After
    BY KeysAssumption DEF After
  <1>2. \A e \in Entry : e.key \in Keys /\ e.seq \in Nat
    BY DEF Entry
  <1> QED
    BY <1>1, <1>2

LEMMA EntriesInOrder ==
  ASSUME NEW a \in Entry, NEW b \in Entry
  PROVE  /\ ~Before(a, a)
         /\ \A c \in Entry : Before(a, b) /\ Before(b, c) => Before(a, c)
  BY EntryNumbers DEF Before

LEMMA Extremes ==
  ASSUME NEW t \in Table
  PROVE  Smallest(t) \in t /\ Largest(t) \in t /\ t \subseteq Entry
  <1> DEFINE Less == {p \in t \X t : Before(p[1], p[2])}
             More == {p \in t \X t : Before(p[2], p[1])}
  <1>1. t \subseteq Entry /\ t # {} /\ IsFiniteSet(t)
    BY DEF Table
  <1>2. \A a, b \in t : (<<a, b>> \in Less <=> Before(a, b)) /\ (<<a, b>> \in More <=> Before(b, a))
    OBVIOUS
  <1> HIDE DEF Less, More
  <1>3. \A a \in t : <<a, a>> \notin Less /\ <<a, a>> \notin More
    BY <1>1, <1>2, EntriesInOrder
  <1>4. \A a, b, c \in t : <<a, b>> \in Less /\ <<b, c>> \in Less => <<a, c>> \in Less
    BY <1>1, <1>2, EntriesInOrder
  <1>4a. \A a, b, c \in t : <<a, b>> \in More /\ <<b, c>> \in More => <<a, c>> \in More
    BY <1>1, <1>2, EntriesInOrder
  <1>5. \E a \in t : \A b \in t : <<b, a>> \notin Less
    BY <1>1, <1>3, <1>4, Minimal
  <1>6. \E a \in t : \A b \in t : <<b, a>> \notin More
    BY <1>1, <1>3, <1>4a, Minimal
  <1>7. (\E a \in t : \A b \in t : ~Before(b, a)) /\ \E a \in t : \A b \in t : ~Before(a, b)
    BY <1>2, <1>5, <1>6
  <1> QED
    BY <1>1, <1>7 DEF Smallest, Largest

LEMMA SortedFiles ==
  ASSUME NEW tab, NEW fs \in SUBSET Nat, IsFiniteSet(fs), \A f \in fs : tab[f] \in Table
  PROVE  /\ Sorted(tab, fs) \in Seq(fs)
         /\ Len(Sorted(tab, fs)) = Cardinality(fs)
  <1> DEFINE n == Cardinality(fs)
             R == {p \in fs \X fs : Precedes(tab, p[1], p[2])}
             Ahead(f) == {g \in fs : Precedes(tab, g, f)}
  <1>1. n \in Nat
    BY FS_CardinalityType
  <1>2. \A f \in fs : Smallest(tab[f]) \in Entry
    BY Extremes
  <1>4. \A f \in fs : Smallest(tab[f]).key \in Nat /\ Smallest(tab[f]).seq \in Nat /\ f \in Nat
    BY <1>2, EntryNumbers
  <1>5. \A f \in fs : ~Precedes(tab, f, f)
    BY <1>4 DEF Precedes, Before
  <1>6. \A f, g, h \in fs : Precedes(tab, f, g) /\ Precedes(tab, g, h) => Precedes(tab, f, h)
    BY <1>4 DEF Precedes, Before
  <1>7. \A f, g \in fs : f # g => Precedes(tab, f, g) \/ Precedes(tab, g, f)
    BY <1>4 DEF Precedes, Before
  <1>8. \A f, g \in fs : <<f, g>> \in R <=> Precedes(tab, f, g)
    OBVIOUS
  <1> HIDE DEF R
  <1>9. \A f \in fs : Ahead(f) = {g \in fs : <<g, f>> \in R}
    BY <1>8
  <1>10. \A i \in 1..n : \E f \in fs : Cardinality({g \in fs : <<g, f>> \in R}) = i - 1
    BY <1>5, <1>6, <1>7, <1>8, Ranked
  <1>11. \A i \in 1..n : \E f \in fs : Cardinality(Ahead(f)) = i - 1
    BY <1>9, <1>10
  <1>12. Sorted(tab, fs) = [i \in 1..n |-> CHOOSE f \in fs : Cardinality(Ahead(f)) = i - 1]
    BY DEF Sorted, InOrder
  <1> HIDE DEF n, Ahead
  <1>13. Sorted(tab, fs) \in [1..n -> fs]
    BY <1>11, <1>12
  <1> QED
    BY <1>1, <1>13, SeqDef DEF n
-----------------------------------------------------------------------------
(* What holds at each place if it holds at the place before.               *)
LEMMA Carried ==
  ASSUME NEW a \in Nat, NEW n \in Nat, NEW h, NEW S, h[a] \in S[a],
         \A i \in (a + 1)..n : h[i - 1] \in S[i - 1] => h[i] \in S[i]
  PROVE  \A i \in a..n : h[i] \in S[i]
  <1> DEFINE T == {i \in a..n : h[i] \notin S[i]}
  <1>1. T = {}
    <2> SUFFICES ASSUME T # {}
                 PROVE  FALSE
      OBVIOUS
    <2>1. T \in SUBSET Nat
      OBVIOUS
    <2>2. PICK i \in T : \A m \in T : i <= m
      <3> HIDE DEF T
      <3> QED
        BY <2>1, LeastNumber
    <2>3. i \in a..n /\ h[i] \notin S[i]
      OBVIOUS
    <2>4. i \in (a + 1)..n /\ i - 1 \in a..n /\ ~(i <= i - 1)
      BY <2>3
    <2>5. h[i - 1] \in S[i - 1]
      BY <2>2, <2>4
    <2> QED
      BY <2>3, <2>4, <2>5
  <1> QED
    BY <1>1

(* Sequences one behind the other.                                         *)
Flattening(g, n, ss, E, all) ==
  /\ g \in [1..n -> Seq(E)]
  /\ all = g[n] /\ g[1] = ss[1]
  /\ \A i \in 2..n : g[i] = g[i - 1] \o ss[i]

LEMMA Flattened ==
  ASSUME NEW E, NEW n \in Nat \ {0}, NEW ss \in [1..n -> Seq(E)]
  PROVE  \E g : Flattening(g, n, ss, E, FlattenSeq(ss))
  <1> DEFINE S == Seq(E)
             F == [x \in S \X (1..n) |-> x[1] \o ss[x[2]]]
             z == <<>>
             Body(m) == [i \in 1..n |-> IF i = 1 THEN ss[i] ELSE m[i - 1] \o ss[i]]
             flat == CHOOSE m : m = Body(m)
  <1>1. \A s \in S, i \in 1..n : s \o ss[i] \in S
    BY ConcatProperties
  <1>2. F \in [S \X (1..n) -> S] /\ z \in S
    BY <1>1
  <1>3. \A s \in S, i \in 1..n : F[<<s, i>>] = s \o ss[i]
    OBVIOUS
  <1> HIDE DEF F
  <1>4. PICK k : Computed(k, n, S, z, F)
    BY <1>2, Iterated
  <1>5. k \in [0..n -> S] /\ k[0] = z /\ \A i \in 1..n : k[i] = F[<<k[i - 1], i>>]
    BY <1>4 DEF Computed
  <1>6. \A i \in 1..n : k[i] = k[i - 1] \o ss[i]
    <2> TAKE i \in 1..n
    <2>1. i - 1 \in 0..n
      OBVIOUS
    <2> QED
      BY <1>3, <1>5, <2>1
  <1>7. k[1] = ss[1]
    <2>1. 1 \in 1..n /\ 1 - 1 = 0
      OBVIOUS
    <2>2. ss[1] \in Seq(E) /\ k[1] = k[1 - 1] \o ss[1]
      BY <1>6, <2>1
    <2>3. k[1] = <<>> \o ss[1]
      BY <1>5, <2>1, <2>2
    <2> QED
      BY <2>2, <2>3, ConcatEmptySeq
  <1> DEFINE g == [i \in 1..n |-> k[i]]
  <1>8. g = Body(g)
    <2> SUFFICES ASSUME NEW i \in 1..n
                 PROVE  g[i] = IF i = 1 THEN ss[i] ELSE g[i - 1] \o ss[i]
      BY Zenon
    <2>1. CASE i = 1
      BY <1>7, <2>1
    <2>2. CASE i # 1
      <3>1. i - 1 \in 1..n
        BY <2>2
      <3> QED
        BY <1>6, <2>2, <3>1
    <2> QED
      BY <2>1, <2>2
  <1> HIDE DEF g
  <1>9. flat = Body(flat)
    <2> HIDE DEF Body
    <2> QED
      BY <1>8
  <1>10. FlattenSeq(ss) = flat[n]
    <2>1. Len(ss) = n
      OBVIOUS
    <2> QED
      BY <2>1 DEF FlattenSeq
  <1> HIDE DEF flat
  <1>11. flat[1] = ss[1] /\ \A i \in 2..n : flat[i] = flat[i - 1] \o ss[i]
    <2>1. \A i \in 1..n : flat[i] = IF i = 1 THEN ss[i] ELSE flat[i - 1] \o ss[i]
      BY <1>9
    <2>2. 1 \in 1..n /\ \A i \in 2..n : i \in 1..n /\ i # 1
      OBVIOUS
    <2> QED
      BY <2>1, <2>2
  <1>12. \A i \in 1..n : flat[i] \in S
    <2> DEFINE SS == [i \in 1..n |-> S]
    <2>1. ASSUME NEW i \in (1 + 1)..n, flat[i - 1] \in SS[i - 1]
          PROVE  flat[i] \in SS[i]
      <3>1. i \in 2..n /\ i \in 1..n /\ i - 1 \in 1..n
        OBVIOUS
      <3>2. flat[i - 1] \in S /\ flat[i] = flat[i - 1] \o ss[i]
        BY <1>11, <2>1, <3>1
      <3>3. flat[i] \in S
        BY <1>1, <3>1, <3>2
      <3> QED
        BY <3>1, <3>3
    <2>2. flat[1] \in SS[1]
      BY <1>11
    <2>3. \A i \in 1..n : SS[i] = S
      OBVIOUS
    <2> HIDE DEF SS, S
    <2>4. \A i \in 1..n : flat[i] \in SS[i]
      BY <2>1, <2>2, Carried
    <2> QED
      BY <2>3, <2>4
  <1>13. flat = [i \in 1..n |-> flat[i]]
    BY <1>9
  <1>14. flat \in [1..n -> Seq(E)]
    BY <1>12, <1>13
  <1>15. Flattening(flat, n, ss, E, FlattenSeq(ss))
    BY <1>10, <1>11, <1>14 DEF Flattening
  <1> QED
    BY <1>15

(* A fold over a finite set, whose elements are taken in any order.        *)
Folding(g, Q, z, pick, F) ==
  \A D \in SUBSET Q : g[D] = IF D = {} THEN z ELSE F[<<g[D \ {pick[D]}], pick[D]>>]

LEMMA FoldExists ==
  ASSUME NEW Q, IsFiniteSet(Q), NEW S, NEW z \in S, NEW F \in [S \X Q -> S],
         NEW pick, \A D \in SUBSET Q : D # {} => pick[D] \in D
  PROVE  \E g \in [SUBSET Q -> S] : Folding(g, Q, z, pick, F)
  <1> DEFINE n == Cardinality(Q)
             Small(k) == {D \in SUBSET Q : Cardinality(D) <= k}
             Good(k, g) == \A D \in Small(k) :
                             g[D] = IF D = {} THEN z ELSE F[<<g[D \ {pick[D]}], pick[D]>>]
             T == {k \in 0..n : ~\E g \in [Small(k) -> S] : Good(k, g)}
  <1>1. n \in Nat
    BY FS_CardinalityType
  <1>2. \A D \in SUBSET Q : /\ IsFiniteSet(D) /\ Cardinality(D) \in Nat /\ Cardinality(D) <= n
                            /\ Cardinality(D) = 0 <=> D = {}
    BY FS_Subset, FS_CardinalityType, FS_EmptySet
  <1>3. \A D \in SUBSET Q : D # {} =>
          /\ pick[D] \in Q
          /\ D \ {pick[D]} \in SUBSET Q /\ Cardinality(D \ {pick[D]}) = Cardinality(D) - 1
    BY <1>2, FS_RemoveElement
  <1> HIDE DEF n
  <1>4. T = {}
    <2> SUFFICES ASSUME T # {}
                 PROVE  FALSE
      OBVIOUS
    <2>1. T \in SUBSET Nat
      OBVIOUS
    <2>2. PICK k \in T : \A m \in T : k <= m
      <3> HIDE DEF T
      <3> QED
        BY <2>1, LeastNumber
    <2>3. k \in 0..n /\ ~\E g \in [Small(k) -> S] : Good(k, g)
      OBVIOUS
    <2>6. k \in 0..n
      OBVIOUS
    <2>4. CASE k = 0
      <3> DEFINE g == [D \in Small(k) |-> z]
      <3>1. \A D \in Small(k) : D = {}
        BY <1>2, <2>4
      <3>2. g \in [Small(k) -> S] /\ Good(k, g)
        BY <3>1
      <3> QED
        BY <2>3, <3>2
    <2>5. CASE k # 0
      <3>1. k - 1 \in 0..n /\ ~(k <= k - 1)
        BY <1>1, <2>6, <2>5
      <3>2. k - 1 \notin T
        <4> HIDE DEF T
        <4> QED
          BY <2>2, <3>1
      <3>3. PICK g \in [Small(k - 1) -> S] : Good(k - 1, g)
        BY <3>1, <3>2
      <3> DEFINE Less(D) == D \ {pick[D]}
                 h == [D \in Small(k) |-> IF Cardinality(D) < k THEN g[D]
                                          ELSE F[<<g[Less(D)], pick[D]>>]]
      <3>4. \A D \in Small(k) : /\ Cardinality(D) < k => D \in Small(k - 1)
                                /\ D # {} => /\ Less(D) \in Small(k - 1) /\ Less(D) \in Small(k)
                                             /\ Cardinality(Less(D)) < k
        BY <1>2, <1>3, <2>3
      <3>5. \A D \in Small(k) : ~(Cardinality(D) < k) => D # {}
        BY <1>2, <2>3, <2>5
      <3> HIDE DEF Less
      <3>6. h \in [Small(k) -> S]
        <4> SUFFICES ASSUME NEW D \in Small(k)
                     PROVE  h[D] \in S
          OBVIOUS
        <4>1. CASE Cardinality(D) < k
          BY <3>4, <4>1
        <4>2. CASE ~(Cardinality(D) < k)
          <5>1. D # {} /\ D \in SUBSET Q
            BY <3>5, <4>2
          <5>2. g[Less(D)] \in S /\ pick[D] \in Q
            BY <1>3, <3>4, <5>1
          <5> QED
            BY <4>2, <5>2
        <4> QED
          BY <4>1, <4>2
      <3>7. Good(k, h)
        <4> SUFFICES ASSUME NEW D \in Small(k)
                     PROVE  h[D] = IF D = {} THEN z ELSE F[<<h[Less(D)], pick[D]>>]
          BY DEF Less
        <4>1. D # {} => h[Less(D)] = g[Less(D)]
          BY <3>4
        <4>2. CASE Cardinality(D) < k
          <5>1. D \in Small(k - 1) /\ h[D] = g[D]
            BY <3>4, <4>2
          <5>2. g[D] = IF D = {} THEN z ELSE F[<<g[Less(D)], pick[D]>>]
            BY <3>3, <5>1 DEF Less
          <5> HIDE DEF h
          <5> QED
            BY <4>1, <5>1, <5>2
        <4>3. CASE ~(Cardinality(D) < k)
          <5>1. D # {} /\ h[D] = F[<<g[Less(D)], pick[D]>>]
            BY <3>5, <4>3
          <5> HIDE DEF h
          <5> QED
            BY <4>1, <5>1
        <4> QED
          BY <4>2, <4>3
      <3> QED
        BY <2>3, <3>6, <3>7
    <2> QED
      BY <2>4, <2>5
  <1>5. \E g \in [Small(n) -> S] : Good(n, g)
    <2>1. n \in 0..n
      BY <1>1
    <2>2. n \notin T
      <3> HIDE DEF T
      <3> QED
        BY <1>4
    <2> QED
      BY <2>1, <2>2
  <1>6. Small(n) = SUBSET Q
    BY <1>2
  <1> QED
    BY <1>5, <1>6 DEF Folding

LEMMA FoldStays ==
  ASSUME NEW Q, IsFiniteSet(Q), NEW S, NEW m, NEW pick,
         \A D \in SUBSET Q : D # {} => pick[D] \in D,
         m[{}] \in S,
         \A D \in SUBSET Q : D # {} /\ m[D \ {pick[D]}] \in S => m[D] \in S
  PROVE  m[Q] \in S
  <1> DEFINE C == {k \in Nat : \E D \in SUBSET Q : Cardinality(D) = k /\ m[D] \notin S}
  <1>1. \A D \in SUBSET Q : IsFiniteSet(D) /\ Cardinality(D) \in Nat
    BY FS_Subset, FS_CardinalityType
  <1>2. C = {}
    <2> SUFFICES ASSUME C # {}
                 PROVE  FALSE
      OBVIOUS
    <2>1. PICK k \in C : \A i \in C : k <= i
      <3>1. C \in SUBSET Nat
        OBVIOUS
      <3> HIDE DEF C
      <3> QED
        BY <3>1, LeastNumber
    <2>2. PICK D \in SUBSET Q : Cardinality(D) = k /\ m[D] \notin S
      OBVIOUS
    <2>3. D # {} /\ m[D \ {pick[D]}] \notin S /\ D \ {pick[D]} \in SUBSET Q
      BY <2>2
    <2>4. Cardinality(D \ {pick[D]}) = k - 1
      BY <1>1, <2>2, <2>3, FS_RemoveElement
    <2>5. k - 1 \in Nat /\ k \in Nat
      BY <1>1, <2>3, <2>4
    <2>6. k - 1 \in C
      BY <2>3, <2>4, <2>5
    <2> HIDE DEF C
    <2> QED
      BY <2>1, <2>5, <2>6
  <1>3. Q \in SUBSET Q /\ Cardinality(Q) \in Nat
    BY <1>1
  <1> QED
    BY <1>2, <1>3

(* The tables of a set of files have finitely many entries.                *)
LEMMA EntriesOf ==
  ASSUME NEW tab, NEW fs, IsFiniteSet(fs), \A f \in fs : tab[f] \in Table
  PROVE  LET es == UNION {tab[f] : f \in fs} IN es \subseteq Entry /\ IsFiniteSet(es)
  <1> DEFINE ts == {tab[f] : f \in fs}
             g == [f \in fs |-> tab[f]]
  <1>1. g \in Surjection(fs, ts)
    BY DEF Surjection
  <1>2. IsFiniteSet(ts)
    <2> HIDE DEF g, ts
    <2> QED
      BY <1>1, FS_Surjection
  <1>3. \A t \in ts : t \subseteq Entry /\ IsFiniteSet(t)
    BY DEF Table
  <1> HIDE DEF ts
  <1>4. IsFiniteSet(UNION ts) /\ UNION ts \subseteq Entry
    BY <1>2, <1>3, FS_UNION
  <1> QED
    BY <1>4 DEF ts

LEMMA SizeIsNumber ==
  ASSUME NEW tab, NEW fs, IsFiniteSet(fs), \A f \in fs : tab[f] \in Table
  PROVE  Size(tab, fs) \in Nat
  <1> DEFINE pick == [D \in SUBSET fs |-> CHOOSE x \in D : TRUE]
             Body(m) == [D \in SUBSET fs |->
                           IF D = {} THEN 0
                           ELSE LET x == CHOOSE y \in D : TRUE
                                IN m[D \ {x}] + Cardinality(tab[x])]
             G == [x \in Nat \X fs |-> x[1] + Cardinality(tab[x[2]])]
             iter == CHOOSE m : m = Body(m)
             z == 0
  <1>1. \A f \in fs : Cardinality(tab[f]) \in Nat
    BY FS_CardinalityType DEF Table
  <1>2. G \in [Nat \X fs -> Nat] /\ z \in Nat
    BY <1>1
  <1>3. \A n \in Nat, f \in fs : G[<<n, f>>] = n + Cardinality(tab[f])
    OBVIOUS
  <1>4. \A D \in SUBSET fs : D # {} => pick[D] \in D /\ pick[D] = CHOOSE y \in D : TRUE
    OBVIOUS
  <1> HIDE DEF G, pick
  <1>5. PICK g \in [SUBSET fs -> Nat] : Folding(g, fs, z, pick, G)
    BY <1>2, <1>4, FoldExists
  <1>6. g = Body(g)
    <2> SUFFICES ASSUME NEW D \in SUBSET fs
                 PROVE  g[D] = Body(g)[D]
      OBVIOUS
    <2>1. CASE D = {}
      BY <1>5, <2>1 DEF Folding
    <2>2. CASE D # {}
      <3>1. /\ g[D] = G[<<g[D \ {pick[D]}], pick[D]>>]
            /\ pick[D] \in fs /\ g[D \ {pick[D]}] \in Nat
        BY <1>4, <1>5, <2>2 DEF Folding
      <3>2. g[D] = g[D \ {pick[D]}] + Cardinality(tab[pick[D]])
        BY <1>3, <3>1
      <3> QED
        BY <1>4, <2>2, <3>2
    <2> QED
      BY <2>1, <2>2
  <1>7. iter = Body(iter)
    <2> HIDE DEF Body
    <2> QED
      BY <1>6
  <1> HIDE DEF iter
  <1>8. iter[{}] = 0 /\ \A D \in SUBSET fs : D # {} =>
          iter[D] = iter[D \ {pick[D]}] + Cardinality(tab[pick[D]])
    <2>1. \A D \in SUBSET fs : iter[D] = Body(iter)[D]
      BY <1>7
    <2>2. \A D \in SUBSET fs : D # {} =>
            iter[D] = iter[D \ {pick[D]}] + Cardinality(tab[pick[D]])
      BY <1>4, <2>1
    <2>3. {} \in SUBSET fs
      OBVIOUS
    <2>4. iter[{}] = Body(iter)[{}]
      BY <2>1, <2>3
    <2> QED
      BY <2>2, <2>4
  <1>9. iter[fs] \in Nat
    <2>1. \A D \in SUBSET fs : D # {} /\ iter[D \ {pick[D]}] \in Nat => iter[D] \in Nat
      <3> SUFFICES ASSUME NEW D \in SUBSET fs, D # {}, iter[D \ {pick[D]}] \in Nat
                   PROVE  iter[D] \in Nat
        OBVIOUS
      <3>1. pick[D] \in fs
        BY <1>4
      <3>2. Cardinality(tab[pick[D]]) \in Nat
        BY <1>1, <3>1
      <3>3. iter[D] = iter[D \ {pick[D]}] + Cardinality(tab[pick[D]])
        BY <1>8
      <3> QED
        BY <3>2, <3>3
    <2>2. iter[{}] \in Nat
      BY <1>8
    <2> QED
      BY <1>4, <2>1, <2>2, FoldStays
  <1>10. Size(tab, fs) = iter[fs]
    BY DEF Size, FoldSet, MapThenFoldSet, iter
  <1> QED
    BY <1>9, <1>10

(* DoCompactionWork makes tables of the entries it keeps.                  *)
LEMMA OutputsAreTables ==
  ASSUME NEW tab, NEW v, NEW c, NEW oldest,
         IsFiniteSet(c.in0 \cup c.in1), IsFiniteSet(c.grand),
         \A f \in c.in0 \cup c.in1 \cup c.grand : tab[f] \in Table
  PROVE  Outputs(tab, v, c, oldest) \in Seq(Table)
  <1> DEFINE es == UNION {tab[f] : f \in c.in0 \cup c.in1}
             keep == Kept(tab, v, c, oldest)
             n == Cardinality(es)
             order == InOrder(es, Before)
             E == {order[i] : i \in 1..n}
             Over(st, e) == IF st.prev = <<>> THEN 0
                            ELSE st.over + Size(tab, Passed(tab, c, st.prev[1], e))
             Turn(st, e) ==
               LET over == Over(st, e)
                   stop == over > GrandLimit
                   open == st.open /\ ~stop
                   outs == IF e \notin keep THEN st.outs
                           ELSE IF open THEN [st.outs EXCEPT ![Len(st.outs)] = @ \cup {e}]
                           ELSE Append(st.outs, {e})
               IN [outs |-> outs, prev |-> <<e>>, over |-> IF stop THEN 0 ELSE over,
                   open |-> (open \/ e \in keep) /\ Cardinality(Last(outs)) < TableSize]
             z == [outs |-> <<>>, prev |-> <<>>, over |-> 0, open |-> FALSE]
             S == [outs : Seq(Table), prev : {<<>>} \cup {<<e>> : e \in E}, over : Nat,
                   open : BOOLEAN]
             F == [x \in S \X (1..n) |-> Turn(x[1], order[x[2]])]
             pick == [D \in SUBSET (1..n) |-> Max(D)]
             Body(m) == [D \in SUBSET (1..n) |->
                           IF D = {} THEN z
                           ELSE LET top == Max(D) IN Turn(m[D \ {top}], order[top])]
             iter == CHOOSE m : m = Body(m)
  <1>1. n \in Nat /\ DOMAIN order = 1..n
    <2>1. IsFiniteSet(es)
      BY EntriesOf
    <2> HIDE DEF es
    <2> QED
      BY <2>1, FS_CardinalityType DEF InOrder
  <1>2. \A a, b : Size(tab, Passed(tab, c, a, b)) \in Nat
    <2> TAKE a, b
    <2>1. Passed(tab, c, a, b) \in SUBSET c.grand
      BY DEF Passed
    <2>2. IsFiniteSet(Passed(tab, c, a, b))
      BY <2>1, FS_Subset
    <2> QED
      BY <2>1, <2>2, SizeIsNumber
  <1>3. \A e \in keep : {e} \in Table
    <2>1. keep \subseteq es
      BY DEF Kept
    <2>2. es \subseteq Entry
      BY EntriesOf
    <2> HIDE DEF keep, es
    <2> QED
      BY <2>1, <2>2, FS_Singleton DEF Table
  <1>4. \A t \in Table, e \in keep : t \cup {e} \in Table
    <2> HIDE DEF keep
    <2> SUFFICES ASSUME NEW t \in Table, NEW e \in keep
                 PROVE  t \cup {e} \in Table
      OBVIOUS
    <2>1. {e} \in SUBSET Entry /\ t \in SUBSET Entry /\ IsFiniteSet(t)
      BY <1>3 DEF Table
    <2>2. IsFiniteSet(t \cup {e})
      BY <2>1, FS_AddElement
    <2> QED
      BY <2>1, <2>2 DEF Table
  <1> HIDE DEF es, keep, n, order
  <1>5. ASSUME NEW st \in S, NEW i \in 1..n
        PROVE  Turn(st, order[i]) \in S
    <2> DEFINE e == order[i]
               over == Over(st, e)
               stop == over > GrandLimit
               open == st.open /\ ~stop
               outs == IF e \notin keep THEN st.outs
                       ELSE IF open THEN [st.outs EXCEPT ![Len(st.outs)] = @ \cup {e}]
                       ELSE Append(st.outs, {e})
    <2>1. e \in E
      OBVIOUS
    <2>2. st.outs \in Seq(Table) /\ st.over \in Nat /\ st.open \in BOOLEAN
      OBVIOUS
    <2> HIDE DEF e, E
    <2>3. over \in Nat
      BY <1>2, <2>2
    <2> HIDE DEF over
    <2>4. outs \in Seq(Table)
      <3>1. CASE e \notin keep
        BY <2>2, <3>1
      <3>2. CASE e \in keep /\ open /\ st.outs # <<>>
        <4>1. Len(st.outs) \in 1..Len(st.outs) /\ st.outs[Len(st.outs)] \in Table
          BY <2>2, <3>2
        <4>2. st.outs[Len(st.outs)] \cup {e} \in Table
          BY <1>4, <3>2, <4>1
        <4>3. [st.outs EXCEPT ![Len(st.outs)] = @ \cup {e}] \in Seq(Table)
          BY <2>2, <4>1, <4>2, ExceptSeq
        <4> QED
          BY <3>2, <4>3
      <3>3. CASE e \in keep /\ open /\ st.outs = <<>>
        <4> DEFINE q == [st.outs EXCEPT ![Len(st.outs)] = @ \cup {e}]
        <4>1. DOMAIN st.outs = {} /\ 1..0 = {}
          BY <3>3
        <4>2. q = [none \in {} |-> {}]
          BY <4>1
        <4>3. q \in [1..0 -> Table]
          BY <4>1, <4>2
        <4>4. outs = q
          BY <3>3
        <4> HIDE DEF q, outs
        <4> QED
          BY <4>3, <4>4, SeqDef
      <3>4. CASE e \in keep /\ ~open
        <4>1. Append(st.outs, {e}) \in Seq(Table)
          BY <1>3, <2>2, <3>4
        <4> QED
          BY <3>4, <4>1
      <3> QED
        BY <3>1, <3>2, <3>3, <3>4
    <2> HIDE DEF outs
    <2>5. (IF stop THEN 0 ELSE over) \in Nat
      BY <2>3
    <2>6. ((open \/ e \in keep) /\ Cardinality(Last(outs)) < TableSize) \in BOOLEAN
      OBVIOUS
    <2>7. Turn(st, e) = [outs |-> outs, prev |-> <<e>>, over |-> IF stop THEN 0 ELSE over,
                          open |-> (open \/ e \in keep) /\ Cardinality(Last(outs)) < TableSize]
      BY DEF over, outs
    <2> HIDE DEF Turn, stop, open
    <2> QED
      BY <2>1, <2>4, <2>5, <2>6, <2>7 DEF e
  <1>6. z \in S
    OBVIOUS
  <1> HIDE DEF S, Turn, z
  <1>7. F \in [S \X (1..n) -> S] /\ \A st \in S, i \in 1..n : F[<<st, i>>] = Turn(st, order[i])
    BY <1>5
  <1>8. IsFiniteSet(1..n) /\ \A D \in SUBSET (1..n) : D # {} => Max(D) \in D
    <2>1. IsFiniteSet(1..n)
      BY <1>1, FS_Interval
    <2>2. ASSUME NEW D \in SUBSET (1..n)
          PROVE  D \in SUBSET Nat /\ IsFiniteSet(D)
      <3>1. D \in SUBSET Nat
        BY <1>1
      <3> DEFINE Q == 1..n
      <3>2. IsFiniteSet(Q) /\ D \in SUBSET Q
        BY <2>1
      <3> HIDE DEF Q
      <3> QED
        BY <3>1, <3>2, FS_Subset
    <2> QED
      BY <2>1, <2>2, MaxOfFinite
  <1>9. \A D \in SUBSET (1..n) : pick[D] = Max(D) /\ (D # {} => pick[D] \in D)
    BY <1>8
  <1> HIDE DEF F, pick
  <1>10. PICK g \in [SUBSET (1..n) -> S] : Folding(g, 1..n, z, pick, F)
    <2> DEFINE Q == 1..n
    <2>1. /\ IsFiniteSet(Q) /\ F \in [S \X Q -> S]
          /\ \A D \in SUBSET Q : D # {} => pick[D] \in D
      BY <1>7, <1>8, <1>9
    <2> HIDE DEF Q
    <2>2. \E g \in [SUBSET Q -> S] : Folding(g, Q, z, pick, F)
      BY <1>6, <2>1, FoldExists
    <2> QED
      BY <2>2 DEF Q
  <1>11. g = Body(g)
    <2> SUFFICES ASSUME NEW D \in SUBSET (1..n)
                 PROVE  g[D] = IF D = {} THEN z ELSE Turn(g[D \ {Max(D)}], order[Max(D)])
      OBVIOUS
    <2>1. D # {} => Max(D) \in 1..n /\ D \ {Max(D)} \in SUBSET (1..n)
      BY <1>8
    <2> QED
      BY <1>7, <1>9, <1>10, <2>1 DEF Folding
  <1>12. iter = Body(iter)
    <2> HIDE DEF Body
    <2> QED
      BY <1>11
  <1> HIDE DEF iter
  <1>13. iter[1..n] \in S
    <2>1. \A D \in SUBSET (1..n) :
            iter[D] = IF D = {} THEN z ELSE Turn(iter[D \ {Max(D)}], order[Max(D)])
      BY <1>12
    <2>2. {} \in SUBSET (1..n)
      OBVIOUS
    <2>3. iter[{}] \in S
      BY <1>6, <2>1, <2>2
    <2>4. ASSUME NEW D \in SUBSET (1..n), D # {}, iter[D \ {pick[D]}] \in S
          PROVE  iter[D] \in S
      <3>1. Max(D) \in 1..n /\ iter[D] = Turn(iter[D \ {Max(D)}], order[Max(D)])
        BY <1>8, <2>1, <2>4
      <3>2. iter[D \ {Max(D)}] \in S
        BY <1>9, <2>4
      <3> QED
        BY <1>5, <3>1, <3>2
    <2> DEFINE Q == 1..n
    <2>5. /\ IsFiniteSet(Q)
          /\ \A D \in SUBSET Q : D # {} => pick[D] \in D
          /\ \A D \in SUBSET Q : D # {} /\ iter[D \ {pick[D]}] \in S => iter[D] \in S
      BY <1>8, <1>9, <2>4
    <2> HIDE DEF Q
    <2>6. iter[Q] \in S
      BY <2>3, <2>5, FoldStays
    <2> QED
      BY <2>6 DEF Q
  <1>14. Outputs(tab, v, c, oldest) = iter[1..n].outs
    BY <1>1 DEF Outputs, FoldLeft, MapThenFoldSet, iter, Turn, z, keep, es, order
  <1> QED
    BY <1>13, <1>14 DEF S

(* Sequences flattened are not empty if the first is not.                  *)
LEMMA FlattenedSome ==
  ASSUME NEW E, NEW n \in Nat \ {0}, NEW ss \in [1..n -> Seq(E)], ss[1] # <<>>
  PROVE  FlattenSeq(ss) \in Seq(E) /\ Len(FlattenSeq(ss)) >= 1
  <1>1. PICK g : Flattening(g, n, ss, E, FlattenSeq(ss))
    BY Flattened
  <1>2. /\ g \in [1..n -> Seq(E)]
        /\ FlattenSeq(ss) = g[n] /\ g[1] = ss[1]
        /\ \A i \in 2..n : g[i] = g[i - 1] \o ss[i]
    BY <1>1 DEF Flattening
  <1> DEFINE Q == {q \in Seq(E) : Len(q) >= 1}
             SS == [i \in 1..n |-> Q]
  <1>3. \A i \in 1..n : SS[i] = Q
    OBVIOUS
  <1>4. g[1] \in SS[1]
    <2>1. 1 \in 1..n /\ g[1] \in Seq(E) /\ g[1] # <<>>
      <3>1. 1 \in 1..n
        OBVIOUS
      <3> QED
        BY <1>2, <3>1
    <2>2. g[1] \in Q
      BY <2>1
    <2> HIDE DEF SS, Q
    <2> QED
      BY <1>3, <2>1, <2>2
  <1>5. ASSUME NEW i \in (1 + 1)..n, g[i - 1] \in SS[i - 1]
        PROVE  g[i] \in SS[i]
    <2>1. i \in 1..n /\ i - 1 \in 1..n /\ i \in 2..n
      OBVIOUS
    <2>2. g[i - 1] \in Q
      BY <1>3, <1>5, <2>1
    <2>3. g[i] = g[i - 1] \o ss[i] /\ ss[i] \in Seq(E)
      BY <1>2, <2>1
    <2>4. g[i - 1] \o ss[i] \in Q
      <3>1. g[i - 1] \in Seq(E) /\ Len(g[i - 1]) >= 1
        BY <2>2
      <3>2. /\ g[i - 1] \o ss[i] \in Seq(E)
            /\ Len(g[i - 1] \o ss[i]) = Len(g[i - 1]) + Len(ss[i])
        BY <2>3, <3>1, ConcatProperties
      <3>3. Len(g[i - 1]) \in Nat /\ Len(ss[i]) \in Nat
        BY <2>3, <3>1, LenProperties
      <3>4. \A a, b, c : a \in Nat /\ b \in Nat /\ a >= 1 /\ c = a + b => c >= 1
        OBVIOUS
      <3>5. Len(g[i - 1] \o ss[i]) >= 1
        BY <3>1, <3>2, <3>3, <3>4, Zenon
      <3> QED
        BY <3>2, <3>5
    <2> HIDE DEF SS, Q
    <2> QED
      BY <1>3, <2>1, <2>3, <2>4
  <1> HIDE DEF SS, Q
  <1>6. \A i \in 1..n : g[i] \in SS[i]
    BY <1>4, <1>5, Carried
  <1>7. g[n] \in Q
    BY <1>3, <1>6
  <1> QED
    BY <1>2, <1>7 DEF Q

(* A group has at least its leader's entries, and no writer that does not  *)
(* wait.                                                                   *)
LEMMA GroupIsTaken ==
  ASSUME Queued, queue # <<>>, queue[1].batch # <<>>, seq \in Nat
  PROVE  /\ {"n", "stage", "ents"} \subseteq DOMAIN Group
         /\ Group.n \in Nat /\ Group.n <= Len(queue) /\ Group.ents \in Table
  <1> DEFINE Writer == [by : Writers, batch : Batches, sync : BOOLEAN]
             Op == [key : Keys, del : BOOLEAN]
             T == {n \in DOMAIN queue :
                     \A i \in 2..n : Joins(queue[i])
                       /\ FoldLeft(LAMBDA m, w : m + Len(w.batch), 0, SubSeq(queue, 1, i)) <= GroupSize}
             ws == SubSeq(queue, 1, Taken)
             ss == [i \in DOMAIN ws |-> ws[i].batch]
             ops == FlattenSeq(ss)
             es == {[key |-> ops[i].key, del |-> ops[i].del, seq |-> seq + i] : i \in DOMAIN ops}
  <1>1. queue \in Seq(Writer) /\ Len(queue) \in Nat /\ 1 \in DOMAIN queue /\ DOMAIN queue = 1..Len(queue)
    BY DEF Queued
  <1>2. Taken \in 1..Len(queue)
    <2>1. Taken = Max(T)
      BY DEF Taken
    <2>2. 1 \in T
      <3>1. 2..1 = {}
        OBVIOUS
      <3> QED
        BY <1>1, <3>1
    <2>3. T \in SUBSET (1..Len(queue))
      BY <1>1
    <2> HIDE DEF T
    <2>4. T \in SUBSET (0..Len(queue)) /\ T # {}
      BY <2>2, <2>3
    <2>5. T \in SUBSET Nat /\ \A n \in T : n <= Len(queue)
      BY <1>1, <2>4
    <2>6. IsFiniteSet(T)
      BY <1>1, <2>5, FS_BoundedSetOfNaturals
    <2>7. Max(T) \in T
      BY <2>4, <2>5, <2>6, MaxOfFinite
    <2> QED
      BY <2>1, <2>3, <2>7
  <1> HIDE DEF T, es, ops
  <1>3. /\ ws \in Seq(Writer) /\ Len(ws) = Taken /\ DOMAIN ws = 1..Taken
        /\ ws[1] = queue[1]
    <2>1. Taken <= Len(queue) /\ Taken \in Nat /\ Taken >= 1
      BY <1>1, <1>2
    <2> HIDE DEF Writer
    <2> QED
      BY <1>1, <2>1, SubSeqProperties
  <1>4. ss \in [1..Taken -> Seq(Op)]
    <2>1. \A w \in Writer : w.batch \in Batches
      OBVIOUS
    <2>2. Batches \subseteq Seq(Op)
      BY BatchesAssumption
    <2> HIDE DEF ws, Writer, Op
    <2>3. \A i \in 1..Taken : ws[i] \in Writer
      BY <1>3, ElementOfSeq
    <2> QED
      BY <1>3, <2>1, <2>2, <2>3
  <1>5. ss[1] # <<>>
    <2>1. 1 \in 1..Taken
      BY <1>2
    <2> HIDE DEF ws
    <2>2. ss[1] = ws[1].batch
      BY <1>3, <2>1
    <2>3. ws[1].batch = queue[1].batch
      BY <1>3
    <2> HIDE DEF ss
    <2> QED
      BY <2>2, <2>3
  <1> HIDE DEF ss, ws, Writer, Op
  <1>6. ops \in Seq(Op) /\ Len(ops) >= 1
    <2>1. Taken \in Nat \ {0}
      BY <1>2
    <2>2. FlattenSeq(ss) \in Seq(Op) /\ Len(FlattenSeq(ss)) >= 1
      BY <1>4, <1>5, <2>1, FlattenedSome
    <2> QED
      BY <2>2 DEF ops
  <1>7. es \in Table
    <2>1. DOMAIN ops = 1..Len(ops) /\ Len(ops) \in Nat /\ \A i \in 1..Len(ops) : ops[i] \in Op
      <3> QED
        BY <1>6, LenProperties, ElementOfSeq
    <2>2. \A i \in 1..Len(ops) : ops[i].key \in Keys /\ ops[i].del \in BOOLEAN /\ seq + i \in Nat
      BY <2>1 DEF Op
    <2>3. es \subseteq Entry /\ es # {}
      <3>1. es # {}
        <4>1. 1 \in DOMAIN ops
          BY <1>6, <2>1
        <4> QED
          BY <4>1 DEF es
      <3>2. \A i \in 1..Len(ops) :
              [key |-> ops[i].key, del |-> ops[i].del, seq |-> seq + i] \in Entry
        BY <2>2 DEF Entry
      <3> QED
        BY <2>1, <3>1, <3>2 DEF es
    <2> DEFINE f == [i \in 1..Len(ops) |->
                       [key |-> ops[i].key, del |-> ops[i].del, seq |-> seq + i]]
    <2>4. f \in Surjection(1..Len(ops), es)
      BY <2>1 DEF Surjection, es
    <2> HIDE DEF f
    <2>5. IsFiniteSet(1..Len(ops))
      BY <2>1, 1 \in Int, FS_Interval
    <2>6. IsFiniteSet(es)
      BY <2>4, <2>5, FS_Surjection
    <2> QED
      BY <2>3, <2>6 DEF Table
  <1>8. /\ {"n", "stage", "ents"} \subseteq DOMAIN Group
        /\ Group.n = Taken /\ Group.ents = es
    BY DEF Group, es, ops, ss, ws
  <1> QED
    BY <1>1, <1>2, <1>7, <1>8
-----------------------------------------------------------------------------
(* A set of at most one element as a sequence.                             *)
LEMMA OneInSequence ==
  ASSUME NEW S, NEW x, S \subseteq {x}
  PROVE  SetToSeq(S) \in Seq(S) /\ Len(SetToSeq(S)) <= 1
  <1>1. CASE S = {}
    <2>1. Cardinality(S) = 0
      BY <1>1, FS_EmptySet
    <2> DEFINE e == [i \in 1..0 |-> i]
    <2>2. e \in [1..Cardinality(S) -> S] /\ IsInjective(e)
      BY <2>1 DEF IsInjective
    <2> HIDE DEF e
    <2>3. SetToSeq(S) \in [1..0 -> S]
      BY <2>1, <2>2 DEF SetToSeq
    <2> QED
      BY <2>3, SeqDef
  <1>2. CASE S = {x}
    <2>1. Cardinality(S) = 1
      BY <1>2, FS_Singleton
    <2> DEFINE e == [i \in 1..1 |-> x]
    <2>2. e \in [1..Cardinality(S) -> S] /\ IsInjective(e)
      BY <1>2, <2>1 DEF IsInjective
    <2> HIDE DEF e
    <2>3. SetToSeq(S) \in [1..1 -> S]
      BY <2>1, <2>2 DEF SetToSeq
    <2> QED
      BY <2>3, SeqDef
  <1> QED
    BY <1>1, <1>2

(* The first file a read looks into is of the last level only if it is the *)
(* only one.                                                               *)
LEMMA FirstFile ==
  ASSUME NEW tab, NEW v, NEW k, NEW n, Apart(v),
         \A l \in Level : v[l] \subseteq Nat /\ IsFiniteSet(v[l]),
         \A l \in Level : \A f \in v[l] : tab[f] \in Table,
         Len(Searched(tab, v, k, n)) > 1,
         NEW l \in Level, Searched(tab, v, k, n)[1] \in v[l]
  PROVE  l + 1 \in Level
  <1> DEFINE m == NumLevels - 1
             S0 == {f \in v[0] : Covers(tab[f], k)}
             a == InOrder(S0, NewestFirst)
             Hit(j) == {f \in FindFile(tab, v[j], k, n) : Smallest(tab[f]).key <= k}
             ss == [j \in 1..m |-> SetToSeq(Hit(j))]
             b == FlattenSeq(ss)
  <1>1. m \in Nat /\ m >= 1 /\ Level = 0..m /\ 0 \in Level
    BY LevelsAssumption DEF Level
  <1>2. Searched(tab, v, k, n) = a \o b
    BY DEF Searched
  <1>3. \A j \in 1..m : SetToSeq(Hit(j)) \in Seq(v[j]) /\ Len(SetToSeq(Hit(j))) <= 1
    <2> SUFFICES ASSUME NEW j \in 1..m
                 PROVE  SetToSeq(Hit(j)) \in Seq(v[j]) /\ Len(SetToSeq(Hit(j))) <= 1
      OBVIOUS
    <2>1. j \in Level
      BY <1>1
    <2> DEFINE above == {f \in v[j] : ~Before(Largest(tab[f]), [key |-> k, seq |-> n])}
               h == Head(Sorted(tab, above))
    <2>2. above # {} => h \in v[j]
      <3>1. above \in SUBSET v[j]
        OBVIOUS
      <3>2. IsFiniteSet(v[j]) /\ v[j] \subseteq Nat /\ \A f \in v[j] : tab[f] \in Table
        BY <2>1
      <3> HIDE DEF above
      <3>3. above \in SUBSET Nat /\ IsFiniteSet(above) /\ \A f \in above : tab[f] \in Table
        BY <3>1, <3>2, FS_Subset
      <3>4. Sorted(tab, above) \in Seq(above) /\ Len(Sorted(tab, above)) = Cardinality(above)
        BY <3>3, SortedFiles
      <3>5. above # {} => Cardinality(above) # 0
        BY <3>3, FS_EmptySet
      <3>6. above # {} => Sorted(tab, above) # <<>>
        BY <3>4, <3>5
      <3>7. above # {} => h \in above
        BY <3>4, <3>6, HeadTailProperties
      <3> QED
        BY <3>1, <3>7
    <2>3. Hit(j) \subseteq {h} /\ (above = {} => Hit(j) = {})
      BY DEF FindFile
    <2> HIDE DEF h, above, Hit
    <2>4. Hit(j) \subseteq v[j]
      BY <2>2, <2>3
    <2>5. SetToSeq(Hit(j)) \in Seq(Hit(j)) /\ Len(SetToSeq(Hit(j))) <= 1
      BY <2>3, OneInSequence
    <2> QED
      BY <2>4, <2>5, SeqMonotonic
  <1> HIDE DEF Hit
  <1>4. \A j \in 1..m : ss[j] \in Seq(v[j]) /\ Len(ss[j]) <= 1
    BY <1>3
  <1>5. ss \in [1..m -> Seq(Nat)]
    <2>1. \A j \in 1..m : ss[j] \in Seq(Nat)
      <3> TAKE j \in 1..m
      <3>1. v[j] \subseteq Nat
        BY <1>1
      <3> QED
        BY <1>4, <3>1, SeqMonotonic
    <2> QED
      BY <2>1
  <1> HIDE DEF m, ss
  <1>10. m \in Nat \ {0}
    BY <1>1
  <1>11. PICK g : Flattening(g, m, ss, Nat, FlattenSeq(ss))
    BY <1>5, <1>10, Flattened
  <1>6. /\ g \in [1..m -> Seq(Nat)]
        /\ b = g[m] /\ g[1] = ss[1]
        /\ \A j \in 2..m : g[j] = g[j - 1] \o ss[j]
    BY <1>11 DEF Flattening
  <1> HIDE DEF b
  <1> DEFINE Upto(i) == UNION {v[j] : j \in 1..i}
             SS == [i \in 1..m |-> Seq(Upto(i))]
  <1>7. \A i \in 1..m : g[i] \in Seq(Upto(i))
    <2>1. \A i \in 1..m : SS[i] = Seq(Upto(i))
      OBVIOUS
    <2>2. g[1] \in SS[1]
      <3>1. 1 \in 1..m /\ v[1] \subseteq Upto(1)
        BY <1>1
      <3> HIDE DEF SS, Upto
      <3>2. g[1] \in Seq(Upto(1))
        BY <1>4, <1>6, <3>1, SeqMonotonic
      <3> QED
        BY <2>1, <3>1, <3>2
    <2>3. ASSUME NEW i \in (1 + 1)..m, g[i - 1] \in SS[i - 1]
          PROVE  g[i] \in SS[i]
      <3>1. i \in 1..m /\ i - 1 \in 1..m /\ i \in 2..m
        BY <1>1
      <3>2. Upto(i - 1) \subseteq Upto(i) /\ v[i] \subseteq Upto(i)
        BY <1>1, <3>1
      <3> HIDE DEF SS, Upto
      <3>3. g[i - 1] \in Seq(Upto(i - 1)) /\ ss[i] \in Seq(v[i])
        BY <1>4, <2>1, <2>3, <3>1
      <3>4. g[i - 1] \in Seq(Upto(i)) /\ ss[i] \in Seq(Upto(i))
        BY <3>2, <3>3, SeqMonotonic
      <3>5. g[i - 1] \o ss[i] \in Seq(Upto(i))
        BY <3>4, ConcatProperties
      <3> QED
        BY <1>6, <2>1, <3>1, <3>5
    <2> HIDE DEF SS
    <2>4. \A i \in 1..m : g[i] \in SS[i]
      BY <1>1, <2>2, <2>3, Carried
    <2> QED
      BY <2>1, <2>4
  <1>8. CASE S0 = {}
    <2>1. a = <<>>
      <3>1. Cardinality(S0) = 0
        BY <1>8, FS_EmptySet
      <3> HIDE DEF S0
      <3> QED
        BY <3>1 DEF InOrder
    <2>2. b \in Seq(Nat) /\ m \in 1..m
      BY <1>1, <1>6
    <2>3. Searched(tab, v, k, n) = b
      BY <1>2, <2>1, <2>2, ConcatEmptySeq
    <2>4. m # 1
      BY <1>1, <1>4, <1>6, <2>3
    <2>5. m \in 2..m /\ m - 1 \in 1..m
      BY <1>1, <2>4
    <2>6. /\ b = g[m - 1] \o ss[m] /\ g[m - 1] \in Seq(Upto(m - 1)) /\ Len(ss[m]) <= 1
          /\ g[m - 1] \in Seq(Nat) /\ ss[m] \in Seq(Nat)
      BY <1>4, <1>5, <1>6, <1>7, <2>2, <2>5
    <2> HIDE DEF Upto
    <2> DEFINE p == g[m - 1]
               q == ss[m]
    <2>7. b = p \o q /\ p \in Seq(Upto(m - 1)) /\ Len(q) <= 1 /\ p \in Seq(Nat) /\ q \in Seq(Nat)
      BY <2>6
    <2> HIDE DEF p, q
    <2>8. Len(p) \in Nat /\ Len(q) \in Nat
      BY <2>7
    <2>9. Len(b) = Len(p) + Len(q)
      BY <2>7, ConcatProperties
    <2>14. Len(b) > 1
      BY <2>3
    <2>15. Len(p) >= 1 /\ 1 \in 1..(Len(p) + Len(q))
      BY <2>7, <2>8, <2>9, <2>14
    <2>16. 1 \in 1..Len(b) /\ 1 <= Len(p) /\ 1 \in 1..Len(p)
      BY <2>8, <2>9, <2>15
    <2>17. b[1] = p[1]
      BY <2>7, <2>9, <2>15, <2>16, ConcatProperties
    <2>10. b[1] = p[1] /\ p[1] \in Upto(m - 1)
      BY <2>7, <2>16, <2>17, ElementOfSeq
    <2>11. PICK j \in 1..(m - 1) : b[1] \in v[j]
      BY <2>10 DEF Upto
    <2>12. j \in Level
      BY <1>1, <2>11
    <2>13. l = j
      BY <2>3, <2>11, <2>12 DEF Apart
    <2> QED
      BY <1>1, <2>11, <2>13
  <1>9. CASE S0 # {}
    <2>1. S0 \in SUBSET v[0] /\ v[0] \subseteq Nat /\ IsFiniteSet(v[0])
      BY <1>1
    <2> HIDE DEF S0
    <2>2. S0 \in SUBSET Nat /\ IsFiniteSet(S0)
      BY <2>1, FS_Subset
    <2>3. Max(S0) \in S0 /\ \A x \in S0 : x <= Max(S0)
      BY <1>9, <2>2, MaxOfFinite
    <2>4. {y \in S0 : NewestFirst(y, Max(S0))} = {}
      BY <2>2, <2>3 DEF NewestFirst
    <2>5. \E x \in S0 : Cardinality({y \in S0 : NewestFirst(y, x)}) = 1 - 1
      <3>1. 1 - 1 = 0 /\ Cardinality({}) = 0
        BY FS_EmptySet
      <3>2. Cardinality({y \in S0 : NewestFirst(y, Max(S0))}) = 0
        BY <2>4, <3>1, Zenon
      <3> QED
        BY <2>3, <3>1, <3>2
    <2>6. Cardinality(S0) \in Nat /\ Cardinality(S0) >= 1
      BY <1>9, <2>2, FS_CardinalityType, FS_EmptySet
    <2>7. a = [i \in 1..Cardinality(S0) |->
                 CHOOSE x \in S0 : Cardinality({y \in S0 : NewestFirst(y, x)}) = i - 1]
      BY DEF InOrder
    <2>8. a[1] \in S0
      <3>1. 1 \in 1..Cardinality(S0)
        BY <2>6
      <3>2. a[1] = CHOOSE x \in S0 : Cardinality({y \in S0 : NewestFirst(y, x)}) = 1 - 1
        BY <2>7, <3>1
      <3> QED
        BY <2>5, <3>2
    <2>9. PICK A : a \in Seq(A) /\ Len(a) = Cardinality(S0) /\ Nat \subseteq A
      <3> DEFINE A == Nat \cup {a[i] : i \in 1..Cardinality(S0)}
      <3>1. a \in [1..Cardinality(S0) -> A]
        BY <2>7
      <3> HIDE DEF A, a
      <3>2. a \in Seq(A) /\ Len(a) = Cardinality(S0)
        BY <2>6, <3>1, SeqDef
      <3> QED
        BY <3>2 DEF A
    <2> HIDE DEF a
    <2>10. b \in Seq(A)
      <3>1. b \in Seq(Nat)
        <4>1. m \in 1..m
          BY <1>1
        <4> QED
          BY <1>6, <4>1
      <3> QED
        BY <2>9, <3>1, SeqMonotonic
    <2>11. (a \o b)[1] = a[1]
      <3>1. Len(a \o b) = Len(a) + Len(b) /\ Len(b) \in Nat
        BY <2>9, <2>10, ConcatProperties
      <3>2. 1 \in 1..Len(a \o b) /\ 1 <= Len(a)
        BY <2>6, <2>9, <3>1
      <3> QED
        BY <2>9, <2>10, <3>2, ConcatProperties
    <2>12. l = 0
      BY <1>1, <1>2, <2>1, <2>8, <2>11 DEF Apart
    <2> QED
      BY <1>1, <2>12
  <1> QED
    BY <1>8, <1>9
-----------------------------------------------------------------------------
(* What a compaction takes are files of the version it works on.           *)
Takes(c, v, l) ==
  /\ c.level = l /\ c.in0 \subseteq v[l] /\ c.in1 \subseteq v[l + 1]
  /\ c.grand \subseteq Files(v)

LEMMA CompactionTakes ==
  ASSUME NEW tab, NEW v, NEW l \in 0..(NumLevels - 2), NEW in0 \in SUBSET v[l]
  PROVE  Takes(Compaction(tab, v, l, in0), v, l)
  <1>1. \A m, fs : Around(tab, v, m, fs) \subseteq v[m]
    BY DEF Around, Inputs, Overlapping
  <1>2. l + 2 < NumLevels => v[l + 2] \subseteq Files(v)
    BY LevelsAssumption DEF Files, Level
  <1>3. \A fs : l + 2 < NumLevels => Around(tab, v, l + 2, fs) \subseteq Files(v)
    BY <1>1, <1>2
  <1> QED
    BY <1>1, <1>3 DEF Compaction, Takes

LEMMA PickedTakes ==
  ASSUME NEW tab, NEW v, NEW l \in 0..(NumLevels - 2), NEW f \in v[l]
  PROVE  Takes(Picked(tab, v, l, f), v, l)
  <1>1. Around(tab, v, 0, {f}) \subseteq v[0]
    BY DEF Around, Inputs, Overlapping
  <1>2. (IF l = 0 THEN Around(tab, v, 0, {f}) ELSE {f}) \in SUBSET v[l]
    BY <1>1
  <1> QED
    BY <1>2, CompactionTakes DEF Picked

LEMMA RangedTakes ==
  ASSUME NEW tab, NEW v, NEW l \in 0..(NumLevels - 2), NEW lo,
         v[l] \subseteq Nat, IsFiniteSet(v[l]), \A f \in v[l] : tab[f] \in Table
  PROVE  Takes(Ranged(tab, v, l, lo), v, l)
  <1> DEFINE ins == Inputs(tab, v, l, lo, After)
             fs == Sorted(tab, ins)
             enough == {i \in DOMAIN fs : Size(tab, {fs[j] : j \in 1..i}) >= TableSize}
             last == IF l = 0 \/ enough = {} THEN Len(fs) ELSE Min(enough)
  <1>1. ins \subseteq v[l]
    BY DEF Inputs, Overlapping
  <1>2. fs \in Seq(ins) /\ DOMAIN fs = 1..Len(fs) /\ Len(fs) \in Nat
    <2> HIDE DEF ins
    <2>1. ins \in SUBSET Nat /\ IsFiniteSet(ins) /\ \A f \in ins : tab[f] \in Table
      BY <1>1, FS_Subset
    <2>2. Sorted(tab, ins) \in Seq(ins)
      BY <2>1, SortedFiles
    <2> QED
      BY <2>2, LenProperties
  <1>3. enough \in SUBSET (1..Len(fs))
    BY <1>2
  <1>4. last \in 0..Len(fs)
    <2> HIDE DEF enough, fs
    <2>1. enough # {} => Min(enough) \in enough
      <3>1. enough \in SUBSET Nat
        BY <1>2, <1>3
      <3>2. enough # {} => \E n \in enough : \A m \in enough : n <= m
        BY <3>1, LeastNumber
      <3> QED
        BY <3>2 DEF Min
    <2>2. enough # {} => Min(enough) \in 1..Len(fs)
      BY <1>3, <2>1
    <2> QED
      BY <1>2, <2>2
  <1> HIDE DEF fs, enough
  <1>5. {fs[j] : j \in 1..last} \in SUBSET v[l]
    <2> HIDE DEF last, ins
    <2>1. \A j \in 1..last : j \in 1..Len(fs)
      BY <1>2, <1>4
    <2>2. \A j \in 1..last : fs[j] \in ins
      BY <1>2, <2>1, ElementOfSeq
    <2> QED
      BY <1>1, <2>2
  <1>6. Ranged(tab, v, l, lo) = Compaction(tab, v, l, {fs[j] : j \in 1..last})
    BY DEF Ranged, fs, enough
  <1> HIDE DEF last
  <1> QED
    BY <1>5, <1>6, CompactionTakes

(* Its outputs are tables.                                                 *)
LEMMA OutputsOf ==
  ASSUME Finite, NEW v, Files(v) \subseteq DOMAIN tables,
         \A f \in DOMAIN tables : tables[f] \in Table,
         NEW l \in 0..(NumLevels - 2), NEW c, Takes(c, v, l), NEW oldest
  PROVE  Outputs(tables, v, c, oldest) \in Seq(Table)
  <1>1. l \in Level /\ l + 1 \in Level
    BY LevelsAssumption DEF Level
  <1>2. c.in0 \cup c.in1 \cup c.grand \subseteq DOMAIN tables
    BY <1>1 DEF Takes, Files
  <1>3. c.in0 \cup c.in1 \in SUBSET DOMAIN tables /\ c.grand \in SUBSET DOMAIN tables
    BY <1>2
  <1>4. IsFiniteSet(c.in0 \cup c.in1) /\ IsFiniteSet(c.grand)
    BY <1>3, FS_Subset DEF Finite
  <1>5. \A f \in c.in0 \cup c.in1 \cup c.grand : tables[f] \in Table
    BY <1>2
  <1> QED
    BY <1>4, <1>5, OutputsAreTables
-----------------------------------------------------------------------------
(* What each part of the invariant speaks of.                              *)
holdVars  == <<mem, imm, flush, tables, logs, comp>>
waitVars  == <<queue, group>>
inUseVars == <<minLog, up, logs, logNo, nextFile, manifest, edit>>
numVars   == <<seq, manifest, edit, snap>>
shapeVars == <<up, current, manifest, pending, range, seek>>
wornVars  == <<seek, current>>

LEMMA Undisturbed ==
  ASSUME Typed
  PROVE  /\ UNCHANGED holdVars => TablesHold'
         /\ UNCHANGED waitVars => Queued'
         /\ UNCHANGED inUseVars => LogInUse'
         /\ UNCHANGED numVars => Sequenced'
         /\ UNCHANGED shapeVars => Shaped'
         /\ UNCHANGED wornVars => SeekIsAbove'
  <1>1. UNCHANGED holdVars => TablesHold'
    BY DEF Typed, TablesHold, holdVars
  <1>2. UNCHANGED waitVars => Queued'
    BY DEF Typed, Queued, waitVars
  <1>3. UNCHANGED inUseVars => LogInUse'
    BY DEF Typed, LogInUse, inUseVars
  <1>4. UNCHANGED numVars => Sequenced'
    BY DEF Typed, Sequenced, numVars
  <1>5. UNCHANGED shapeVars => Shaped'
    BY DEF Typed, Shaped, shapeVars
  <1>6. UNCHANGED wornVars => SeekIsAbove'
    BY DEF Typed, SeekIsAbove, wornVars
  <1> QED
    BY <1>1, <1>2, <1>3, <1>4, <1>5, <1>6

LEMMA InitTyped == Init => Typed
  <1> SUFFICES ASSUME Init
               PROVE  Typed
    OBVIOUS
  <1>1. TablesHold
    <2>1. mem \in Memtable /\ imm = NoMem /\ flush = 0 /\ comp = NoComp
      BY DEF Init, Memtable
    <2>2. DOMAIN tables = {}
      BY DEF Init
    <2>3. \A n \in DOMAIN logs : logs[n].recs = <<>>
      BY DEF Init
    <2>4. <<>> \in Seq(Table)
      OBVIOUS
    <2> QED
      BY <2>1, <2>2, <2>3, <2>4 DEF TablesHold
  <1>2. Queued
    BY DEF Init, Queued
  <1>3. LogInUse
    BY DEF Init, LogInUse
  <1>4. Sequenced
    BY DEF Init, Sequenced
  <1>5. Shaped
    BY DEF Init, Shaped, NoFiles
  <1>6. SeekIsAbove
    BY DEF Init, SeekIsAbove
  <1> QED
    BY <1>1, <1>2, <1>3, <1>4, <1>5, <1>6 DEF Typed

(* The file a read charges has a level below.                              *)
LEMMA WornAbove ==
  ASSUME TypeInv, NEW r \in Readers, Release(r)
  PROVE  SeekIsAbove'
  <1>1. UNCHANGED <<tables, current>>
    BY DEF Release
  <1>2. CASE UNCHANGED seek
    BY <1>1, <1>2, Undisturbed DEF TypeInv, wornVars
  <1>3. CASE ~UNCHANGED seek
    <2>1. PICK k \in Keys : \E f \in Charged(r, k) : rd[r].ver = current /\ seek' = f
      BY <1>3 DEF Release
    <2> DEFINE fs == Searched(tables, current, k, rd[r].n)
    <2>2. seek' = fs[1] /\ Len(fs) > 1
      BY <2>1 DEF Charged
    <2>3. \A l \in Level : /\ current[l] \subseteq Nat /\ IsFiniteSet(current[l])
                           /\ \A f \in current[l] : tables[f] \in Table
      <3> TAKE l \in Level
      <3>1. current[l] \subseteq Files(current)
        BY DEF Files
      <3>2. Files(current) \subseteq Nat /\ Files(current) \subseteq DOMAIN tables
        BY DEF TypeInv, NumberInv, GivenOut, InUseBelow, Below, LevelInv, Present
      <3>3. IsFiniteSet(current[l])
        BY <3>1, <3>2, FS_Subset DEF TypeInv, Finite
      <3> QED
        BY <3>1, <3>2, <3>3 DEF TypeInv, Typed, TablesHold
    <2>4. Apart(current)
      BY DEF TypeInv, NumberInv, OneLevel
    <2>5. \A l \in Level : fs[1] \in current[l] => l + 1 \in Level
      BY <2>2, <2>3, <2>4, FirstFile
    <2> QED
      BY <1>1, <2>2, <2>5 DEF SeekIsAbove
  <1> QED
    BY <1>2, <1>3

LEMMA CallsTyped ==
  ASSUME TypeInv, Calls
  PROVE  Typed'
  <1> USE DEF memVars, logVars, setVars, userVars, bgVars, history
  <1>0. Typed
    BY DEF TypeInv
  <1>1. ASSUME NEW w \in Writers, Write(w)
        PROVE  Typed'
    <2>1. UNCHANGED <<holdVars, inUseVars, numVars, shapeVars, wornVars>>
      BY <1>1 DEF Write, holdVars, inUseVars, numVars, shapeVars, wornVars
    <2>2. PICK b \in Batches :
            queue' = Append(queue, [by |-> w, batch |-> b, sync |-> w \in SyncWriters])
      BY <1>1 DEF Write
    <2>3. Queued'
      <3> DEFINE Writer == [by : Writers, batch : Batches, sync : BOOLEAN]
                 e == [by |-> w, batch |-> b, sync |-> w \in SyncWriters]
      <3>1. e \in Writer /\ queue \in Seq(Writer)
        BY <1>0 DEF Typed, Queued
      <3>2. group' = group
        BY <1>1 DEF Write
      <3> HIDE DEF e, Writer
      <3>3. queue' \in Seq(Writer) /\ Len(queue') = Len(queue) + 1 /\ Len(queue) \in Nat
        BY <2>2, <3>1, AppendProperties DEF e
      <3>4. \A n \in Nat : n <= Len(queue) => n <= Len(queue')
        BY <3>3
      <3> QED
        BY <1>0, <3>2, <3>3, <3>4 DEF Typed, Queued, Writer
    <2> QED
      BY <1>0, <2>1, <2>3, Undisturbed DEF Typed
  <1>2. ASSUME NEW r \in Readers, GetSnapshot(r) \/ ReleaseSnapshot(r)
        PROVE  Typed'
    <2>1. UNCHANGED <<holdVars, inUseVars, waitVars, shapeVars, wornVars, seq, manifest, edit>>
      BY <1>2 DEF GetSnapshot, ReleaseSnapshot, holdVars, inUseVars, waitVars, shapeVars, wornVars
    <2>2. snap' = [snap EXCEPT ![r] = seq] \/ snap' = [snap EXCEPT ![r] = NoSnapshot]
      BY <1>2 DEF GetSnapshot, ReleaseSnapshot
    <2>3. Sequenced'
      BY <1>0, <2>1, <2>2 DEF Typed, Sequenced
    <2> QED
      BY <1>0, <2>1, <2>3, Undisturbed DEF Typed
  <1>3. ASSUME NEW r \in Readers, Capture(r)
        PROVE  Typed'
    <2>1. UNCHANGED <<holdVars, inUseVars, waitVars, numVars, shapeVars, wornVars>>
      BY <1>3 DEF Capture, holdVars, inUseVars, waitVars, numVars, shapeVars, wornVars
    <2> QED
      BY <1>0, <2>1, Undisturbed DEF Typed
  <1>4. ASSUME NEW r \in Readers, Release(r)
        PROVE  Typed'
    <2>1. UNCHANGED <<holdVars, inUseVars, waitVars, numVars, up, current, manifest, pending,
                      range>>
      BY <1>4 DEF Release, holdVars, inUseVars, waitVars, numVars
    <2>2. up = "open"
      BY <1>4 DEF Release, TypeInv, NumberInv, LevelInv, Ended
    <2>3. Shaped'
      BY <1>0, <2>1, <2>2 DEF Typed, Shaped
    <2>4. SeekIsAbove'
      BY <1>4, WornAbove
    <2> QED
      BY <1>0, <2>1, <2>3, <2>4, Undisturbed DEF Typed
  <1>5. ASSUME NEW l \in 0..(NumLevels - 2), CompactLevel(l)
        PROVE  Typed'
    <2>1. UNCHANGED <<holdVars, inUseVars, waitVars, numVars, wornVars, up, current, manifest,
                      pending, seek>>
      BY <1>5 DEF CompactLevel, holdVars, inUseVars, waitVars, numVars, wornVars
    <2>2. range' = [level |-> l, begin |-> First, active |-> TRUE]
      BY <1>5 DEF CompactLevel
    <2>3. Shaped'
      BY <1>0, <2>1, <2>2 DEF Typed, Shaped
    <2> QED
      BY <1>0, <2>1, <2>3, Undisturbed DEF Typed
  <1> QED
    BY <1>1, <1>2, <1>3, <1>4, <1>5 DEF Calls

(* The writer in front.                                                    *)
LEMMA LeadTyped ==
  ASSUME TypeInv, InFront, Lead, seq \in Nat
  PROVE  Queued'
  <1> DEFINE Writer == [by : Writers, batch : Batches, sync : BOOLEAN]
  <1>1. queue \in Seq(Writer) /\ queue # <<>> /\ group = NoGroup
    BY DEF TypeInv, Typed, Queued, InFront
  <1>2. CASE queue[1].batch = <<>>
    <2>1. queue' = Tail(queue) /\ UNCHANGED group
      BY <1>2 DEF Lead
    <2> HIDE DEF Writer
    <2>2. queue' \in Seq(Writer)
      BY <1>1, <2>1, HeadTailProperties
    <2> QED
      BY <1>1, <2>1, <2>2 DEF Queued, Writer
  <1>3. CASE queue[1].batch # <<>>
    <2>1. group' = Group /\ UNCHANGED queue
      BY <1>3 DEF Lead
    <2>2. /\ {"n", "stage", "ents"} \subseteq DOMAIN Group
          /\ Group.n \in Nat /\ Group.n <= Len(queue) /\ Group.ents \in Table
      BY <1>1, <1>3, GroupIsTaken DEF TypeInv, Typed
    <2> QED
      BY <1>1, <2>1, <2>2 DEF Queued
  <1> QED
    BY <1>2, <1>3

LEMMA ForegroundTyped ==
  ASSUME TypeInv, Foreground
  PROVE  Typed'
  <1> USE DEF memVars, logVars, setVars, userVars, bgVars, history
  <1> DEFINE Writer == [by : Writers, batch : Batches, sync : BOOLEAN]
  <1>0. Typed /\ seq \in Nat /\ queue \in Seq(Writer)
    BY DEF TypeInv, Typed, Sequenced, Queued
  <1>1. CASE WriteRefused
    <2>1. UNCHANGED <<holdVars, inUseVars, numVars, shapeVars, wornVars>>
      BY <1>1 DEF WriteRefused, holdVars, inUseVars, numVars, shapeVars, wornVars
    <2>2. queue' = Tail(queue) /\ queue # <<>> /\ group = NoGroup /\ UNCHANGED group
      BY <1>1 DEF WriteRefused, InFront
    <2>3. Queued'
      <3> HIDE DEF Writer
      <3>1. queue' \in Seq(Writer)
        BY <1>0, <2>2, HeadTailProperties
      <3> QED
        BY <2>2, <3>1 DEF Queued, Writer
    <2> QED
      BY <1>0, <2>1, <2>3, Undisturbed DEF Typed
  <1>2. CASE WriteStarts
    <2>1. UNCHANGED <<holdVars, inUseVars, numVars, shapeVars, wornVars>>
      BY <1>2 DEF WriteStarts, holdVars, inUseVars, numVars, shapeVars, wornVars
    <2>2. Queued'
      BY <1>0, <1>2, LeadTyped DEF WriteStarts
    <2> QED
      BY <1>0, <2>1, <2>2, Undisturbed DEF Typed
  <1>3. CASE WriteSwitches
    <2>1. UNCHANGED <<numVars, shapeVars, wornVars, up, minLog, manifest, edit, flush, tables, comp>>
      BY <1>3 DEF WriteSwitches, numVars, shapeVars, wornVars
    <2>2. Queued'
      BY <1>0, <1>3, LeadTyped DEF WriteSwitches
    <2>3. /\ imm = NoMem /\ imm' = mem /\ mem' = {}
          /\ logNo' = nextFile /\ nextFile' = nextFile + 1
          /\ logs' = [n \in DOMAIN logs \cup {nextFile} |->
                        IF n = nextFile THEN [recs |-> <<>>, synced |-> 0] ELSE logs[n]]
      BY <1>3 DEF WriteSwitches, Switch, HasRoom
    <2>4. LogInUse'
      <3>1. nextFile \in Nat /\ up = "open"
        BY <1>3 DEF TypeInv, NumberInv, LevelInv, Numbered, WriteSwitches, InFront
      <3>2. /\ logNo \in Nat /\ logNo < nextFile /\ minLog \in Nat /\ minLog <= logNo
            /\ edit # NoEdit => "log" \in DOMAIN edit /\ edit.log \in Nat /\ edit.log <= logNo
        BY <1>0, <3>1 DEF Typed, LogInUse
      <3>3. logNo' \in DOMAIN logs' /\ logNo' \in Nat /\ logNo' < nextFile'
        BY <2>3, <3>1
      <3>4. minLog <= logNo' /\ (edit # NoEdit => edit.log <= logNo')
        BY <2>3, <3>1, <3>2
      <3> QED
        BY <1>0, <2>1, <3>2, <3>3, <3>4 DEF Typed, LogInUse
    <2>5. TablesHold'
      <3>1. \A n \in DOMAIN logs' : logs'[n].recs \in Seq(Table)
        <4>1. <<>> \in Seq(Table)
          OBVIOUS
        <4> QED
          BY <1>0, <2>3, <4>1 DEF Typed, TablesHold
      <3>2. mem' \in Memtable /\ imm' \in Memtable /\ flush' = 0
        BY <1>0, <2>1, <2>3 DEF Typed, TablesHold, Memtable
      <3> QED
        BY <1>0, <2>1, <3>1, <3>2 DEF Typed, TablesHold
    <2> QED
      BY <1>0, <2>1, <2>2, <2>4, <2>5, Undisturbed DEF Typed
  <1>4. ASSUME AppendRecord \/ SyncLog
        PROVE  Typed'
    <2>1. UNCHANGED <<numVars, shapeVars, wornVars, minLog, up, logNo, nextFile, manifest,
                      edit, mem, imm, flush, tables, comp, queue>>
      BY <1>4 DEF AppendRecord, SyncLog, numVars, shapeVars, wornVars
    <2>2. group # NoGroup /\ \E s : group' = [group EXCEPT !.stage = s]
      BY <1>4 DEF AppendRecord, SyncLog, Stage, Then
    <2>3. Queued'
      <3>1. /\ DOMAIN group' = DOMAIN group /\ group'.n = group.n /\ group'.ents = group.ents
        BY <1>0, <2>2 DEF Typed, Queued
      <3> QED
        BY <1>0, <2>1, <2>2, <3>1 DEF Typed, Queued
    <2>4. /\ DOMAIN logs' = DOMAIN logs
          /\ \A n \in DOMAIN logs : \/ logs'[n].recs = logs[n].recs
                                    \/ logs'[n].recs = Append(logs[n].recs, group.ents)
      <3>1. \A n \in DOMAIN logs : {"recs", "synced"} \subseteq DOMAIN logs[n]
        BY DEF TypeInv, NumberInv, LevelInv, Logged
      <3>2. \/ logs' = logs \/ logs' = Appended
            \/ logs' = [logs EXCEPT ![logNo].synced = Len(logs[logNo].recs)]
        BY <1>4 DEF AppendRecord, SyncLog
      <3> QED
        BY <3>1, <3>2 DEF Appended
    <2>5. TablesHold'
      <3>1. group.ents \in Table
        BY <1>0, <2>2 DEF Typed, Queued
      <3>2. \A n \in DOMAIN logs : logs[n].recs \in Seq(Table)
        BY <1>0 DEF Typed, TablesHold
      <3>3. \A n \in DOMAIN logs' : logs'[n].recs \in Seq(Table)
        BY <2>4, <3>1, <3>2, AppendProperties
      <3> QED
        BY <1>0, <2>1, <3>3 DEF Typed, TablesHold
    <2>6. LogInUse'
      BY <1>0, <2>1, <2>4 DEF Typed, LogInUse
    <2> QED
      BY <1>0, <2>1, <2>3, <2>5, <2>6, Undisturbed DEF Typed
  <1>5. CASE InsertInto
    <2>1. UNCHANGED <<inUseVars, numVars, shapeVars, wornVars, imm, flush, tables, logs, comp,
                      queue>>
      BY <1>5 DEF InsertInto, inUseVars, numVars, shapeVars, wornVars
    <2>2. group # NoGroup /\ mem' = mem \cup group.ents /\ group' = [group EXCEPT !.stage = "done"]
      BY <1>5 DEF InsertInto, Stage, Then
    <2>3. Queued'
      <3>1. /\ DOMAIN group' = DOMAIN group /\ group'.n = group.n /\ group'.ents = group.ents
        BY <1>0, <2>2 DEF Typed, Queued
      <3> QED
        BY <1>0, <2>1, <2>2, <3>1 DEF Typed, Queued
    <2>4. mem' \in Memtable
      <3>1. mem \in Memtable /\ group.ents \in Table
        BY <1>0, <2>2 DEF Typed, Queued, TablesHold
      <3> QED
        BY <2>2, <3>1, FS_Union DEF Memtable, Table
    <2>5. TablesHold'
      BY <1>0, <2>1, <2>4 DEF Typed, TablesHold
    <2> QED
      BY <1>0, <2>1, <2>3, <2>5, Undisturbed DEF Typed
  <1>6. CASE WriteReturns
    <2>1. UNCHANGED <<holdVars, inUseVars, shapeVars, wornVars, manifest, edit, snap>>
      BY <1>6 DEF WriteReturns, holdVars, inUseVars, shapeVars, wornVars
    <2>2. /\ group # NoGroup /\ seq' = seq + Cardinality(group.ents)
          /\ queue' = SubSeq(queue, group.n + 1, Len(queue)) /\ group' = NoGroup
      BY <1>6 DEF WriteReturns
    <2>3. group.n \in Nat /\ group.n <= Len(queue) /\ group.ents \in Table
      BY <1>0, <2>2 DEF Typed, Queued
    <2>4. Queued'
      <3> HIDE DEF Writer
      <3>1. Len(queue) \in Nat
        BY <1>0, LenProperties
      <3>2. \A i \in (group.n + 1)..Len(queue) : queue[i] \in Writer
        BY <1>0, <2>3, <3>1, ElementOfSeq
      <3>3. queue' \in Seq(Writer)
        BY <1>0, <2>2, <2>3, <3>1, <3>2, SubSeqProperties
      <3> QED
        BY <2>2, <3>3 DEF Queued, Writer
    <2>5. Sequenced'
      <3>1. Cardinality(group.ents) \in Nat
        BY <2>3, FS_CardinalityType DEF Table
      <3>2. seq' \in Nat
        BY <1>0, <2>2, <3>1
      <3> QED
        BY <1>0, <2>1, <3>2 DEF Typed, Sequenced
    <2> QED
      BY <1>0, <2>1, <2>4, <2>5, Undisturbed DEF Typed
  <1> QED
    BY <1>1, <1>2, <1>3, <1>4, <1>5, <1>6 DEF Foreground

(* A new edit.                                                             *)
LEMMA EditTyped ==
  ASSUME Typed, NEW kind, NEW del, NEW add, NEW log \in Nat, log <= logNo,
         edit' = EditOf(kind, del, add, log),
         UNCHANGED <<minLog, up, logs, logNo, nextFile, manifest, seq, snap>>
  PROVE  LogInUse' /\ Sequenced'
  <1>1. /\ {"log", "seq"} \subseteq DOMAIN edit' /\ edit'.log = log /\ edit'.seq = seq'
    BY DEF EditOf
  <1>2. LogInUse'
    BY <1>1 DEF Typed, LogInUse
  <1>3. Sequenced'
    BY <1>1 DEF Typed, Sequenced
  <1> QED
    BY <1>2, <1>3

(* A memtable becomes a table: the number, then the table and its level.   *)
LEMMA FlushTyped ==
  ASSUME TypeInv, up = "open", StartFlush
  PROVE  Typed'
  <1> USE DEF memVars, logVars, setVars, userVars, bgVars, history
  <1>0. Typed /\ nextFile \in Nat
    BY DEF TypeInv, NumberInv, LevelInv, Numbered
  <1>1. /\ UNCHANGED <<waitVars, numVars, wornVars, minLog, up, logs, logNo, manifest, edit,
                       mem, imm, tables, comp, current, range, seek>>
        /\ imm # NoMem /\ flush' = nextFile /\ nextFile' = nextFile + 1
        /\ pending' = pending \cup {nextFile}
    BY DEF StartFlush, waitVars, numVars, wornVars
  <1>2. TablesHold'
    BY <1>0, <1>1 DEF Typed, TablesHold
  <1>3. LogInUse'
    BY <1>0, <1>1 DEF Typed, LogInUse
  <1>4. Shaped'
    BY <1>0, <1>1 DEF Typed, Shaped
  <1> QED
    BY <1>0, <1>1, <1>2, <1>3, <1>4, Undisturbed DEF Typed

LEMMA BuildTyped ==
  ASSUME TypeInv, BuildTable
  PROVE  Typed'
  <1> USE DEF memVars, logVars, setVars, userVars, bgVars, history
  <1>0. Typed /\ up = "open"
    BY DEF TypeInv, NumberInv, LevelInv, Ended, BuildTable
  <1>1. /\ UNCHANGED <<waitVars, minLog, up, logs, logNo, nextFile, manifest, seq, snap, mem, imm,
                       comp, current, range, seek>>
        /\ flush # 0 /\ flush' = 0 /\ pending' = pending \ {flush}
    BY DEF BuildTable, waitVars
  <1>2. TablesHold'
    <2>1. imm \in Memtable
      BY <1>0, <1>1 DEF Typed, TablesHold
    <2>2. \/ UNCHANGED tables
          \/ imm # {} /\ tables' = [f \in DOMAIN tables \cup {flush} |->
                                     IF f = flush THEN imm ELSE tables[f]]
      BY DEF BuildTable
    <2>3. \A f \in DOMAIN tables' : tables'[f] \in Table
      BY <1>0, <2>1, <2>2 DEF Typed, TablesHold, Memtable
    <2> QED
      BY <1>0, <1>1, <2>3 DEF Typed, TablesHold
  <1>3. LogInUse' /\ Sequenced'
    <2>1. CASE UNCHANGED edit
      BY <1>0, <1>1, <2>1, Undisturbed DEF inUseVars, numVars
    <2>2. CASE ~UNCHANGED edit
      <3>1. \E a : edit' = EditOf("flush", NoFiles, a, logNo)
        BY <2>2 DEF BuildTable
      <3>2. logNo \in Nat /\ logNo <= logNo
        BY <1>0 DEF Typed, LogInUse
      <3> QED
        BY <1>0, <1>1, <3>1, <3>2, EditTyped
    <2> QED
      BY <2>1, <2>2
  <1>4. Shaped'
    BY <1>0, <1>1 DEF Typed, Shaped
  <1> QED
    BY <1>0, <1>1, <1>2, <1>3, <1>4, Undisturbed DEF Typed, wornVars

(* A compaction starts; those the code picks have a level below.           *)
LEMMA StartTyped ==
  ASSUME TypeInv, up = "open", NEW l \in 0..(NumLevels - 2), NEW c, Takes(c, current, l),
         NEW m, StartCompaction(c, m)
  PROVE  Typed'
  <1> USE DEF memVars, logVars, setVars, userVars, bgVars, history
  <1>0. Typed
    BY DEF TypeInv
  <1>1. UNCHANGED <<waitVars, shapeVars, wornVars, minLog, up, logs, logNo, nextFile, manifest, seq,
                    snap, mem, imm, flush, tables>>
    BY DEF StartCompaction, waitVars, shapeVars, wornVars
  <1>2. LogInUse' /\ Sequenced'
    <2>1. CASE UNCHANGED edit
      BY <1>0, <1>1, <2>1, Undisturbed DEF inUseVars, numVars
    <2>2. CASE ~UNCHANGED edit
      <3>1. edit' = EditOf("move", Consumed(c), At(c.level + 1, c.in0), minLog)
        BY <2>2 DEF StartCompaction
      <3>2. minLog \in Nat /\ minLog <= logNo
        BY <1>0 DEF Typed, LogInUse
      <3> QED
        BY <1>0, <1>1, <3>1, <3>2, EditTyped
    <2> QED
      BY <2>1, <2>2
  <1>3. TablesHold'
    <2>1. CASE UNCHANGED comp
      BY <1>0, <1>1, <2>1, Undisturbed DEF holdVars
    <2>2. CASE ~UNCHANGED comp
      <3>1. comp' = [c |-> c, ver |-> current, made |-> {}, manual |-> m,
                     outs |-> Outputs(tables, current, c, Oldest)]
        BY <2>2 DEF StartCompaction
      <3>2. Files(current) \subseteq DOMAIN tables
        BY DEF TypeInv, NumberInv, LevelInv, Present
      <3>3. \A f \in DOMAIN tables : tables[f] \in Table
        BY <1>0 DEF Typed, TablesHold
      <3>4. Outputs(tables, current, c, Oldest) \in Seq(Table)
        BY <3>2, <3>3, OutputsOf DEF TypeInv
      <3> QED
        BY <1>0, <1>1, <3>1, <3>4 DEF Typed, TablesHold
    <2> QED
      BY <2>1, <2>2
  <1> QED
    BY <1>0, <1>1, <1>2, <1>3, Undisturbed DEF Typed

LEMMA CompactionTyped ==
  ASSUME TypeInv, BgCompaction
  PROVE  Typed'
  <1>1. up = "open"
    BY DEF BgCompaction, BgCall
  <1>2. \E l \in 0..(NumLevels - 2) : \E f \in current[l] :
          StartCompaction(Picked(tables, current, l, f), FALSE)
    <2>1. CASE \E l \in 0..(NumLevels - 2) : \E f \in NextFile(tables, current[l], pointer[l]) :
                 StartCompaction(Picked(tables, current, l, f), FALSE)
      <3>1. \A l : NextFile(tables, current[l], pointer[l]) \subseteq current[l]
        BY DEF NextFile
      <3> QED
        BY <2>1, <3>1
    <2>2. CASE seek # 0 /\ \E l \in Level :
                 seek \in current[l] /\ StartCompaction(Picked(tables, current, l, seek), FALSE)
      <3>1. PICK l \in Level :
              seek \in current[l] /\ StartCompaction(Picked(tables, current, l, seek), FALSE)
        BY <2>2
      <3>2. l + 1 \in Level
        BY <2>2, <3>1 DEF TypeInv, Typed, SeekIsAbove
      <3>3. l \in 0..(NumLevels - 2)
        BY <3>2, LevelsAssumption DEF Level
      <3> QED
        BY <3>1, <3>3
    <2> QED
      BY <2>1, <2>2 DEF BgCompaction
  <1> QED
    BY <1>1, <1>2, PickedTakes, StartTyped

LEMMA RangeTyped ==
  ASSUME TypeInv, BgRange
  PROVE  Typed'
  <1> USE DEF memVars, logVars, setVars, userVars, bgVars, history
  <1>0. Typed /\ up = "open" /\ range # NoRange
    BY DEF TypeInv, BgRange, BgCall, Ranging
  <1>1. CASE range' = NoRange /\ UNCHANGED <<holdVars, waitVars, inUseVars, numVars, wornVars,
                                             up, current, manifest, pending, seek>>
    <2>1. Shaped'
      BY <1>0, <1>1 DEF Typed, Shaped
    <2> QED
      BY <1>0, <1>1, <2>1, Undisturbed DEF Typed
  <1>2. CASE StartCompaction(Ranged(tables, current, range.level, range.begin), TRUE)
    <2> DEFINE l == range.level
    <2>1. l \in 0..(NumLevels - 2)
      BY <1>0 DEF Typed, Shaped
    <2>2. l \in Level
      BY <2>1, LevelsAssumption DEF Level
    <2>3. current[l] \subseteq Files(current)
      BY <2>2 DEF Files
    <2>4. Files(current) \subseteq Nat /\ Files(current) \subseteq DOMAIN tables
      BY DEF TypeInv, NumberInv, GivenOut, InUseBelow, Below, LevelInv, Present
    <2>5. /\ current[l] \subseteq Nat /\ IsFiniteSet(current[l])
          /\ \A f \in current[l] : tables[f] \in Table
      BY <1>0, <2>3, <2>4, FS_Subset DEF TypeInv, Finite, Typed, TablesHold
    <2> HIDE DEF l
    <2>6. Takes(Ranged(tables, current, l, range.begin), current, l)
      BY <2>1, <2>5, RangedTakes
    <2>7. StartCompaction(Ranged(tables, current, l, range.begin), TRUE)
      BY <1>2 DEF l
    <2> QED
      BY <1>0, <2>1, <2>6, <2>7, StartTyped
  <1> QED
    BY <1>1, <1>2 DEF BgRange, holdVars, waitVars, inUseVars, numVars, wornVars

(* What becomes of the manual compaction keeps its level.                  *)
LEMMA RangeStays ==
  ASSUME Typed, ~Orphaned, NEW b, range' = RangeAfter(b)
  PROVE  range' # NoRange => "level" \in DOMAIN range' /\ range'.level \in 0..(NumLevels - 2)
  <1>1. range # NoRange => "level" \in DOMAIN range /\ range.level \in 0..(NumLevels - 2)
    BY DEF Typed, Shaped
  <1>2. \/ range' \in {range, NoRange}
        \/ /\ range # NoRange
           /\ \E x : range' = [range EXCEPT !.active = FALSE, !.begin = x]
    <2>1. CASE comp = NoComp \/ ~comp.manual \/ b
      BY <2>1 DEF RangeAfter
    <2>2. CASE ~(comp = NoComp \/ ~comp.manual \/ b)
      <3> DEFINE x == Largest(tables[Last(Sorted(tables, comp.c.in0))]).key
      <3>1. range' = [range EXCEPT !.active = FALSE, !.begin = x]
        BY <2>2 DEF RangeAfter
      <3>2. range # NoRange
        BY <2>2 DEF Orphaned
      <3> HIDE DEF x
      <3> QED
        BY <3>1, <3>2
    <2> QED
      BY <2>1, <2>2
  <1>3. ASSUME NEW x, range # NoRange, range' = [range EXCEPT !.active = FALSE, !.begin = x]
        PROVE  "level" \in DOMAIN range' /\ range'.level \in 0..(NumLevels - 2)
    BY <1>1, <1>3
  <1> QED
    BY <1>1, <1>2, <1>3

(* The next output of a compaction, or its end after a failure.            *)
LEMMA OutputTyped ==
  ASSUME TypeInv, MakeOutput
  PROVE  Typed'
  <1> USE DEF memVars, logVars, setVars, userVars, bgVars, history
  <1>0. Typed /\ nextFile \in Nat
    BY DEF TypeInv, NumberInv, LevelInv, Numbered
  <1>1. /\ UNCHANGED <<waitVars, numVars, wornVars, minLog, up, logs, logNo, manifest, edit, mem,
                       imm, flush, current, seek>>
        /\ nextFile' = nextFile + 1 /\ comp # NoComp /\ comp.outs # <<>>
    BY DEF MakeOutput, Compacting, Resting, waitVars, numVars, wornVars
  <1>2. LogInUse'
    BY <1>0, <1>1 DEF Typed, LogInUse
  <1>3. CASE Abandon /\ UNCHANGED tables
    <2>1. comp' = NoComp /\ pending' \subseteq pending /\ range' = RangeAfter(TRUE) /\ ~Orphaned
      BY <1>3 DEF Abandon
    <2>2. TablesHold'
      BY <1>0, <1>1, <1>3, <2>1 DEF Typed, TablesHold
    <2>3. range' # NoRange => "level" \in DOMAIN range' /\ range'.level \in 0..(NumLevels - 2)
      BY <1>0, <2>1, RangeStays
    <2>4. Shaped'
      BY <1>0, <1>1, <2>1, <2>3 DEF Typed, Shaped
    <2> QED
      BY <1>0, <1>1, <1>2, <2>2, <2>4, Undisturbed DEF Typed
  <1>4. CASE /\ tables' = [f \in DOMAIN tables \cup {nextFile} |->
                             IF f = nextFile THEN Head(comp.outs) ELSE tables[f]]
             /\ pending' = pending \cup {nextFile}
             /\ comp' = [comp EXCEPT !.made = @ \cup {nextFile}, !.outs = Tail(@)]
             /\ UNCHANGED range
    <2>1. "outs" \in DOMAIN comp /\ comp.outs \in Seq(Table)
      BY <1>0, <1>1 DEF Typed, TablesHold
    <2>2. Head(comp.outs) \in Table /\ Tail(comp.outs) \in Seq(Table)
      BY <1>1, <2>1, HeadTailProperties
    <2>3. \A f \in DOMAIN tables' : tables'[f] \in Table
      BY <1>0, <1>4, <2>2 DEF Typed, TablesHold
    <2>4. "outs" \in DOMAIN comp' /\ comp'.outs \in Seq(Table)
      <3>1. DOMAIN comp' = DOMAIN comp /\ comp'.outs = Tail(comp.outs)
        BY <1>4, <2>1
      <3> QED
        BY <2>1, <2>2, <3>1
    <2>5. TablesHold'
      BY <1>0, <1>1, <2>3, <2>4 DEF Typed, TablesHold
    <2>6. Shaped'
      BY <1>0, <1>1, <1>4 DEF Typed, Shaped
    <2> QED
      BY <1>0, <1>1, <1>2, <2>5, <2>6, Undisturbed DEF Typed
  <1> QED
    BY <1>3, <1>4 DEF MakeOutput

LEMMA ResultsTyped ==
  ASSUME TypeInv, InstallCompactionResults
  PROVE  Typed'
  <1> USE DEF memVars, logVars, setVars, userVars, bgVars, history
  <1>0. Typed /\ up = "open"
    BY DEF TypeInv, NumberInv, LevelInv, Ended, InstallCompactionResults, Compacting
  <1>1. UNCHANGED <<holdVars, waitVars, shapeVars, wornVars, minLog, up, logs, logNo, nextFile,
                    manifest, seq, snap>>
    BY DEF InstallCompactionResults, holdVars, waitVars, shapeVars, wornVars
  <1>2. edit' = EditOf("compact", Consumed(comp.c), At(comp.c.level + 1, comp.made), minLog)
    BY DEF InstallCompactionResults
  <1>3. minLog \in Nat /\ minLog <= logNo
    BY <1>0 DEF Typed, LogInUse
  <1>4. LogInUse' /\ Sequenced'
    BY <1>0, <1>1, <1>2, <1>3, EditTyped
  <1> QED
    BY <1>0, <1>1, <1>4, Undisturbed DEF Typed

(* The manifest, with the edit's record, without it or torn.               *)
LEMMA ManifestTyped ==
  ASSUME TypeInv, edit # NoEdit,
         \/ manifest' \in {manifest, Recorded} \/ manifest' = [manifest EXCEPT !.torn = TRUE]
  PROVE  /\ "log" \in DOMAIN manifest' /\ manifest'.log \in Nat
         /\ "seq" \in DOMAIN manifest' /\ manifest'.seq \in Nat
         /\ manifest'.files = [l \in Level |-> manifest'.files[l]]
  <1>1. CASE manifest' = Recorded
    <2>1. /\ {"log", "seq"} \subseteq DOMAIN manifest'
          /\ manifest'.log = edit.log /\ manifest'.seq = edit.seq
          /\ manifest'.files = Apply(manifest.files, edit)
      BY <1>1 DEF Recorded
    <2>2. manifest'.files = [l \in Level |-> manifest'.files[l]]
      BY <2>1 DEF Apply
    <2> QED
      BY <2>1, <2>2 DEF TypeInv, Typed, LogInUse, Sequenced
  <1>2. CASE manifest' = manifest \/ manifest' = [manifest EXCEPT !.torn = TRUE]
    <2>2. {"files", "log", "seq"} \subseteq DOMAIN manifest
      BY DEF TypeInv, NumberInv, LevelInv, Formed, Typed, LogInUse, Sequenced
    <2>1. /\ DOMAIN manifest' = DOMAIN manifest
          /\ manifest'.log = manifest.log /\ manifest'.seq = manifest.seq
          /\ manifest'.files = manifest.files
      BY <1>2, <2>2
    <2> QED
      BY <2>1, <2>2 DEF TypeInv, Typed, LogInUse, Sequenced, Shaped
  <1> QED
    BY <1>1, <1>2

LEMMA RecordTyped ==
  ASSUME TypeInv, WriteManifest
  PROVE  Typed'
  <1> USE DEF memVars, logVars, setVars, userVars, bgVars, history
  <1>0. Typed /\ edit # NoEdit /\ manifest' \in {manifest, Recorded}
    BY DEF TypeInv, WriteManifest
  <1>1. /\ UNCHANGED <<holdVars, waitVars, wornVars, minLog, up, logs, logNo, nextFile, seq, snap,
                       current, pending, range, seek>>
        /\ edit' = [edit EXCEPT !.written = TRUE]
    BY DEF WriteManifest, holdVars, waitVars, wornVars
  <1>2. /\ "log" \in DOMAIN manifest' /\ manifest'.log \in Nat
        /\ "seq" \in DOMAIN manifest' /\ manifest'.seq \in Nat
        /\ manifest'.files = [l \in Level |-> manifest'.files[l]]
    BY <1>0, ManifestTyped
  <1>3. DOMAIN edit' = DOMAIN edit /\ edit'.log = edit.log /\ edit'.seq = edit.seq
    BY <1>1
  <1>4. LogInUse'
    BY <1>0, <1>1, <1>2, <1>3 DEF Typed, LogInUse
  <1>5. Sequenced'
    BY <1>0, <1>1, <1>2, <1>3 DEF Typed, Sequenced
  <1>6. Shaped'
    BY <1>0, <1>1, <1>2 DEF Typed, Shaped
  <1> QED
    BY <1>0, <1>1, <1>4, <1>5, <1>6, Undisturbed DEF Typed

(* A record that is in doubt.                                              *)
LEMMA DoubtTyped ==
  ASSUME TypeInv, ManifestFails
  PROVE  Typed'
  <1> USE DEF memVars, logVars, setVars, userVars, bgVars, history
  <1>0. /\ Typed /\ edit # NoEdit /\ edit' = NoEdit
        /\ \/ manifest' \in {manifest, Recorded} \/ manifest' = [manifest EXCEPT !.torn = TRUE]
    BY DEF TypeInv, ManifestFails
  <1>1. UNCHANGED <<waitVars, wornVars, minLog, up, logs, logNo, nextFile, seq, snap,
                    mem, imm, flush, tables, current, seek>>
    BY DEF ManifestFails, waitVars, wornVars
  <1>2. /\ "log" \in DOMAIN manifest' /\ manifest'.log \in Nat
        /\ "seq" \in DOMAIN manifest' /\ manifest'.seq \in Nat
        /\ manifest'.files = [l \in Level |-> manifest'.files[l]]
    BY <1>0, ManifestTyped
  <1>3. Abandon \/ UNCHANGED <<pending, comp, range>>
    BY DEF ManifestFails
  <1>4. /\ comp' \in {comp, NoComp} /\ pending' \subseteq pending
        /\ range' # NoRange => "level" \in DOMAIN range' /\ range'.level \in 0..(NumLevels - 2)
    <2>1. CASE Abandon
      <3>1. comp' = NoComp /\ pending' \subseteq pending /\ range' = RangeAfter(TRUE) /\ ~Orphaned
        BY <2>1 DEF Abandon
      <3> QED
        BY <1>0, <3>1, RangeStays
    <2>2. CASE UNCHANGED <<pending, comp, range>>
      BY <1>0, <2>2 DEF Typed, Shaped
    <2> QED
      BY <1>3, <2>1, <2>2
  <1>5. TablesHold'
    BY <1>0, <1>1, <1>4 DEF Typed, TablesHold
  <1>6. LogInUse'
    BY <1>0, <1>1, <1>2 DEF Typed, LogInUse
  <1>7. Sequenced'
    BY <1>0, <1>1, <1>2 DEF Typed, Sequenced
  <1>8. Shaped'
    BY <1>0, <1>1, <1>2, <1>4 DEF Typed, Shaped
  <1> QED
    BY <1>0, <1>1, <1>5, <1>6, <1>7, <1>8, Undisturbed DEF Typed

(* A new version.                                                          *)
LEMMA AppliedTyped ==
  ASSUME TypeInv, Applied, edit # NoEdit, up' = "open", imm' \in {imm, NoMem},
         UNCHANGED <<logs, tables>> \/ DeleteObsoleteFiles,
         comp' \in {comp, NoComp}, pending' \subseteq pending,
         range' \in {range, RangeAfter(FALSE)}, range' # range => ~Orphaned
  PROVE  Typed'
  <1>0. Typed /\ flush = 0
    BY DEF TypeInv, NumberInv, LevelInv, Busy
  <1>1. /\ UNCHANGED <<waitVars, mem, seq, logNo, nextFile, manifest, snap, flush>>
        /\ current' = Apply(current, edit) /\ minLog' = edit.log /\ seek' = 0 /\ edit' = NoEdit
    BY DEF Applied, waitVars, userVars
  <1>2. /\ DOMAIN logs' \subseteq DOMAIN logs /\ \A n \in DOMAIN logs' : logs'[n] = logs[n]
        /\ DOMAIN tables' \subseteq DOMAIN tables /\ \A f \in DOMAIN tables' : tables'[f] = tables[f]
    BY DEF DeleteObsoleteFiles
  <1>3. TablesHold'
    BY <1>0, <1>1, <1>2 DEF Typed, TablesHold
  <1>4. LogInUse'
    <2>1. /\ minLog' \in Nat /\ minLog' <= logNo
          /\ up # "down" => logNo \in DOMAIN logs /\ logNo \in Nat /\ logNo < nextFile
      BY <1>0, <1>1 DEF Typed, LogInUse
    <2>2. up # "down"
      BY DEF TypeInv, NumberInv, LevelInv, Ended
    <2>3. logNo \in DOMAIN logs'
      <3>1. KeepLog(logNo)
        BY <2>1, <2>2 DEF KeepLog
      <3> QED
        BY <2>1, <2>2, <3>1 DEF DeleteObsoleteFiles
    <2> QED
      BY <1>0, <1>1, <2>1, <2>2, <2>3 DEF Typed, LogInUse
  <1>5. Sequenced'
    BY <1>0, <1>1 DEF Typed, Sequenced
  <1>6. Shaped'
    <2>1. current' = [l \in Level |-> current'[l]]
      BY <1>1 DEF Apply
    <2>2. range' # NoRange => "level" \in DOMAIN range' /\ range'.level \in 0..(NumLevels - 2)
      <3>1. CASE range' = range
        BY <1>0, <3>1 DEF Typed, Shaped
      <3>2. CASE range' # range
        BY <1>0, <3>2, RangeStays
      <3> QED
        BY <3>1, <3>2
    <2> QED
      BY <1>0, <1>1, <2>1, <2>2 DEF Typed, Shaped
  <1>7. SeekIsAbove'
    BY <1>1 DEF SeekIsAbove
  <1> QED
    BY <1>0, <1>1, <1>3, <1>4, <1>5, <1>6, <1>7, Undisturbed DEF Typed

LEMMA InstalledTyped ==
  ASSUME TypeInv, FlushInstalled \/ MoveInstalled \/ CompactionInstalled \/ OpenInstalled
  PROVE  Typed'
  <1>1. Applied /\ edit # NoEdit
    BY DEF FlushInstalled, MoveInstalled, CompactionInstalled, OpenInstalled, Installs
  <1>2. up' = "open"
    <2>1. CASE OpenInstalled
      BY <2>1 DEF OpenInstalled
    <2>2. CASE FlushInstalled \/ MoveInstalled \/ CompactionInstalled
      <3>1. UNCHANGED up /\ edit.kind # "open" /\ edit # NoEdit
        BY <2>2 DEF FlushInstalled, MoveInstalled, CompactionInstalled, Installs
      <3> QED
        BY <3>1 DEF TypeInv, NumberInv, LevelInv, Ended
    <2> QED
      BY <2>1, <2>2
  <1>3. imm' \in {imm, NoMem} /\ comp' \in {comp, NoComp} /\ pending' \subseteq pending
    BY DEF FlushInstalled, MoveInstalled, CompactionInstalled, OpenInstalled
  <1>4. UNCHANGED <<logs, tables>> \/ DeleteObsoleteFiles
    BY DEF FlushInstalled, MoveInstalled, CompactionInstalled, OpenInstalled
  <1>5. range' \in {range, RangeAfter(FALSE)} /\ (range' # range => ~Orphaned)
    BY DEF FlushInstalled, MoveInstalled, CompactionInstalled, OpenInstalled
  <1> QED
    BY <1>1, <1>2, <1>3, <1>4, <1>5, AppliedTyped

LEMMA BackgroundTyped ==
  ASSUME TypeInv, Background
  PROVE  Typed'
  <1> USE DEF memVars, logVars, setVars, userVars, bgVars, history
  <1>0. Typed
    BY DEF TypeInv
  <1>1. CASE BgFlush \/ FlushFirst
    <2>1. up = "open" /\ StartFlush
      BY <1>1 DEF BgFlush, BgCall, FlushFirst, Compacting, TypeInv, NumberInv, LevelInv, Ended
    <2> QED
      BY <2>1, FlushTyped
  <1>2. CASE BgNothing
    <2>1. UNCHANGED <<holdVars, waitVars, inUseVars, numVars, shapeVars, wornVars>>
      BY <1>2 DEF BgNothing, holdVars, waitVars, inUseVars, numVars, shapeVars, wornVars
    <2> QED
      BY <1>0, <2>1, Undisturbed DEF Typed
  <1>3. CASE CompactOn
    <2>1. UNCHANGED <<holdVars, waitVars, inUseVars, numVars, wornVars, up, current, manifest,
                      pending, seek>>
      BY <1>3 DEF CompactOn, holdVars, waitVars, inUseVars, numVars, wornVars
    <2>2. range # NoRange /\ range' \in {NoRange, [range EXCEPT !.active = TRUE]}
      BY <1>3 DEF CompactOn
    <2>3. "level" \in DOMAIN range /\ range.level \in 0..(NumLevels - 2)
      BY <1>0, <2>2 DEF Typed, Shaped
    <2>4. range' # NoRange => "level" \in DOMAIN range' /\ range'.level \in 0..(NumLevels - 2)
      BY <2>2, <2>3
    <2>5. Shaped'
      BY <1>0, <2>1, <2>4 DEF Typed, Shaped
    <2> QED
      BY <1>0, <2>1, <2>5, Undisturbed DEF Typed
  <1>4. CASE BgCompaction \/ BgRange
    BY <1>4, CompactionTyped, RangeTyped
  <1>5. CASE MakeOutput \/ InstallCompactionResults \/ BuildTable \/ WriteManifest
    BY <1>5, OutputTyped, ResultsTyped, BuildTyped, RecordTyped
  <1>6. CASE FlushInstalled \/ MoveInstalled \/ CompactionInstalled
    BY <1>6, InstalledTyped
  <1> QED
    BY <1>1, <1>2, <1>3, <1>4, <1>5, <1>6 DEF Background

(* What a crash leaves of the logs are records still.                      *)
LEMMA CrashTyped ==
  ASSUME TypeInv, Crash
  PROVE  Typed'
  <1>0. Typed
    BY DEF TypeInv
  <1>1. /\ up' = "down" /\ mem' = {} /\ imm' = NoMem /\ seq' = 0 /\ minLog' = 0 /\ seek' = 0
        /\ current' = NoFiles /\ queue' = <<>> /\ group' = NoGroup
        /\ snap' = [r \in Readers |-> NoSnapshot]
        /\ pending' = {} /\ flush' = 0 /\ comp' = NoComp /\ edit' = NoEdit /\ range' = NoRange
        /\ UNCHANGED <<tables, manifest>>
    BY DEF Crash
  <1>2. TablesHold'
    <2>1. PICK cut \in [DOMAIN logs -> 0..MaxWrites] :
            /\ \A n \in DOMAIN logs : cut[n] \in logs[n].synced..Len(logs[n].recs)
            /\ logs' = [n \in DOMAIN logs |->
                          [recs |-> SubSeq(logs[n].recs, 1, cut[n]), synced |-> cut[n]]]
      BY DEF Crash
    <2>2. \A n \in DOMAIN logs' : logs'[n].recs \in Seq(Table)
      <3> SUFFICES ASSUME NEW n \in DOMAIN logs
                   PROVE  SubSeq(logs[n].recs, 1, cut[n]) \in Seq(Table)
        BY <2>1
      <3> DEFINE s == logs[n].recs
      <3>1. s \in Seq(Table) /\ Len(s) \in Nat
        BY <1>0, LenProperties DEF Typed, TablesHold
      <3>2. MaxWrites \in Nat
        BY LimitsAssumption
      <3>3. cut[n] \in Nat /\ cut[n] <= Len(s)
        BY <2>1, <3>1, <3>2 DEF TypeInv, NumberInv, LevelInv, Logged
      <3> HIDE DEF s
      <3>4. \A i \in 1..cut[n] : s[i] \in Table
        BY <3>1, <3>3, ElementOfSeq
      <3>5. SubSeq(s, 1, cut[n]) \in Seq(Table)
        BY <3>1, <3>3, <3>4, SubSeqProperties
      <3> QED
        BY <3>5 DEF s
    <2> QED
      BY <1>0, <1>1, <2>2 DEF Typed, TablesHold, Memtable
  <1>3. Queued'
    BY <1>1 DEF Queued
  <1>4. LogInUse'
    BY <1>0, <1>1 DEF Typed, LogInUse
  <1>5. Sequenced'
    BY <1>0, <1>1 DEF Typed, Sequenced
  <1>6. Shaped'
    BY <1>0, <1>1 DEF Typed, Shaped, NoFiles
  <1>7. SeekIsAbove'
    BY <1>1 DEF SeekIsAbove
  <1> QED
    BY <1>2, <1>3, <1>4, <1>5, <1>6, <1>7 DEF Typed

(* The tables made of the logs.                                            *)
LEMMA RecoveredTables ==
  ASSUME TypeInv
  PROVE  \A f \in DOMAIN Recovered.tabs : Recovered.tabs[f] \in Table
  <1>1. \A n \in DOMAIN logs : Memtables(logs[n].recs) \in Seq(Table)
    <2> TAKE n \in DOMAIN logs
    <2>1. \A a, b \in Table : a \cup b \in Table
      BY FS_Union DEF Table
    <2>2. logs[n].recs \in Seq(Table)
      BY DEF TypeInv, Typed, TablesHold
    <2> QED
      BY <2>1, <2>2, MemtablesOfLog
  <1> SUFFICES ASSUME NEW f \in DOMAIN Recovered.tabs
               PROVE  Recovered.tabs[f] \in Table
    OBVIOUS
  <1>2. PICK n \in DOMAIN logs : \E j \in 1..Len(Memtables(logs[n].recs)) :
          Recovered.tabs[f] = Memtables(logs[n].recs)[j]
    BY RecoveredNumber DEF TypeInv, NumberInv, LevelInv, Numbered
  <1> QED
    BY <1>1, <1>2, ElementOfSeq

LEMMA RecoverTyped ==
  ASSUME TypeInv, Recover
  PROVE  Typed'
  <1> USE DEF memVars, logVars, setVars, userVars, bgVars, history
  <1> DEFINE rec == Recovered
             made == DOMAIN rec.tabs
             found == UNION (Range(rec.tabs) \cup {{}})
             seqs == {manifest.seq} \cup {e.seq : e \in found}
  <1>0. Typed /\ up = "down" /\ comp = NoComp
    BY DEF TypeInv, NumberInv, LevelInv, Ended, Recover
  <1>1. /\ up' = "opening"
        /\ tables' = [f \in DOMAIN tables \cup made |->
                        IF f \in made THEN rec.tabs[f] ELSE tables[f]]
        /\ logNo' = rec.next /\ nextFile' = rec.next + 1
        /\ logs' = [n \in DOMAIN logs \cup {rec.next} |->
                      IF n = rec.next THEN [recs |-> <<>>, synced |-> 0] ELSE logs[n]]
        /\ seq' = Max(seqs)
        /\ edit' = EditOf("open", NoFiles, At(0, made), rec.next)
        /\ current' = manifest.files /\ minLog' = manifest.log
        /\ UNCHANGED <<mem, imm, seek, manifest, queue, group, snap, pending, flush, comp, range>>
    BY DEF Recover
  <1>2. rec.next \in Nat /\ IsFiniteSet(made)
    BY RecoveredNumber DEF TypeInv, NumberInv, LevelInv, Numbered
  <1>3. \A f \in made : rec.tabs[f] \in Table
    BY RecoveredTables
  <1>4. seq' \in Nat
    <2>1. found = UNION {rec.tabs[f] : f \in made}
      BY DEF Range
    <2>2. found \subseteq Entry /\ IsFiniteSet(found)
      <3> HIDE DEF made, rec, found
      <3> DEFINE t == rec.tabs
      <3> HIDE DEF t
      <3>1. \A f \in made : t[f] \in Table
        BY <1>3 DEF t
      <3>2. found = UNION {t[f] : f \in made}
        BY <2>1 DEF t
      <3> QED
        BY <1>2, <3>1, <3>2, EntriesOf
    <2> HIDE DEF found
    <2>3. {e.seq : e \in found} \subseteq Nat
      BY <2>2, EntryNumbers
    <2>4. IsFiniteSet({e.seq : e \in found})
      <3> DEFINE g == [e \in found |-> e.seq]
      <3>1. g \in Surjection(found, {e.seq : e \in found})
        BY DEF Surjection
      <3> HIDE DEF g
      <3> QED
        BY <2>2, <3>1, FS_Surjection
    <2>5. manifest.seq \in Nat
      BY <1>0 DEF Typed, Sequenced
    <2>6. seqs \in SUBSET Nat /\ IsFiniteSet(seqs) /\ seqs # {}
      BY <2>3, <2>4, <2>5, FS_Singleton, FS_Union
    <2> HIDE DEF seqs
    <2> QED
      BY <1>1, <2>6, MaxOfFinite
  <1> HIDE DEF rec, found, seqs
  <1>5. TablesHold'
    <2>1. \A f \in DOMAIN tables' : tables'[f] \in Table
      BY <1>0, <1>1, <1>3 DEF Typed, TablesHold
    <2>2. \A n \in DOMAIN logs' : logs'[n].recs \in Seq(Table)
      <3>1. <<>> \in Seq(Table)
        OBVIOUS
      <3> QED
        BY <1>0, <1>1, <3>1 DEF Typed, TablesHold
    <2> QED
      BY <1>0, <1>1, <2>1, <2>2 DEF Typed, TablesHold
  <1>6. /\ {"log", "seq"} \subseteq DOMAIN edit' /\ edit'.log = rec.next /\ edit'.seq = seq'
    BY <1>1 DEF EditOf
  <1>7. LogInUse'
    <2>1. manifest.log \in Nat /\ "log" \in DOMAIN manifest
      BY <1>0 DEF Typed, LogInUse
    <2>2. logNo' \in DOMAIN logs' /\ logNo' \in Nat /\ logNo' < nextFile'
      BY <1>1, <1>2
    <2> QED
      BY <1>1, <1>2, <1>6, <2>1, <2>2 DEF LogInUse
  <1>8. Sequenced'
    BY <1>0, <1>1, <1>4, <1>6 DEF Typed, Sequenced
  <1>9. Shaped'
    BY <1>0, <1>1 DEF Typed, Shaped
  <1>10. SeekIsAbove'
    BY <1>0, <1>1 DEF Typed, Shaped, SeekIsAbove
  <1> QED
    BY <1>0, <1>1, <1>5, <1>7, <1>8, <1>9, <1>10, Undisturbed DEF Typed, waitVars

LEMMA TypesInvariant == Spec => []TypeInv
  <1>1. Init => Typed
    BY InitTyped
  <1>2. ASSUME NumberInv, Finite, Typed, Next
        PROVE  Typed'
    <2>1. TypeInv
      BY <1>2 DEF TypeInv
    <2> QED
      BY <1>2, <2>1, CallsTyped, ForegroundTyped, BackgroundTyped, DoubtTyped, CrashTyped,
         RecoverTyped, InstalledTyped DEF Next
  <1>3. Typed /\ UNCHANGED vars => Typed'
    <2> SUFFICES ASSUME Typed, UNCHANGED vars
                 PROVE  Typed'
      OBVIOUS
    <2>1. UNCHANGED <<holdVars, waitVars, inUseVars, numVars, shapeVars, wornVars>>
      BY DEF vars, memVars, logVars, setVars, userVars, bgVars, holdVars, waitVars, inUseVars,
             numVars, shapeVars, wornVars
    <2> QED
      BY <2>1, Undisturbed DEF Typed
  <1>4. Spec => []Typed
    BY <1>1, <1>2, <1>3, NumberInvariant, FinitelyMany, PTL DEF Spec
  <1> QED
    BY <1>4, NumberInvariant, FinitelyMany, PTL DEF TypeInv

(* The variables keep their types in every behaviour.                      *)
THEOREM DatabaseTypes == Spec => []TypeOK
  <1>1. TypeInv => TypeOK
    <2> SUFFICES ASSUME TypeInv
                 PROVE  TypeOK
      OBVIOUS
    <2>1. TablesHold /\ Queued /\ LogInUse /\ Sequenced /\ Shaped /\ LevelInv /\ GivenOut
      BY DEF TypeInv, Typed, NumberInv
    <2>2. mem \subseteq Entry /\ (imm = NoMem \/ imm \subseteq Entry)
      BY <2>1 DEF TablesHold, Memtable, Table
    <2>3. \A f \in DOMAIN tables : tables[f] # {} /\ tables[f] \subseteq Entry
      BY <2>1 DEF TablesHold, Table
    <2>4. current \in [Level -> SUBSET Nat]
      <3>1. \A l \in Level : current[l] \subseteq Files(current)
        BY DEF Files
      <3>2. Files(current) \subseteq Nat
        BY <2>1 DEF GivenOut, InUseBelow, Below
      <3> QED
        BY <2>1, <3>1, <3>2 DEF Shaped
    <2>5. /\ seq \in Nat /\ nextFile \in Nat /\ minLog \in Nat
          /\ up = "open" => logNo \in DOMAIN logs
          /\ \A r \in Readers : snap[r] = NoSnapshot \/ snap[r] \in Nat
      BY <2>1 DEF Sequenced, LogInUse, LevelInv, Numbered
    <2>6. /\ pending \subseteq Nat /\ bgError \in BOOLEAN /\ scheduled \in BOOLEAN
          /\ up \in {"open", "down", "opening"}
          /\ group = NoGroup \/ group.n <= Len(queue)
      BY <2>1 DEF Shaped, LevelInv, Formed, Queued
    <2> QED
      BY <2>2, <2>3, <2>4, <2>5, <2>6 DEF TypeOK
  <1> QED
    BY <1>1, TypesInvariant, PTL

(* Version::Get charges the first of at least two files, which is never    *)
(* one of the last level, and file_to_compact_ is forgotten with the       *)
(* version: a file that reads have worn out always has a level below it.   *)
THEOREM WornFilesGoDown == Spec => []SeekIsAbove
  <1>1. TypeInv => SeekIsAbove
    BY DEF TypeInv, Typed
  <1> QED
    BY <1>1, TypesInvariant, PTL
=============================================================================
