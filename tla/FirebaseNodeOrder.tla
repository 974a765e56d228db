------------------------- MODULE FirebaseNodeOrder -------------------------
(* The newest write of a client shadows everything else until it has been  *)
(* answered, and its answer changes nothing: NewestShadows, AcksAreSilent, *)
(* for any clients, values and bounds.  The second part says which values  *)
(* a client may still come to show, and how each step changes that: what   *)
(* the match's turn rests on (OmokTurnProofs).                             *)
EXTENDS FirebaseNodeDelivery

(* The messages of a kind in a queue, and that their ids rise.             *)
Of(s, op) == {s[i] : i \in {j \in 1..Len(s) : s[j].op = op}}
Rising(s, op) ==
  \A i, j \in 1..Len(s) :
    i < j /\ s[i].op = op /\ s[j].op = op => s[i].id < s[j].id

(* Ids tell the pending writes apart, and the newest write is among them.  *)
Newest(c) == [id |-> nextId[c] - 1, val |-> latest[c]]

NewestPending(c) ==
  /\ \A w \in pend[c] : w.id < nextId[c]
  /\ \A w, x \in pend[c] : w.id = x.id => w = x
  /\ pend[c] # {} => Newest(c) \in pend[c]

(* What is held was answered before what is not.                           *)
HeldFirst(c) ==
  \A h \in held[c] : h < nextId[c] /\ \A w \in Unheld(c) : h < w.id

(* A put or its answer on the wire is that of a pending write whose answer *)
(* is not held, ...                                                        *)
Answers(c, m) == \E w \in Unheld(c) : m.id = w.id /\ m.val \in {Null, w.val}
Sends(c, m)   == \E w \in Unheld(c) : m = Put(w)

(* ... and they are there in the order of the writes.                      *)
InLine(c) ==
  /\ Rising(up[c], "put") /\ Rising(down[c], "ack")
  /\ \A p \in Of(up[c], "put") : Sends(c, p)
  /\ \A a \in Of(down[c], "ack") : Answers(c, a)
  /\ \A a \in Of(down[c], "ack"), p \in Of(up[c], "put") : a.id < p.id

OrderInvOf(c) == NewestPending(c) /\ HeldFirst(c) /\ InLine(c)
OrderInv == \A c \in Client : OrderInvOf(c)

(* Once the answer to the listen is sent, every message tells a value.     *)
Valued(s, k) == \A j \in k..Len(s) : s[j].val # Null

Telling(c) ==
  /\ listens[c] /\ ~asked[c] => c \in watching /\ Valued(down[c], 1)
  /\ \A i \in 1..Len(down[c]) : down[c][i].op = "listened" =>
       c \in watching /\ Valued(down[c], i)
TellInv == \A c \in Client : Telling(c)
-----------------------------------------------------------------------------
LEMMA OfAppend ==
  ASSUME NEW S, NEW s \in Seq(S), NEW x \in S, NEW op
  PROVE  /\ Of(Append(s, x), op) = Of(s, op) \cup (IF x.op = op THEN {x} ELSE {})
         /\ Rising(s, op) /\ (x.op = op => \A m \in Of(s, op) : m.id < x.id)
              => Rising(Append(s, x), op)
  <1> DEFINE t == Append(s, x)
  <1>1. /\ Len(s) \in Nat /\ Len(t) = Len(s) + 1
        /\ \A i \in 1..Len(s) : t[i] = s[i]
        /\ t[Len(s) + 1] = x
    BY AppendFacts
  <1> HIDE DEF t
  <1>2. Of(t, op) = Of(s, op) \cup (IF x.op = op THEN {x} ELSE {})
    <2>1. Of(t, op) \subseteq Of(s, op) \cup (IF x.op = op THEN {x} ELSE {})
      BY <1>1 DEF Of
    <2>2. Of(s, op) \subseteq Of(t, op)
      BY <1>1 DEF Of
    <2>3. x.op = op => x \in Of(t, op)
      BY <1>1 DEF Of
    <2> QED
      BY <2>1, <2>2, <2>3
  <1>3. ASSUME Rising(s, op), x.op = op => \A m \in Of(s, op) : m.id < x.id
        PROVE  Rising(t, op)
    <2> SUFFICES ASSUME NEW i \in 1..Len(t), NEW j \in 1..Len(t), i < j,
                        t[i].op = op, t[j].op = op
                 PROVE  t[i].id < t[j].id
      BY DEF Rising
    <2>1. CASE j \in 1..Len(s)
      <3>1. i \in 1..Len(s)
        BY <2>1, <1>1
      <3> QED
        BY <1>1, <1>3, <2>1, <3>1 DEF Rising
    <2>2. CASE j = Len(s) + 1
      <3>1. i \in 1..Len(s) /\ t[i] = s[i] /\ t[j] = x
        BY <2>2, <1>1
      <3>2. t[i] \in Of(s, op)
        BY <3>1 DEF Of
      <3> QED
        BY <1>3, <3>1, <3>2
    <2> QED
      BY <1>1, <2>1, <2>2
  <1> QED
    BY <1>2, <1>3 DEF t

LEMMA OfTail ==
  ASSUME NEW S, NEW s \in Seq(S), s # <<>>, NEW op
  PROVE  /\ Of(s, op) = Of(Tail(s), op)
                          \cup (IF Head(s).op = op THEN {Head(s)} ELSE {})
         /\ Rising(s, op) => /\ Rising(Tail(s), op)
                             /\ Head(s).op = op =>
                                  \A m \in Of(Tail(s), op) : Head(s).id < m.id
  <1> DEFINE t == Tail(s)
  <1>1. /\ Len(s) \in Nat \ {0} /\ Len(t) = Len(s) - 1 /\ Head(s) = s[1]
        /\ \A i \in 1..Len(t) : t[i] = s[i + 1]
    BY TailFacts
  <1> HIDE DEF t
  <1>2. \A i \in 1..Len(t) : i + 1 \in 1..Len(s)
    BY <1>1
  <1>3. ASSUME NEW i \in 1..Len(s)
        PROVE  i = 1 \/ (i - 1 \in 1..Len(t) /\ t[i - 1] = s[i])
    BY <1>1
  <1>4. Of(s, op) = Of(t, op) \cup (IF Head(s).op = op THEN {Head(s)} ELSE {})
    <2>1. Of(s, op) \subseteq Of(t, op) \cup (IF Head(s).op = op THEN {Head(s)} ELSE {})
      BY <1>1, <1>3 DEF Of
    <2>2. Of(t, op) \subseteq Of(s, op)
      BY <1>1, <1>2 DEF Of
    <2>3. Head(s).op = op => Head(s) \in Of(s, op)
      BY <1>1 DEF Of
    <2> QED
      BY <2>1, <2>2, <2>3
  <1>5. ASSUME Rising(s, op)
        PROVE  Rising(t, op)
    <2> SUFFICES ASSUME NEW i \in 1..Len(t), NEW j \in 1..Len(t), i < j,
                        t[i].op = op, t[j].op = op
                 PROVE  t[i].id < t[j].id
      BY DEF Rising
    <2>1. /\ i + 1 \in 1..Len(s) /\ j + 1 \in 1..Len(s) /\ i + 1 < j + 1
          /\ t[i] = s[i + 1] /\ t[j] = s[j + 1]
      BY <1>1, <1>2
    <2> QED
      BY <1>5, <2>1 DEF Rising
  <1>6. ASSUME Rising(s, op), Head(s).op = op, NEW m \in Of(t, op)
        PROVE  Head(s).id < m.id
    <2>1. PICK i \in 1..Len(t) : t[i] = m /\ m.op = op
      BY DEF Of
    <2>2. 1 \in 1..Len(s) /\ i + 1 \in 1..Len(s) /\ 1 < i + 1 /\ s[i + 1] = m
      BY <1>1, <1>2, <2>1
    <2> QED
      BY <1>1, <1>6, <2>1, <2>2 DEF Rising
  <1> QED
    BY <1>4, <1>5, <1>6 DEF t

(* A message of another kind makes no difference.                          *)
LEMMA OtherKind ==
  ASSUME NEW S, NEW s \in Seq(S), NEW op
  PROVE  /\ \A x \in S : x.op # op =>
              /\ Of(Append(s, x), op) = Of(s, op)
              /\ Rising(s, op) => Rising(Append(s, x), op)
         /\ s # <<>> /\ Head(s).op # op =>
              /\ Of(Tail(s), op) = Of(s, op)
              /\ Rising(s, op) => Rising(Tail(s), op)
  <1>1. ASSUME NEW x \in S, x.op # op
        PROVE  /\ Of(Append(s, x), op) = Of(s, op)
               /\ Rising(s, op) => Rising(Append(s, x), op)
    <2>1. Of(Append(s, x), op) = Of(s, op) \cup (IF x.op = op THEN {x} ELSE {})
      BY OfAppend
    <2>2. Rising(s, op) => Rising(Append(s, x), op)
      BY <1>1, OfAppend
    <2> QED
      BY <1>1, <2>1, <2>2
  <1>2. ASSUME s # <<>>, Head(s).op # op
        PROVE  /\ Of(Tail(s), op) = Of(s, op)
               /\ Rising(s, op) => Rising(Tail(s), op)
    <2>1. Of(s, op) = Of(Tail(s), op)
                        \cup (IF Head(s).op = op THEN {Head(s)} ELSE {})
      BY <1>2, OfTail
    <2>2. Rising(s, op) => Rising(Tail(s), op)
      BY <1>2, OfTail
    <2> QED
      BY <1>2, <2>1, <2>2
  <1> QED
    BY <1>1, <1>2

LEMMA UnderOf ==
  /\ \A s, id : PutUnder(s, id) <=> \E m \in Of(s, "put") : m.id = id
  /\ \A s, id : AckUnder(s, id) <=> \E m \in Of(s, "ack") : m.id = id
  BY DEF PutUnder, AckUnder, Of

(* The empty queue.                                                        *)
LEMMA OfEmpty == \A op : Of(<<>>, op) = {} /\ Rising(<<>>, op)
  BY DEF Of, Rising

(* A pending write whose answer is not held has its put or its answer on   *)
(* the wire: what Tracked says.                                            *)
LEMMA OnTheWire ==
  ASSUME NetInv, NEW c \in Client, NEW w \in Unheld(c)
  PROVE  \/ \E p \in Of(up[c], "put") : p.id = w.id
         \/ \E a \in Of(down[c], "ack") : a.id = w.id
  BY UnderOf DEF NetInv, NetInvOf, Tracked, Unheld
-----------------------------------------------------------------------------
(* OrderInvOf(d) is about nothing but these, so it stands when they do.    *)
LEMMA Unordered ==
  ASSUME NEW d \in Client, OrderInvOf(d),
         up'[d] = up[d], pend'[d] = pend[d], held'[d] = held[d],
         nextId'[d] = nextId[d], latest'[d] = latest[d],
         Of(down[d], "ack")' = Of(down[d], "ack"),
         Rising(down[d], "ack")' <=> Rising(down[d], "ack")
  PROVE  OrderInvOf(d)'
  BY DEF OrderInvOf, NewestPending, Newest, HeldFirst, Unheld, InLine, Sends,
         Answers

LEMMA InitOrderInv == NodeInit => OrderInv
  BY OfEmpty DEF NodeInit, OrderInv, OrderInvOf, NewestPending, HeldFirst, InLine

(* A new write is behind all others.                                       *)
LEMMA RecordOrder ==
  ASSUME TInv, OrderInv, NEW c \in Client, NEW v \in Value, Record(c, v),
         UNCHANGED <<down, held>>,
         Of(up'[c], "put") =
           Of(up[c], "put") \cup {Put([id |-> nextId[c], val |-> v])},
         Rising(up'[c], "put"),
         \A d \in Client : d # c => up'[d] = up[d]
  PROVE  OrderInv'
  <1> DEFINE w == [id |-> nextId[c], val |-> v]
  <1>1. /\ pend'[c] = pend[c] \cup {w} /\ latest'[c] = v
        /\ nextId'[c] = nextId[c] + 1 /\ nextId[c] \in Nat
        /\ \A d \in Client : d # c => /\ pend'[d] = pend[d]
                                      /\ latest'[d] = latest[d]
                                      /\ nextId'[d] = nextId[d]
    BY DEF Record, TInv, TypeOK
  <1>2. \A x \in pend[c] : x.id \in Nat /\ x.id < nextId[c]
    BY DEF TInv, TypeOK, Write0, OrderInv, OrderInvOf, NewestPending
  <1>3. \A h \in held[c] : h \in Nat /\ h < nextId[c]
    BY DEF TInv, TypeOK, OrderInv, OrderInvOf, HeldFirst
  <1>4. Unheld(c)' = Unheld(c) \cup {w}
    BY <1>1, <1>3 DEF Unheld
  <1>5. NewestPending(c)'
    <2>1. Newest(c)' = w
      BY <1>1 DEF Newest
    <2> QED
      BY <1>1, <1>2, <2>1 DEF NewestPending, OrderInv, OrderInvOf
  <1>6. HeldFirst(c)'
    BY <1>1, <1>3, <1>4 DEF HeldFirst, OrderInv, OrderInvOf
  <1>7. InLine(c)'
    <2>1. \A p \in Of(up'[c], "put") : Sends(c, p)'
      BY <1>4 DEF OrderInv, OrderInvOf, InLine, Sends
    <2>2. \A a \in Of(down[c], "ack") : Answers(c, a)'
      BY <1>4 DEF OrderInv, OrderInvOf, InLine, Answers
    <2>3. ASSUME NEW a \in Of(down[c], "ack")
          PROVE  a.id < Put(w).id
      BY <1>2 DEF OrderInv, OrderInvOf, InLine, Answers, Unheld, Put
    <2>4. \A a \in Of(down[c], "ack"), p \in Of(up'[c], "put") : a.id < p.id
      BY <2>3 DEF OrderInv, OrderInvOf, InLine
    <2> QED
      BY <2>1, <2>2, <2>4 DEF OrderInv, OrderInvOf, InLine
  <1>8. ASSUME NEW d \in Client, d # c
        PROVE  OrderInvOf(d)'
    BY <1>1, <1>8, Unordered DEF OrderInv
  <1> QED
    BY <1>5, <1>6, <1>7, <1>8 DEF OrderInv, OrderInvOf

(* The put of a new write goes behind the others.                          *)
LEMMA PutAppended ==
  ASSUME TInv, OrderInv, NEW c \in Client, NEW v \in Value, Record(c, v)
  PROVE  LET m == Put([id |-> nextId[c], val |-> v])
         IN /\ m \in UpMsg
            /\ Of(Append(up[c], m), "put") = Of(up[c], "put") \cup {m}
            /\ Rising(Append(up[c], m), "put")
  <1> DEFINE m == Put([id |-> nextId[c], val |-> v])
  <1>1. m \in UpMsg /\ m.op = "put" /\ m.id = nextId[c] /\ up[c] \in Seq(UpMsg)
    BY RecordType DEF TInv, TypeOK, Put
  <1>2. Rising(up[c], "put") /\ \A p \in Of(up[c], "put") : p.id < m.id
    BY <1>1 DEF OrderInv, OrderInvOf, InLine, Sends, NewestPending, Unheld, Put
  <1> HIDE DEF m
  <1>3. /\ Of(Append(up[c], m), "put") = Of(up[c], "put") \cup {m}
        /\ Rising(Append(up[c], m), "put")
    BY <1>1, <1>2, OfAppend
  <1> QED
    BY <1>1, <1>3 DEF m

(* The question for the data is no put.                                    *)
LEMMA AskAppended ==
  ASSUME NEW s \in Seq(UpMsg)
  PROVE  /\ Of(Append(s, Ask), "put") = Of(s, "put")
         /\ Rising(s, "put") => Rising(Append(s, Ask), "put")
  <1>1. Ask \in UpMsg /\ Ask.op # "put"
    BY DEF Ask, UpMsg
  <1> QED
    BY <1>1, OtherKind

LEMMA WriteOrder ==
  ASSUME TInv, OrderInv, NEW c \in Client, NEW v \in Value, Write(c, v)
  PROVE  OrderInv'
  <1> DEFINE m == Put([id |-> nextId[c], val |-> v])
  <1>1. Record(c, v) /\ UNCHANGED <<down, held>>
    BY DEF Write
  <1>2. /\ up'[c] = Append(up[c], m)
        /\ \A d \in Client : d # c => up'[d] = up[d]
    BY DEF Write, TInv, TypeOK
  <1> QED
    BY <1>1, <1>2, PutAppended, RecordOrder

LEMMA WriteThenListenOrder ==
  ASSUME TInv, OrderInv, NEW c \in Client, NEW v \in Value,
         WriteThenListen(c, v)
  PROVE  OrderInv'
  <1> DEFINE m == Put([id |-> nextId[c], val |-> v])
             s == Append(up[c], m)
  <1>1. Record(c, v) /\ UNCHANGED <<down, held>>
    BY DEF WriteThenListen
  <1>2. /\ up'[c] = up[c] \o <<m, Ask>>
        /\ \A d \in Client : d # c => up'[d] = up[d]
    BY DEF WriteThenListen, TInv, TypeOK
  <1>3. /\ m \in UpMsg /\ up[c] \in Seq(UpMsg) /\ Ask \in UpMsg
        /\ Of(s, "put") = Of(up[c], "put") \cup {m} /\ Rising(s, "put")
    BY <1>1, PutAppended DEF TInv, TypeOK, Ask, UpMsg
  <1>4. up'[c] = Append(s, Ask) /\ s \in Seq(UpMsg)
    <2> HIDE DEF m
    <2> QED
      BY <1>2, <1>3
  <1>5. /\ Of(up'[c], "put") = Of(up[c], "put") \cup {m}
        /\ Rising(up'[c], "put")
    <2> HIDE DEF s
    <2> QED
      BY <1>3, <1>4, AskAppended
  <1> QED
    BY <1>1, <1>2, <1>5, RecordOrder

LEMMA ListenOrder ==
  ASSUME TInv, OrderInv, NEW c \in Client, Listen(c)
  PROVE  OrderInv'
  <1>1. /\ up'[c] = Append(up[c], Ask) /\ up[c] \in Seq(UpMsg)
        /\ \A d \in Client : d # c => up'[d] = up[d]
        /\ UNCHANGED <<down, pend, held, nextId, latest>>
    BY DEF Listen, TInv, TypeOK
  <1>2. /\ Of(up'[c], "put") = Of(up[c], "put")
        /\ Rising(up[c], "put") => Rising(up'[c], "put")
    BY <1>1, AskAppended
  <1>3. OrderInvOf(c)'
    <2>1. Unheld(c)' = Unheld(c)
      BY <1>1 DEF Unheld
    <2>2. NewestPending(c)' /\ HeldFirst(c)'
      BY <1>1, <2>1 DEF OrderInv, OrderInvOf, NewestPending, Newest, HeldFirst
    <2>3. /\ \A p : Sends(c, p)' <=> Sends(c, p)
          /\ \A a : Answers(c, a)' <=> Answers(c, a)
      BY <2>1 DEF Sends, Answers
    <2>4. InLine(c)'
      BY <1>1, <1>2, <2>3 DEF OrderInv, OrderInvOf, InLine
    <2> QED
      BY <2>2, <2>4 DEF OrderInvOf
  <1> QED
    BY <1>1, <1>3, Unordered DEF OrderInv

(* The answer to a put goes behind the answers on their way, and the puts  *)
(* that are left are later ones.                                           *)
LEMMA ServerPutOrder ==
  ASSUME TInv, OrderInv, NEW c \in Client, ServerPut(c)
  PROVE  OrderInv'
  <1> DEFINE m == Head(up[c])
             answer == [op |-> "ack", id |-> m.id,
                        val |-> IF c \in watching THEN m.val ELSE Null]
             push == [op |-> "data", val |-> m.val]
  <1>1. up[c] \in Seq(UpMsg) /\ up[c] # <<>> /\ m.op = "put"
    BY DEF ServerPut, TInv, TypeOK
  <1>2. m.id \in Nat /\ m.val \in Value
    BY <1>1, TailFacts DEF UpMsg
  <1>3. /\ answer \in DownMsg /\ push \in DownMsg /\ push.op # "ack"
        /\ answer.op = "ack" /\ answer.id = m.id /\ answer.val \in {Null, m.val}
    BY <1>2 DEF DownMsg
  <1>4. /\ up'[c] = Tail(up[c]) /\ down'[c] = Append(down[c], answer)
        /\ \A d \in Client : d # c =>
             /\ up'[d] = up[d]
             /\ down'[d] \in {down[d], Append(down[d], push)}
        /\ UNCHANGED <<pend, latest, nextId, held>>
    BY DEF ServerPut, clientVars, TInv, TypeOK
  <1>5. \A d \in Client : down[d] \in Seq(DownMsg)
    BY DEF TInv, TypeOK
  <1> HIDE DEF m, answer, push
  <1>6. /\ Of(up[c], "put") = Of(up'[c], "put") \cup {m}
        /\ Rising(up'[c], "put")
        /\ \A p \in Of(up'[c], "put") : m.id < p.id
    BY <1>1, <1>4, OfTail DEF OrderInv, OrderInvOf, InLine, m
  <1>7. \A a \in Of(down[c], "ack") : a.id < answer.id
    BY <1>3, <1>6 DEF OrderInv, OrderInvOf, InLine
  <1>8. /\ Of(down'[c], "ack") = Of(down[c], "ack") \cup {answer}
        /\ Rising(down'[c], "ack")
    BY <1>3, <1>4, <1>5, <1>7, OfAppend DEF OrderInv, OrderInvOf, InLine
  <1>9. OrderInvOf(c)'
    <2>1. Unheld(c)' = Unheld(c)
      BY <1>4 DEF Unheld
    <2>2. NewestPending(c)' /\ HeldFirst(c)'
      BY <1>4, <2>1 DEF OrderInv, OrderInvOf, NewestPending, Newest, HeldFirst
    <2>3. /\ \A p : Sends(c, p)' <=> Sends(c, p)
          /\ \A a : Answers(c, a)' <=> Answers(c, a)
      BY <2>1 DEF Sends, Answers
    <2>4. Answers(c, answer)
      <3>1. Sends(c, m)
        BY <1>6 DEF OrderInv, OrderInvOf, InLine
      <3> QED
        BY <3>1, <1>3 DEF Sends, Answers, Put
    <2>5. InLine(c)'
      BY <1>3, <1>6, <1>8, <2>3, <2>4 DEF OrderInv, OrderInvOf, InLine
    <2> QED
      BY <2>2, <2>5 DEF OrderInvOf
  <1>10. ASSUME NEW d \in Client, d # c
         PROVE  OrderInvOf(d)'
    <2>1. /\ Of(down'[d], "ack") = Of(down[d], "ack")
          /\ Rising(down[d], "ack") => Rising(down'[d], "ack")
      <3>1. /\ Of(Append(down[d], push), "ack") = Of(down[d], "ack")
            /\ Rising(down[d], "ack") => Rising(Append(down[d], push), "ack")
        BY <1>3, <1>5, OtherKind
      <3> QED
        BY <1>4, <1>10, <3>1
    <2> QED
      BY <1>4, <1>10, <2>1, Unordered DEF OrderInv, OrderInvOf, InLine
  <1> QED
    BY <1>9, <1>10 DEF OrderInv

LEMMA ServerListenOrder ==
  ASSUME TInv, OrderInv, NEW c \in Client, ServerListen(c)
  PROVE  OrderInv'
  <1> DEFINE answer == [op |-> "listened", val |-> server]
  <1>1. up[c] \in Seq(UpMsg) /\ up[c] # <<>> /\ Head(up[c]).op # "put"
    BY DEF ServerListen, TInv, TypeOK
  <1>2. answer \in DownMsg /\ answer.op # "ack" /\ down[c] \in Seq(DownMsg)
    BY DEF TInv, TypeOK, DownMsg
  <1>3. /\ up'[c] = Tail(up[c]) /\ down'[c] = Append(down[c], answer)
        /\ \A d \in Client : d # c => up'[d] = up[d] /\ down'[d] = down[d]
        /\ UNCHANGED <<pend, latest, nextId, held>>
    BY DEF ServerListen, clientVars, TInv, TypeOK
  <1> HIDE DEF answer
  <1>4. /\ Of(up'[c], "put") = Of(up[c], "put")
        /\ Rising(up[c], "put") => Rising(up'[c], "put")
    BY <1>1, <1>3, OtherKind
  <1>5. /\ Of(down'[c], "ack") = Of(down[c], "ack")
        /\ Rising(down[c], "ack") => Rising(down'[c], "ack")
    BY <1>2, <1>3, OtherKind
  <1>6. OrderInvOf(c)'
    <2>1. Unheld(c)' = Unheld(c)
      BY <1>3 DEF Unheld
    <2>2. NewestPending(c)' /\ HeldFirst(c)'
      BY <1>3, <2>1 DEF OrderInv, OrderInvOf, NewestPending, Newest, HeldFirst
    <2>3. /\ \A p : Sends(c, p)' <=> Sends(c, p)
          /\ \A a : Answers(c, a)' <=> Answers(c, a)
      BY <2>1 DEF Sends, Answers
    <2>4. InLine(c)'
      BY <1>4, <1>5, <2>3 DEF OrderInv, OrderInvOf, InLine
    <2> QED
      BY <2>2, <2>4 DEF OrderInvOf
  <1> QED
    BY <1>3, <1>6, Unordered DEF OrderInv
-----------------------------------------------------------------------------
(* Taking a message that is no answer to a put.                            *)
LEMMA NoAckTaken ==
  ASSUME TInv, OrderInv, NEW c \in Client, down[c] # <<>>,
         Head(down[c]).op # "ack", down'[c] = Tail(down[c])
  PROVE  /\ Of(down[c], "ack")' = Of(down[c], "ack")
         /\ Rising(down[c], "ack")' <=> Rising(down[c], "ack")
  <1>1. down[c] \in Seq(DownMsg)
    BY DEF TInv, TypeOK
  <1> QED
    BY <1>1, OtherKind DEF OrderInv, OrderInvOf, InLine

(* When the held answers are acted on, what stays pending are the writes   *)
(* after them - the newest one among them, if any.                         *)
LEMMA Settled ==
  ASSUME TInv, OrderInv, NEW c \in Client,
         pend'[c] = Unheld(c), held'[c] = {}, up'[c] = up[c],
         nextId'[c] = nextId[c], latest'[c] = latest[c],
         Of(down[c], "ack")' = Of(down[c], "ack"),
         Rising(down[c], "ack")' <=> Rising(down[c], "ack")
  PROVE  OrderInvOf(c)'
  <1>1. Unheld(c)' = Unheld(c) /\ Unheld(c) \subseteq pend[c]
    BY DEF Unheld
  <1>2. ASSUME NEW w \in Unheld(c)
        PROVE  Newest(c) \in Unheld(c)
    <2>1. Newest(c) \in pend[c]
      BY <1>1 DEF OrderInv, OrderInvOf, NewestPending
    <2>2. w.id \in Nat /\ nextId[c] \in Nat /\ w.id < nextId[c]
      BY <1>1 DEF OrderInv, OrderInvOf, NewestPending, TInv, TypeOK, Write0
    <2>3. CASE Newest(c).id \in held[c]
      <3>1. Newest(c).id < w.id /\ Newest(c).id = nextId[c] - 1
        BY <2>3 DEF OrderInv, OrderInvOf, HeldFirst, Newest
      <3> QED
        BY <2>2, <3>1
    <2> QED
      BY <2>1, <2>3 DEF Unheld
  <1>3. Newest(c)' = Newest(c)
    BY DEF Newest
  <1>4. NewestPending(c)'
    BY <1>1, <1>2, <1>3 DEF OrderInv, OrderInvOf, NewestPending
  <1>5. HeldFirst(c)'
    BY DEF HeldFirst
  <1>6. /\ \A p : Sends(c, p)' <=> Sends(c, p)
        /\ \A a : Answers(c, a)' <=> Answers(c, a)
    BY <1>1 DEF Sends, Answers
  <1>7. InLine(c)'
    BY <1>6 DEF OrderInv, OrderInvOf, InLine
  <1> QED
    BY <1>4, <1>5, <1>7 DEF OrderInvOf

LEMMA ReceiveDataOrder ==
  ASSUME TInv, OrderInv, NEW c \in Client, ReceiveData(c)
  PROVE  OrderInv'
  <1>1. /\ down[c] # <<>> /\ Head(down[c]).op # "ack" /\ down'[c] = Tail(down[c])
        /\ \A d \in Client : d # c => down'[d] = down[d]
        /\ UNCHANGED <<up, pend, latest, nextId, held>>
    BY DEF ReceiveData, TInv, TypeOK
  <1>2. OrderInvOf(c)'
    BY <1>1, NoAckTaken, Unordered DEF OrderInv
  <1> QED
    BY <1>1, <1>2, Unordered DEF OrderInv

LEMMA ReceiveListenedOrder ==
  ASSUME TInv, OrderInv, NEW c \in Client, ReceiveListened(c)
  PROVE  OrderInv'
  <1>1. /\ down[c] # <<>> /\ Head(down[c]).op # "ack" /\ down'[c] = Tail(down[c])
        /\ \A d \in Client : d # c =>
             down'[d] = down[d] /\ pend'[d] = pend[d] /\ held'[d] = held[d]
        /\ UNCHANGED <<up, latest, nextId>>
        /\ pend'[c] = (IF busy[c] THEN pend[c] ELSE Unheld(c))
        /\ held'[c] = (IF busy[c] THEN held[c] ELSE {})
    BY DEF ReceiveListened, TInv, TypeOK
  <1>2. /\ Of(down[c], "ack")' = Of(down[c], "ack")
        /\ Rising(down[c], "ack")' <=> Rising(down[c], "ack")
    BY <1>1, NoAckTaken
  <1>3. CASE busy[c]
    BY <1>1, <1>2, <1>3, Unordered DEF OrderInv
  <1>4. CASE ~busy[c]
    <2>1. OrderInvOf(c)'
      BY <1>1, <1>2, <1>4, Settled
    <2> QED
      BY <1>1, <2>1, Unordered DEF OrderInv
  <1> QED
    BY <1>3, <1>4

LEMMA OtherListenedOrder ==
  ASSUME TInv, OrderInv, NEW c \in Client, OtherListened(c)
  PROVE  OrderInv'
  <1>1. /\ \A d \in Client : d # c => pend'[d] = pend[d] /\ held'[d] = held[d]
        /\ UNCHANGED <<up, down, latest, nextId>>
        /\ pend'[c] = (IF asked[c] THEN pend[c] ELSE Unheld(c))
        /\ held'[c] = (IF asked[c] THEN held[c] ELSE {})
    BY DEF OtherListened, netVars, TInv, TypeOK
  <1>2. CASE asked[c]
    BY <1>1, <1>2, Unordered DEF OrderInv
  <1>3. CASE ~asked[c]
    <2>1. OrderInvOf(c)'
      BY <1>1, <1>3, Settled
    <2> QED
      BY <1>1, <2>1, Unordered DEF OrderInv
  <1> QED
    BY <1>2, <1>3

(* The answer to a put, at the head of the queue, is that of the oldest    *)
(* write that is not answered yet.                                         *)
LEMMA AckTaken ==
  ASSUME TInv, NetInv, OrderInv, NEW c \in Client, down[c] # <<>>,
         Head(down[c]).op = "ack"
  PROVE  \E w \in Unheld(c) :
           /\ w.id = Head(down[c]).id /\ Head(down[c]).val \in {Null, w.val}
           /\ \A x \in Unheld(c) : x.id = w.id \/ w.id < x.id
           /\ \A a \in Of(Tail(down[c]), "ack") : w.id < a.id
           /\ \A p \in Of(up[c], "put") : w.id < p.id
           /\ Of(Tail(down[c]), "ack") \subseteq Of(down[c], "ack")
           /\ Rising(Tail(down[c]), "ack")
  <1> DEFINE m == Head(down[c])
  <1>1. down[c] \in Seq(DownMsg)
    BY DEF TInv, TypeOK
  <1>2. /\ Of(down[c], "ack") = Of(Tail(down[c]), "ack") \cup {m}
        /\ Rising(Tail(down[c]), "ack")
        /\ \A a \in Of(Tail(down[c]), "ack") : m.id < a.id
    BY <1>1, OfTail DEF OrderInv, OrderInvOf, InLine
  <1>3. PICK w \in Unheld(c) : m.id = w.id /\ m.val \in {Null, w.val}
    BY <1>2 DEF OrderInv, OrderInvOf, InLine, Answers
  <1>4. \A p \in Of(up[c], "put") : w.id < p.id
    BY <1>2, <1>3 DEF OrderInv, OrderInvOf, InLine
  <1>5. ASSUME NEW x \in Unheld(c)
        PROVE  x.id = w.id \/ w.id < x.id
    <2>1. CASE \E p \in Of(up[c], "put") : p.id = x.id
      BY <1>4, <2>1
    <2>2. CASE \E a \in Of(down[c], "ack") : a.id = x.id
      BY <1>2, <1>3, <2>2
    <2> QED
      BY <2>1, <2>2, OnTheWire
  <1> QED
    BY <1>2, <1>3, <1>4, <1>5

(* A write that is answered at once was the oldest one pending, and the    *)
(* newest stays unless it was the only one.                                *)
LEMMA ReceiveAckOrder ==
  ASSUME TInv, NetInv, OrderInv, NEW c \in Client, ReceiveAck(c)
  PROVE  OrderInv'
  <1> DEFINE m == Head(down[c])
  <1>1. /\ down[c] # <<>> /\ m.op = "ack" /\ down'[c] = Tail(down[c])
        /\ \A d \in Client : d # c =>
             down'[d] = down[d] /\ pend'[d] = pend[d] /\ held'[d] = held[d]
        /\ UNCHANGED <<up, latest, nextId>>
        /\ pend'[c] = (IF Hold(c) THEN pend[c] ELSE {w \in pend[c] : w.id # m.id})
        /\ held'[c] = (IF Hold(c) THEN held[c] \cup {m.id} ELSE held[c])
    BY DEF ReceiveAck, TInv, TypeOK
  <1>2. PICK w \in Unheld(c) :
           /\ w.id = m.id
           /\ \A x \in Unheld(c) : x.id = w.id \/ w.id < x.id
           /\ \A a \in Of(Tail(down[c]), "ack") : w.id < a.id
           /\ \A p \in Of(up[c], "put") : w.id < p.id
           /\ Of(Tail(down[c]), "ack") \subseteq Of(down[c], "ack")
           /\ Rising(Tail(down[c]), "ack")
    BY <1>1, AckTaken
  <1>3. ~Hold(c) => held[c] = {}
    BY DEF NetInv, NetInvOf, Asking, Hold
  <1>4. Unheld(c)' = {x \in Unheld(c) : x.id # m.id}
    BY <1>1, <1>3 DEF Unheld
  <1>5. /\ Unheld(c) \subseteq pend[c] /\ nextId[c] \in Nat
        /\ \A x \in pend[c] : x.id \in Nat
    BY DEF Unheld, TInv, TypeOK, Write0
  <1> HIDE DEF m
  <1>6. NewestPending(c)'
    <2>1. Newest(c)' = Newest(c) /\ pend'[c] \subseteq pend[c]
      BY <1>1 DEF Newest
    <2>2. ASSUME pend'[c] # {}
          PROVE  Newest(c) \in pend'[c]
      <3>1. PICK x \in pend'[c] : TRUE
        BY <2>2
      <3>2. Newest(c) \in pend[c] /\ Newest(c).id = nextId[c] - 1
        BY <2>1, <3>1 DEF OrderInv, OrderInvOf, NewestPending, Newest
      <3>3. CASE ~Hold(c)
        <4>1. x \in Unheld(c) /\ x.id # m.id
          BY <1>1, <1>3, <3>1, <3>3 DEF Unheld
        <4>2. w.id < x.id /\ x.id < nextId[c]
          BY <1>2, <1>5, <4>1 DEF OrderInv, OrderInvOf, NewestPending
        <4>3. Newest(c).id # m.id
          BY <1>2, <1>5, <3>2, <4>1, <4>2
        <4> QED
          BY <1>1, <3>2, <3>3, <4>3
      <3> QED
        BY <1>1, <3>2, <3>3
    <2> QED
      BY <1>1, <2>1, <2>2 DEF OrderInv, OrderInvOf, NewestPending
  <1>7. HeldFirst(c)'
    <2>1. m.id < nextId[c]
      BY <1>2, <1>5 DEF OrderInv, OrderInvOf, NewestPending
    <2>2. \A x \in Unheld(c)' : m.id < x.id
      BY <1>2, <1>4
    <2> QED
      BY <1>1, <1>4, <2>1, <2>2 DEF OrderInv, OrderInvOf, HeldFirst
  <1>8. InLine(c)'
    <2>1. ASSUME NEW p \in Of(up[c], "put")
          PROVE  Sends(c, p)'
      <3>1. PICK x \in Unheld(c) : p = Put(x)
        BY DEF OrderInv, OrderInvOf, InLine, Sends
      <3>2. x.id # m.id
        BY <1>2, <1>5, <3>1 DEF Put
      <3> QED
        BY <1>4, <3>1, <3>2 DEF Sends
    <2>2. ASSUME NEW a \in Of(down'[c], "ack")
          PROVE  Answers(c, a)'
      <3>1. PICK x \in Unheld(c) : a.id = x.id /\ a.val \in {Null, x.val}
        BY <1>1, <1>2 DEF OrderInv, OrderInvOf, InLine, Answers
      <3>2. x.id # m.id
        BY <1>1, <1>2, <1>5, <3>1
      <3> QED
        BY <1>4, <3>1, <3>2 DEF Answers
    <2> QED
      BY <1>1, <1>2, <2>1, <2>2 DEF OrderInv, OrderInvOf, InLine
  <1>9. ASSUME NEW d \in Client, d # c
        PROVE  OrderInvOf(d)'
    BY <1>1, <1>9, Unordered DEF OrderInv
  <1> QED
    BY <1>6, <1>7, <1>8, <1>9 DEF OrderInv, OrderInvOf

(* The puts are sent again in the order of their ids.                      *)
LEMMA ReconnectOrder ==
  ASSUME TInv, OrderInv, NEW c \in Client, Reconnect(c)
  PROVE  OrderInv'
  <1> DEFINE asks == IF listens[c] THEN <<Ask>> ELSE <<>>
  <1>1. PICK q \in InOrder(Resent(c)) :
          up' = [up EXCEPT ![c] = asks \o [i \in DOMAIN q |-> Put(q[i])]]
    BY DEF Reconnect
  <1> DEFINE puts == [i \in DOMAIN q |-> Put(q[i])]
             s == asks \o puts
  <1>2. /\ q \in Seq(Write0) /\ puts \in Seq(UpMsg)
        /\ Len(q) \in Nat /\ DOMAIN q = 1..Len(q)
    BY ResentFacts
  <1>3. /\ \A i \in 1..Len(q) : q[i] \in Unheld(c)
        /\ \A i, j \in 1..Len(q) : i < j => q[i].id < q[j].id
    BY <1>2 DEF InOrder, Resent
  <1>4. /\ Len(puts) = Len(q)
        /\ \A i \in 1..Len(q) : puts[i] = Put(q[i])
    BY <1>2
  <1>5. /\ up'[c] = s /\ down'[c] = <<>>
        /\ \A d \in Client : d # c => up'[d] = up[d] /\ down'[d] = down[d]
        /\ UNCHANGED <<pend, latest, nextId, held>>
    BY <1>1 DEF Reconnect, TInv, TypeOK
  <1>6. asks \in Seq(UpMsg) /\ Len(asks) \in Nat
        /\ \A i \in 1..Len(asks) : asks[i].op # "put"
    <2>1. Ask \in UpMsg /\ Ask.op # "put"
      BY DEF Ask, UpMsg
    <2> QED
      BY <2>1
  <1> HIDE DEF asks, puts
  <1>7. /\ Len(s) = Len(asks) + Len(q)
        /\ \A i \in 1..Len(asks) : s[i] = asks[i]
        /\ \A i \in (Len(asks) + 1)..Len(s) : s[i] = Put(q[i - Len(asks)])
    BY <1>2, <1>4, <1>6
  <1> HIDE DEF s
  <1>8. ASSUME NEW i \in 1..Len(s), s[i].op = "put"
        PROVE  i - Len(asks) \in 1..Len(q) /\ s[i] = Put(q[i - Len(asks)])
    BY <1>2, <1>6, <1>7, <1>8
  <1>9. Rising(s, "put")
    <2> SUFFICES ASSUME NEW i \in 1..Len(s), NEW j \in 1..Len(s), i < j,
                        s[i].op = "put", s[j].op = "put"
                 PROVE  s[i].id < s[j].id
      BY DEF Rising
    <2> DEFINE a == i - Len(asks)
               b == j - Len(asks)
    <2>1. a \in 1..Len(q) /\ s[i] = Put(q[a])
      BY <1>8
    <2>2. b \in 1..Len(q) /\ s[j] = Put(q[b])
      BY <1>8
    <2>3. s[i].id = q[a].id /\ s[j].id = q[b].id
      BY <2>1, <2>2 DEF Put
    <2>4. Len(s) \in Nat /\ i \in Int /\ j \in Int
      BY <1>2, <1>6, <1>7
    <2>5. a < b
      BY <1>6, <2>4
    <2> HIDE DEF a, b
    <2>6. q[a].id < q[b].id
      BY <1>3, <2>1, <2>2, <2>5
    <2> QED
      BY <2>3, <2>6
  <1>10. OrderInvOf(c)'
    <2>1. Unheld(c)' = Unheld(c)
      BY <1>5 DEF Unheld
    <2>2. NewestPending(c)' /\ HeldFirst(c)'
      BY <1>5, <2>1 DEF OrderInv, OrderInvOf, NewestPending, Newest, HeldFirst
    <2>3. \A p \in Of(s, "put") : Sends(c, p)'
      BY <1>3, <1>8, <2>1 DEF Of, Sends
    <2>4. InLine(c)'
      BY <1>5, <1>9, <2>3, OfEmpty DEF InLine
    <2> QED
      BY <2>2, <2>4 DEF OrderInvOf
  <1> QED
    BY <1>5, <1>10, Unordered DEF OrderInv

LEMMA NextOrderInv ==
  TInv /\ NetInv /\ OrderInv /\ [Next]_nodeVars => OrderInv'
  <1> SUFFICES ASSUME TInv, NetInv, OrderInv, [Next]_nodeVars
               PROVE  OrderInv'
    OBVIOUS
  <1>1. CASE \/ UNCHANGED nodeVars
             \/ \E c \in Client : OtherListen(c) \/ Deliver(c)
    <2>1. UNCHANGED <<up, down, pend, held, nextId, latest>>
      BY <1>1 DEF nodeVars, netVars, clientVars, OtherListen, Deliver
    <2> QED
      BY <2>1, Unordered DEF OrderInv
  <1>2. CASE \E c \in Client :
               \/ \E v \in Value : Write(c, v) \/ WriteThenListen(c, v)
               \/ Listen(c) \/ ServerApply(c) \/ Receive(c)
               \/ OtherListened(c) \/ Reconnect(c)
    BY <1>2, WriteOrder, WriteThenListenOrder, ListenOrder, ServerPutOrder,
       ServerListenOrder, ReceiveDataOrder, ReceiveAckOrder,
       ReceiveListenedOrder, OtherListenedOrder, ReconnectOrder
       DEF ServerApply, Receive
  <1> QED
    BY <1>1, <1>2 DEF Next, NetStep
-----------------------------------------------------------------------------
(* A told value keeps the queue telling; so does taking its first message. *)
LEMMA ToldAppended ==
  ASSUME NEW c \in Client, Telling(c), TInv,
         UNCHANGED <<listens, asked>>, c \in watching => c \in watching',
         NEW m \in DownMsg, down'[c] = Append(down[c], m),
         c \in watching' => m.val # Null,
         m.op = "listened" => c \in watching'
  PROVE  Telling(c)'
  <1> DEFINE s == down[c]
             t == down'[c]
  <1>1. /\ Len(s) \in Nat /\ Len(t) = Len(s) + 1
        /\ \A i \in 1..Len(s) : t[i] = s[i]
        /\ t[Len(s) + 1] = m
    BY AppendFacts DEF TInv, TypeOK
  <1>2. ASSUME NEW k \in 1..Len(t), k \in 1..Len(s) => Valued(s, k),
               c \in watching'
        PROVE  Valued(t, k)
    <2> HIDE DEF s, t
    <2> QED
      BY <1>1, <1>2 DEF Valued
  <1> HIDE DEF s, t
  <1>3. listens'[c] /\ ~asked'[c] => c \in watching' /\ Valued(t, 1)
    BY <1>1, <1>2 DEF Telling, s
  <1>4. ASSUME NEW i \in 1..Len(t), t[i].op = "listened"
        PROVE  c \in watching' /\ Valued(t, i)
    BY <1>1, <1>2, <1>4 DEF Telling, s
  <1> QED
    BY <1>3, <1>4 DEF Telling, t

LEMMA ToldTaken ==
  ASSUME NEW c \in Client, Telling(c), TInv, UNCHANGED <<listens, watching>>,
         down[c] # <<>>, down'[c] = Tail(down[c]),
         Head(down[c]).op = "listened" \/ asked'[c] = asked[c]
  PROVE  Telling(c)'
  <1> DEFINE s == down[c]
             t == down'[c]
  <1>1. /\ Len(s) \in Nat \ {0} /\ Len(t) = Len(s) - 1 /\ Head(s) = s[1]
        /\ \A i \in 1..Len(t) : t[i] = s[i + 1]
    BY TailFacts DEF TInv, TypeOK
  <1> HIDE DEF s, t
  <1>2. \A k \in 1..(Len(t) + 1) : Valued(s, k + 1) => Valued(t, k)
    BY <1>1 DEF Valued
  <1>3. Valued(s, 1) => Valued(s, 1 + 1)
    BY <1>1 DEF Valued
  <1>4. 1 \in 1..(Len(t) + 1) /\ 1 \in 1..Len(s)
    BY <1>1
  <1>5. listens'[c] /\ ~asked'[c] => c \in watching' /\ Valued(t, 1)
    <2>1. listens[c] /\ ~asked'[c] => c \in watching /\ Valued(s, 1)
      BY <1>1, <1>4 DEF Telling, s
    <2> QED
      BY <1>2, <1>3, <1>4, <2>1
  <1>6. ASSUME NEW i \in 1..Len(t), t[i].op = "listened"
        PROVE  c \in watching' /\ Valued(t, i)
    <2>1. i + 1 \in 1..Len(s) /\ s[i + 1].op = "listened"
      BY <1>1, <1>6
    <2>2. c \in watching /\ Valued(s, i + 1)
      BY <2>1 DEF Telling, s
    <2>3. i \in 1..(Len(t) + 1)
      BY <1>1
    <2> QED
      BY <1>2, <2>2, <2>3
  <1> QED
    BY <1>5, <1>6 DEF Telling, t

(* Telling(d) is about nothing but these.                                  *)
LEMMA Untold ==
  ASSUME NEW d \in Client, Telling(d), down'[d] = down[d],
         d \in watching => d \in watching',
         listens'[d] = listens[d], asked'[d] = asked[d]
  PROVE  Telling(d)'
  BY DEF Telling, Valued

LEMMA InitTellInv == NodeInit => TellInv
  BY DEF NodeInit, TellInv, Telling

LEMMA ServerTell ==
  ASSUME TInv, TellInv, NEW c \in Client, ServerApply(c)
  PROVE  TellInv'
  <1> SUFFICES ASSUME NEW d \in Client
               PROVE  Telling(d)'
    BY DEF TellInv
  <1>1. Telling(d) /\ UNCHANGED <<listens, asked>>
    BY DEF TellInv, ServerApply, ServerPut, ServerListen, clientVars
  <1>2. up[c] # <<>> => Head(up[c]) \in UpMsg
    BY HeadType DEF TInv, TypeOK
  <1>3. CASE ServerPut(c)
    <2> DEFINE m == Head(up[c])
               answer == [op |-> "ack", id |-> m.id,
                          val |-> IF c \in watching THEN m.val ELSE Null]
               push == [op |-> "data", val |-> m.val]
    <2>1. m.op = "put" /\ m.id \in Nat /\ m.val \in Value
      BY <1>2, <1>3 DEF ServerPut, UpMsg
    <2>2. /\ watching' = watching
          /\ down'[d] = IF d = c THEN Append(down[d], answer)
                        ELSE IF d \in watching THEN Append(down[d], push)
                        ELSE down[d]
      BY <1>3 DEF ServerPut
    <2> HIDE DEF m
    <2>3. /\ answer \in DownMsg /\ push \in DownMsg
          /\ answer.op # "listened" /\ push.op # "listened"
          /\ c \in watching => answer.val # Null
          /\ push.val # Null
      BY <2>1, NullAssumption DEF DownMsg
    <2> HIDE DEF answer, push
    <2>4. CASE d = c
      BY <1>1, <2>2, <2>3, <2>4, ToldAppended
    <2>5. CASE d # c /\ d \in watching
      BY <1>1, <2>2, <2>3, <2>5, ToldAppended
    <2>6. CASE d # c /\ d \notin watching
      BY <1>1, <2>2, <2>6, Untold
    <2> QED
      BY <2>4, <2>5, <2>6
  <1>4. CASE ServerListen(c)
    <2> DEFINE answer == [op |-> "listened", val |-> server]
    <2>1. /\ watching' = watching \cup {c}
          /\ down'[d] = IF d = c THEN Append(down[d], answer) ELSE down[d]
      BY <1>4 DEF ServerListen, TInv, TypeOK
    <2>2. answer \in DownMsg /\ answer.val # Null
      BY NullAssumption DEF DownMsg, TInv, TypeOK
    <2> HIDE DEF answer
    <2>3. CASE d = c
      BY <1>1, <2>1, <2>2, <2>3, ToldAppended
    <2>4. CASE d # c
      BY <1>1, <2>1, <2>4, Untold
    <2> QED
      BY <2>3, <2>4
  <1> QED
    BY <1>3, <1>4 DEF ServerApply

LEMMA ReceiveTell ==
  ASSUME TInv, TellInv, NEW c \in Client, Receive(c)
  PROVE  TellInv'
  <1>1. /\ down[c] # <<>> /\ down'[c] = Tail(down[c])
        /\ UNCHANGED <<listens, watching>>
        /\ Head(down[c]).op = "listened" \/ asked'[c] = asked[c]
        /\ \A d \in Client : d # c => down'[d] = down[d] /\ asked'[d] = asked[d]
    BY DEF Receive, ReceiveData, ReceiveAck, ReceiveListened, TInv, TypeOK
  <1>2. Telling(c)'
    BY <1>1, ToldTaken DEF TellInv
  <1> QED
    BY <1>1, <1>2, Untold DEF TellInv

LEMMA AskTell ==
  ASSUME TInv, TellInv, NEW c \in Client,
         Listen(c) \/ Reconnect(c) \/ \E v \in Value : WriteThenListen(c, v)
  PROVE  TellInv'
  <1>1. /\ asked'[c] = listens'[c]
        /\ down'[c] = <<>> \/ (down'[c] = down[c] /\ watching' = watching)
        /\ \A d \in Client : d # c => /\ down'[d] = down[d]
                                      /\ asked'[d] = asked[d]
                                      /\ listens'[d] = listens[d]
                                      /\ d \in watching => d \in watching'
    BY DEF Listen, Reconnect, WriteThenListen, TInv, TypeOK
  <1>2. Telling(c)'
    BY <1>1 DEF TellInv, Telling, Valued
  <1> QED
    BY <1>1, <1>2, Untold DEF TellInv

LEMMA NextTellInv == TInv /\ TellInv /\ [Next]_nodeVars => TellInv'
  <1> SUFFICES ASSUME TInv, TellInv, [Next]_nodeVars
               PROVE  TellInv'
    OBVIOUS
  <1>1. CASE \/ UNCHANGED nodeVars
             \/ \E c \in Client : \/ \E v \in Value : Write(c, v)
                                  \/ OtherListen(c) \/ OtherListened(c)
                                  \/ Deliver(c)
    <2>1. UNCHANGED <<down, listens, asked, watching>>
      BY <1>1 DEF nodeVars, netVars, clientVars, Write, OtherListen,
                  OtherListened, Deliver
    <2> QED
      BY <2>1, Untold DEF TellInv
  <1>2. CASE \E c \in Client :
               \/ \E v \in Value : WriteThenListen(c, v)
               \/ Listen(c) \/ ServerApply(c) \/ Receive(c) \/ Reconnect(c)
    BY <1>2, ServerTell, ReceiveTell, AskTell
  <1> QED
    BY <1>1, <1>2 DEF Next, NetStep
-----------------------------------------------------------------------------
OrderedInv == TInv /\ NetInv /\ EventInv /\ OrderInv /\ TellInv

LEMMA Ordered == Spec => []OrderedInv
  BY InitTInv, InitNetInv, InitEventInv, InitOrderInv, InitTellInv, NextTInv,
     NextNetInv, NextEventInv, NextOrderInv, NextTellInv, PTL
     DEF Spec, OrderedInv

(* While a client has writes under way, the newest of them is among them   *)
(* and is what its observer is, or is about to be, called with: neither a  *)
(* push, nor the answer to an older write, nor a reconnection shows        *)
(* through (FSyncTree, FWriteTree, FPersistentConnection.putsToAck).       *)
THEOREM PendingShadows == Spec => []NewestShadows
  <1>1. OrderedInv => NewestShadows
    BY DEF OrderedInv, OrderInv, OrderInvOf, NewestPending, Newest, EventInv,
           EventInvOf, View, Shown, NewestShadows
  <1> QED
    BY <1>1, Ordered, PTL

(* What a client shows is the same before and after the answer to a write. *)
LEMMA AckSilent ==
  ASSUME OrderedInv, NEW c \in Client, ReceiveAck(c)
  PROVE  events'[c] = events[c]
  <1> DEFINE m == Head(down[c])
             k == IF m.val = Null THEN cache[c] ELSE m.val
             p == IF Hold(c) THEN pend[c] ELSE {w \in pend[c] : w.id # m.id}
             v == Shown(p, latest[c], k)
  <1>1. /\ down[c] # <<>> /\ m.op = "ack"
        /\ v \in {Null, View(c)} => events' = events
        /\ IF listens[c] THEN Raise(c, v) ELSE UNCHANGED events
    BY DEF ReceiveAck, Raise
  <1>2. CASE ~listens[c]
    BY <1>1, <1>2
  <1>3. CASE listens[c] /\ p # {}
    <2>1. pend[c] # {}
      BY <1>3
    <2> QED
      BY <1>1, <1>3, <2>1 DEF Shown, View
  <1>4. PICK w \in pend[c] : m.id = w.id /\ m.val \in {Null, w.val}
    <2>1. m \in Of(down[c], "ack")
      <3>1. 1 \in 1..Len(down[c]) /\ m = down[c][1]
        BY <1>1, TailFacts DEF OrderedInv, TInv, TypeOK
      <3> QED
        BY <1>1, <3>1 DEF Of
    <2> HIDE DEF m
    <2> QED
      BY <2>1 DEF OrderedInv, OrderInv, OrderInvOf, InLine, Answers, Unheld
  <1>5. CASE listens[c] /\ p = {}
    <2>1. ~Hold(c) /\ \A x \in pend[c] : x.id = m.id
      BY <1>4, <1>5
    <2>2. w = Newest(c)
      BY <1>4, <2>1 DEF OrderedInv, OrderInv, OrderInvOf, NewestPending
    <2>3. m.val # Null
      <3>1. Valued(down[c], 1) /\ listens[c] /\ ~asked[c]
        BY <1>5, <2>1 DEF OrderedInv, TellInv, Telling, Hold
      <3>2. Len(down[c]) \in Nat \ {0} /\ m = down[c][1]
        BY <1>1, TailFacts DEF OrderedInv, TInv, TypeOK
      <3> HIDE DEF m
      <3> QED
        BY <3>1, <3>2 DEF Valued
    <2>4. m.val = latest[c]
      BY <1>4, <2>2, <2>3 DEF Newest
    <2> HIDE DEF m
    <2>5. v = latest[c] /\ View(c) = latest[c]
      BY <1>4, <1>5, <2>3, <2>4 DEF Shown, View
    <2> QED
      BY <1>1, <2>5
  <1> QED
    BY <1>2, <1>3, <1>5

(* The answer to a write never changes what the writer shows, although the *)
(* server's data comes to stand in for the pending write                   *)
(* (FSyncTree.ackUserWrite, FPersistentConnection.ackPuts).                *)
THEOREM AnswersAreSilent == Spec => AcksAreSilent
  <1>1. ASSUME OrderedInv, [Next]_nodeVars, NEW c \in Client,
               down[c] # <<>>, Head(down[c]).op = "ack",
               down'[c] = Tail(down[c])
        PROVE  events'[c] = events[c]
    <2>1. down[c] \in Seq(DownMsg)
      BY <1>1 DEF OrderedInv, TInv, TypeOK
    <2>2. down'[c] # down[c]
      <3> DEFINE q == down[c]
      <3>1. Len(Tail(q)) = Len(q) - 1 /\ Len(q) \in Nat
        BY <1>1, <2>1, TailFacts
      <3>2. down'[c] = Tail(q)
        BY <1>1
      <3> HIDE DEF q
      <3>3. Tail(q) # q
        BY <3>1
      <3> QED
        BY <3>2, <3>3 DEF q
    <2>3. CASE ReceiveAck(c)
      BY <1>1, <2>3, AckSilent
    <2>4. CASE \E d \in Client : Reconnect(d) \/ ServerApply(d)
      BY <2>4 DEF Reconnect, ServerApply, ServerPut, ServerListen
    <2>5. CASE \E d \in Client : d # c /\ Receive(d)
      BY <1>1, <2>2, <2>5 DEF Receive, ReceiveData, ReceiveAck,
         ReceiveListened, OrderedInv, TInv, TypeOK
    <2>6. CASE ReceiveData(c) \/ ReceiveListened(c)
      BY <1>1, <2>6 DEF ReceiveData, ReceiveListened
    <2>7. CASE \/ UNCHANGED nodeVars
               \/ \E d \in Client :
                    \/ \E x \in Value : Write(d, x) \/ WriteThenListen(d, x)
                    \/ Listen(d) \/ OtherListen(d) \/ OtherListened(d)
                    \/ Deliver(d)
      BY <2>2, <2>7 DEF nodeVars, netVars, Write, WriteThenListen, Listen,
         OtherListen, OtherListened, Deliver
    <2> QED
      BY <1>1, <2>3, <2>4, <2>5, <2>6, <2>7 DEF Next, NetStep, Receive
  <1>2. OrderedInv /\ [Next]_nodeVars => [AckTakenSilently]_nodeVars
    BY <1>1 DEF AckTakenSilently
  <1> QED
    BY <1>2, Ordered, PTL DEF Spec, AcksAreSilent
-----------------------------------------------------------------------------
(* What a client may still come to show if nobody writes again.  The       *)
(* values it is to take are its cache, those of the messages on their way  *)
(* in s, and the stored value, in this order; one counts once no put waits *)
(* in u and no answer to a put is behind it, because until then a pending  *)
(* write shadows it.                                                       *)
Stage(s, k, z, i) == IF i = 0 THEN k ELSE IF i <= Len(s) THEN s[i].val ELSE z
Clear(u, s, i) ==
  Of(u, "put") = {} /\ \A j \in 1..Len(s) : i < j => s[j].op # "ack"

(* a, v and w are such values, in this order; later ones than a count too. *)
Comes(u, s, k, z, a, v, w) ==
  \E i, j, n \in 0..(Len(s) + 1) :
    /\ i <= j /\ j <= n /\ Clear(u, s, i)
    /\ Stage(s, k, z, i) = a /\ Stage(s, k, z, j) = v /\ Stage(s, k, z, n) = w
    /\ a # Null /\ v # Null /\ w # Null

Coming(c, a, v, w) == Comes(up[c], down[c], cache[c], server, a, v, w)
-----------------------------------------------------------------------------
(* The values to come from s and u are among those from t and x, if f maps *)
(* the places of the ones to places of the others, in order.               *)
LEMMA ComesVia ==
  ASSUME NEW u, NEW s, NEW k, NEW z, NEW x, NEW t, NEW l, NEW y,
         NEW f, NEW a, NEW v, NEW w, Comes(u, s, k, z, a, v, w),
         \A i \in 0..(Len(s) + 1) :
           /\ f[i] \in 0..(Len(t) + 1)
           /\ Stage(s, k, z, i) # Null => Stage(t, l, y, f[i]) = Stage(s, k, z, i)
           /\ Clear(u, s, i) => Clear(x, t, f[i])
           /\ \A j \in 0..(Len(s) + 1) : i <= j => f[i] <= f[j]
  PROVE  Comes(x, t, l, y, a, v, w)
  <1>1. PICK i \in 0..(Len(s) + 1), j \in 0..(Len(s) + 1), n \in 0..(Len(s) + 1) :
          /\ i <= j /\ j <= n /\ Clear(u, s, i)
          /\ Stage(s, k, z, i) = a /\ Stage(s, k, z, j) = v
          /\ Stage(s, k, z, n) = w
          /\ a # Null /\ v # Null /\ w # Null
    BY DEF Comes
  <1>2. /\ f[i] <= f[j] /\ f[j] <= f[n] /\ Clear(x, t, f[i])
        /\ f[i] \in 0..(Len(t) + 1) /\ f[j] \in 0..(Len(t) + 1)
        /\ f[n] \in 0..(Len(t) + 1)
    BY <1>1
  <1>3. /\ Stage(t, l, y, f[i]) = a /\ Stage(t, l, y, f[j]) = v
        /\ Stage(t, l, y, f[n]) = w
    BY <1>1
  <1> QED
    BY <1>1, <1>2, <1>3 DEF Comes

LEMMA ComesTail ==
  ASSUME NEW u, NEW s \in Seq(DownMsg), s # <<>>, NEW k, NEW l, NEW z,
         l \in {Null, Head(s).val}, NEW a, NEW v, NEW w,
         Comes(u, Tail(s), l, z, a, v, w)
  PROVE  Comes(u, s, k, z, a, v, w)
  <1> DEFINE t == Tail(s)
             f == [i \in 0..(Len(t) + 1) |-> i + 1]
  <1>1. /\ Len(s) \in Nat \ {0} /\ Len(t) = Len(s) - 1 /\ Head(s) = s[1]
        /\ \A i \in 1..Len(t) : t[i] = s[i + 1]
    BY TailFacts
  <1> HIDE DEF t
  <1>2. ASSUME NEW i \in 0..(Len(t) + 1)
        PROVE  /\ f[i] \in 0..(Len(s) + 1)
               /\ Stage(t, l, z, i) # Null => Stage(s, k, z, f[i]) = Stage(t, l, z, i)
               /\ \A j \in 0..(Len(t) + 1) : i <= j => f[i] <= f[j]
    BY <1>1 DEF Stage
  <1>3. ASSUME NEW i \in 0..(Len(t) + 1), Clear(u, t, i)
        PROVE  Clear(u, s, f[i])
    <2> SUFFICES ASSUME NEW n \in 1..Len(s), i + 1 < n
                 PROVE  s[n].op # "ack"
      BY <1>3 DEF Clear
    <2>1. n - 1 \in 1..Len(t) /\ i < n - 1 /\ t[n - 1] = s[n]
      BY <1>1
    <2> QED
      BY <1>3, <2>1 DEF Clear
  <1>4. Comes(u, t, l, z, a, v, w)
    BY DEF t
  <1> HIDE DEF f
  <1> QED
    BY <1>2, <1>3, <1>4, ComesVia

(* The answer to the listen tells the stored value once more.              *)
LEMMA ComesListened ==
  ASSUME NEW u, NEW x, NEW s \in Seq(DownMsg), NEW m \in DownMsg,
         NEW k, NEW z, m.val = z, Of(x, "put") = Of(u, "put"),
         NEW a, NEW v, NEW w, Comes(x, Append(s, m), k, z, a, v, w)
  PROVE  Comes(u, s, k, z, a, v, w)
  <1> DEFINE t == Append(s, m)
             f == [i \in 0..(Len(t) + 1) |-> IF i <= Len(s) THEN i ELSE Len(s) + 1]
  <1>1. /\ Len(s) \in Nat /\ Len(t) = Len(s) + 1
        /\ \A i \in 1..Len(s) : t[i] = s[i]
        /\ t[Len(s) + 1] = m
    BY AppendFacts
  <1> HIDE DEF t
  <1>2. ASSUME NEW i \in 0..(Len(t) + 1)
        PROVE  /\ f[i] \in 0..(Len(s) + 1)
               /\ Stage(t, k, z, i) # Null => Stage(s, k, z, f[i]) = Stage(t, k, z, i)
               /\ Clear(x, t, i) => Clear(u, s, f[i])
               /\ \A j \in 0..(Len(t) + 1) : i <= j => f[i] <= f[j]
    <2>1. f[i] \in 0..(Len(s) + 1) /\ Stage(s, k, z, f[i]) = Stage(t, k, z, i)
      BY <1>1 DEF Stage
    <2>2. Clear(x, t, i) => Clear(u, s, f[i])
      BY <1>1 DEF Clear
    <2>3. \A j \in 0..(Len(t) + 1) : i <= j => f[i] <= f[j]
      BY <1>1
    <2> QED
      BY <2>1, <2>2, <2>3
  <1>3. Comes(x, t, k, z, a, v, w)
    BY DEF t
  <1> HIDE DEF f
  <1> QED
    BY <1>2, <1>3, ComesVia

(* Another client's put becomes the stored value, and is pushed or not.    *)
LEMMA ComesPushed ==
  ASSUME NEW u, NEW s \in Seq(DownMsg), NEW m \in DownMsg, NEW t,
         t = s \/ t = Append(s, m), NEW k, NEW z, NEW a, NEW v, NEW w,
         Comes(u, t, k, m.val, a, v, w)
  PROVE  \/ Comes(u, s, k, z, a, v, w)
         \/ /\ w = m.val
            /\ \/ a = m.val /\ v = m.val
               \/ Comes(u, s, k, z, a, a, a) /\ v = m.val
               \/ Comes(u, s, k, z, a, a, a) /\ Comes(u, s, k, z, a, v, v)
  <1>1. /\ Len(s) \in Nat /\ Len(t) \in Len(s)..(Len(s) + 1)
        /\ \A i \in 1..Len(s) : t[i] = s[i]
        /\ Len(t) = Len(s) + 1 => t[Len(s) + 1] = m
    BY AppendFacts
  <1>2. PICK i \in 0..(Len(t) + 1), j \in 0..(Len(t) + 1), n \in 0..(Len(t) + 1) :
          /\ i <= j /\ j <= n /\ Clear(u, t, i)
          /\ Stage(t, k, m.val, i) = a /\ Stage(t, k, m.val, j) = v
          /\ Stage(t, k, m.val, n) = w
          /\ a # Null /\ v # Null /\ w # Null
    BY DEF Comes
  <1>3. \A o \in 0..(Len(t) + 1) :
          \/ o <= Len(s) /\ Stage(s, k, z, o) = Stage(t, k, m.val, o)
          \/ o > Len(s) /\ Stage(t, k, m.val, o) = m.val
    BY <1>1 DEF Stage
  <1>4. Clear(u, s, i)
    BY <1>1, <1>2 DEF Clear
  <1>5. \A o \in 0..(Len(t) + 1) : o <= Len(s) => o \in 0..(Len(s) + 1)
    BY <1>1
  <1>6. CASE n <= Len(s)
    <2>1. i <= Len(s) /\ j <= Len(s)
      BY <1>1, <1>2, <1>6
    <2>2. i \in 0..(Len(s) + 1) /\ j \in 0..(Len(s) + 1) /\ n \in 0..(Len(s) + 1)
      BY <1>5, <1>6, <2>1
    <2>3. /\ Stage(s, k, z, i) = a /\ Stage(s, k, z, j) = v
          /\ Stage(s, k, z, n) = w
      BY <1>1, <1>2, <1>3, <1>6, <2>1
    <2> QED
      BY <1>2, <1>4, <2>2, <2>3 DEF Comes
  <1>7. CASE n > Len(s)
    <2>1. w = m.val
      BY <1>1, <1>2, <1>3, <1>7
    <2>2. CASE i > Len(s)
      <3>1. j > Len(s)
        BY <1>1, <1>2, <2>2
      <3> QED
        BY <1>1, <1>2, <1>3, <2>1, <2>2, <3>1
    <2>3. CASE i <= Len(s)
      <3>1. i \in 0..(Len(s) + 1) /\ i <= i /\ Stage(s, k, z, i) = a
        BY <1>1, <1>2, <1>3, <1>5, <2>3
      <3>2. Comes(u, s, k, z, a, a, a)
        BY <1>2, <1>4, <3>1 DEF Comes
      <3>3. CASE j > Len(s)
        BY <1>1, <1>2, <1>3, <2>1, <3>2, <3>3
      <3>4. CASE j <= Len(s)
        <4>1. j \in 0..(Len(s) + 1) /\ j <= j /\ Stage(s, k, z, j) = v
          BY <1>1, <1>2, <1>3, <1>5, <3>4
        <4>2. Comes(u, s, k, z, a, v, v)
          BY <1>2, <1>4, <3>1, <4>1 DEF Comes
        <4> QED
          BY <2>1, <3>2, <4>2
      <3> QED
        BY <1>1, <3>3, <3>4
    <2> QED
      BY <1>1, <2>2, <2>3
  <1> QED
    BY <1>1, <1>6, <1>7

(* The answer to a put hides everything that was under way before it.      *)
LEMMA ComesAcked ==
  ASSUME NEW u, NEW s \in Seq(DownMsg), NEW m \in DownMsg,
         NEW k, NEW z, NEW a, NEW v, NEW w, m.op = "ack", m.val \in {Null, z},
         Comes(u, Append(s, m), k, z, a, v, w)
  PROVE  a = z /\ v = z /\ w = z
  <1> DEFINE t == Append(s, m)
  <1>1. /\ Len(s) \in Nat /\ Len(t) = Len(s) + 1 /\ t[Len(s) + 1] = m
    BY AppendFacts
  <1> HIDE DEF t
  <1>2. PICK i \in 0..(Len(t) + 1), j \in 0..(Len(t) + 1), n \in 0..(Len(t) + 1) :
          /\ i <= j /\ j <= n /\ Clear(u, t, i)
          /\ Stage(t, k, z, i) = a /\ Stage(t, k, z, j) = v
          /\ Stage(t, k, z, n) = w
          /\ a # Null /\ v # Null /\ w # Null
    BY DEF Comes, t
  <1>3. i > Len(s)
    BY <1>1, <1>2 DEF Clear
  <1>4. j > Len(s) /\ n > Len(s)
    BY <1>1, <1>2, <1>3
  <1>5. \A o \in 0..(Len(t) + 1) : o > Len(s) => Stage(t, k, z, o) \in {m.val, z}
    BY <1>1 DEF Stage
  <1> QED
    BY <1>2, <1>3, <1>4, <1>5

(* After a reconnection there is the cache and what the server stores.     *)
LEMMA ComesAfresh ==
  ASSUME NEW u, NEW x, NEW s \in Seq(DownMsg), NEW k, NEW z,
         NEW a, NEW v, NEW w,
         Of(x, "put") = {} => Of(u, "put") = {} /\ Of(s, "ack") = {},
         Comes(x, <<>>, k, z, a, v, w)
  PROVE  Comes(u, s, k, z, a, v, w)
  <1> DEFINE e == <<>>
             f == [i \in 0..(Len(e) + 1) |-> IF i = 0 THEN 0 ELSE Len(s) + 1]
  <1>1. Len(s) \in Nat /\ Len(e) = 0
    OBVIOUS
  <1> HIDE DEF e
  <1>2. ASSUME NEW i \in 0..(Len(e) + 1)
        PROVE  /\ f[i] \in 0..(Len(s) + 1)
               /\ Stage(e, k, z, i) # Null => Stage(s, k, z, f[i]) = Stage(e, k, z, i)
               /\ \A j \in 0..(Len(e) + 1) : i <= j => f[i] <= f[j]
    BY <1>1 DEF Stage
  <1>3. ASSUME NEW i \in 0..(Len(e) + 1), Clear(x, e, i)
        PROVE  Clear(u, s, f[i])
    <2>1. Of(u, "put") = {} /\ Of(s, "ack") = {}
      BY <1>3 DEF Clear
    <2> QED
      BY <2>1 DEF Clear, Of
  <1>4. Comes(x, e, k, z, a, v, w)
    BY DEF e
  <1> HIDE DEF f
  <1> QED
    BY <1>2, <1>3, <1>4, ComesVia

(* Without puts and answers under way nothing is shadowed: the cache comes *)
(* first, and the stored value last.                                       *)
LEMMA ComesOpen ==
  ASSUME NEW u, NEW s \in Seq(DownMsg), NEW k, NEW z, k # Null, z # Null,
         Of(u, "put") = {}, Of(s, "ack") = {}
  PROVE  /\ Comes(u, s, k, z, k, k, k) /\ Comes(u, s, k, z, k, k, z)
         /\ \A a, v, w : Comes(u, s, k, z, a, v, w)
              => Comes(u, s, k, z, k, k, w) /\ Comes(u, s, k, z, k, v, w)
  <1>1. Clear(u, s, 0) /\ Stage(s, k, z, 0) = k
    BY DEF Clear, Stage, Of
  <1>2. /\ Len(s) \in Nat /\ 0 \in 0..(Len(s) + 1) /\ 0 <= 0
        /\ Len(s) + 1 \in 0..(Len(s) + 1) /\ 0 <= Len(s) + 1
        /\ Stage(s, k, z, Len(s) + 1) = z
    BY DEF Stage
  <1>3. Comes(u, s, k, z, k, k, k) /\ Comes(u, s, k, z, k, k, z)
    BY <1>1, <1>2 DEF Comes
  <1>4. ASSUME NEW a, NEW v, NEW w, Comes(u, s, k, z, a, v, w)
        PROVE  Comes(u, s, k, z, k, k, w) /\ Comes(u, s, k, z, k, v, w)
    <2>1. PICK i \in 0..(Len(s) + 1), j \in 0..(Len(s) + 1), n \in 0..(Len(s) + 1) :
            /\ i <= j /\ j <= n
            /\ Stage(s, k, z, j) = v /\ Stage(s, k, z, n) = w
            /\ v # Null /\ w # Null
      BY <1>4 DEF Comes
    <2>2. 0 <= j /\ 0 <= n
      BY <1>2
    <2> QED
      BY <1>1, <1>2, <2>1, <2>2 DEF Comes
  <1> QED
    BY <1>3, <1>4

LEMMA ComesNot ==
  ASSUME NEW u, Of(u, "put") # {}, NEW s, NEW k, NEW z, NEW a, NEW v, NEW w
  PROVE  ~Comes(u, s, k, z, a, v, w)
  BY DEF Comes, Clear
-----------------------------------------------------------------------------
(* An answer without a value goes only to a client that knows no value:    *)
(* after the first value on its way every message tells one, and the puts  *)
(* the server answers before it is asked for the data find nothing told.   *)
NullsFirst(c) ==
  /\ cache[c] # Null => Valued(down[c], 1)
  /\ \A i \in 1..Len(down[c]) : down[c][i].val # Null => Valued(down[c], i)

Unasked(c) ==
  c \notin watching /\ up[c] # <<>> /\ Head(up[c]).op = "put" =>
    cache[c] = Null /\ Mute(down[c])

BlindInv == \A c \in Client : NullsFirst(c) /\ Unasked(c)

LEMMA NullsAppended ==
  ASSUME TInv, NEW c \in Client, NullsFirst(c), NEW m \in DownMsg,
         down'[c] = Append(down[c], m), cache'[c] = cache[c],
         m.val # Null \/ (cache[c] = Null /\ Mute(down[c]))
  PROVE  NullsFirst(c)'
  <1> DEFINE s == down[c]
             t == down'[c]
  <1>1. /\ Len(s) \in Nat /\ Len(t) = Len(s) + 1
        /\ \A i \in 1..Len(s) : t[i] = s[i]
        /\ t[Len(s) + 1] = m
    BY AppendFacts DEF TInv, TypeOK
  <1>2. /\ cache[c] # Null => Valued(s, 1)
        /\ \A i \in 1..Len(s) : s[i].val # Null => Valued(s, i)
        /\ m.val # Null \/ (cache[c] = Null /\ \A i \in 1..Len(s) : s[i].val = Null)
    BY DEF NullsFirst, Mute
  <1> HIDE DEF s, t
  <1>3. cache[c] # Null => Valued(t, 1)
    BY <1>1, <1>2 DEF Valued
  <1>4. ASSUME NEW i \in 1..Len(t), t[i].val # Null
        PROVE  Valued(t, i)
    BY <1>1, <1>2, <1>4 DEF Valued
  <1> QED
    BY <1>3, <1>4 DEF NullsFirst, t

(* Whatever the client takes, its cache is what the message told.          *)
LEMMA CacheTaken ==
  ASSUME TInv, BlindInv, NEW c \in Client, Receive(c)
  PROVE  /\ down[c] # <<>> /\ down'[c] = Tail(down[c])
         /\ cache'[c] = Head(down[c]).val
         /\ \A d \in Client : d # c => down'[d] = down[d] /\ cache'[d] = cache[d]
         /\ UNCHANGED <<server, watching, up>>
  <1>1. /\ down[c] # <<>> /\ down'[c] = Tail(down[c])
        /\ \A d \in Client : d # c => down'[d] = down[d] /\ cache'[d] = cache[d]
        /\ UNCHANGED <<server, watching, up>>
        /\ \/ cache'[c] = Head(down[c]).val
           \/ Head(down[c]).val = Null /\ cache'[c] = cache[c]
    BY DEF Receive, ReceiveData, ReceiveAck, ReceiveListened, TInv, TypeOK
  <1>2. Head(down[c]).val = Null => cache[c] = Null
    <2> DEFINE s == down[c]
    <2>1. Len(s) \in Nat \ {0} /\ Head(s) = s[1]
      BY <1>1, TailFacts DEF TInv, TypeOK
    <2>2. cache[c] # Null => Valued(s, 1)
      BY DEF BlindInv, NullsFirst
    <2> HIDE DEF s
    <2>3. cache[c] # Null => Head(s).val # Null
      BY <2>1, <2>2 DEF Valued
    <2> QED
      BY <2>3 DEF s
  <1> QED
    BY <1>1, <1>2

(* NullsFirst(d) and Unasked(d) are about nothing but these.               *)
LEMMA StillBlind ==
  ASSUME NEW d \in Client, NullsFirst(d), Unasked(d), up'[d] = up[d],
         down'[d] = down[d], cache'[d] = cache[d],
         d \in watching => d \in watching'
  PROVE  NullsFirst(d)' /\ Unasked(d)'
  BY DEF NullsFirst, Unasked, Valued

LEMMA ReceiveBlind ==
  ASSUME TInv, BlindInv, NEW c \in Client, Receive(c)
  PROVE  BlindInv'
  <1> DEFINE s == down[c]
             t == down'[c]
  <1>1. /\ s # <<>> /\ t = Tail(s) /\ cache'[c] = Head(s).val
        /\ \A d \in Client : d # c => down'[d] = down[d] /\ cache'[d] = cache[d]
        /\ UNCHANGED <<server, watching, up>>
    BY CacheTaken
  <1>2. /\ Len(s) \in Nat \ {0} /\ Len(t) = Len(s) - 1 /\ Head(s) = s[1]
        /\ \A i \in 1..Len(t) : t[i] = s[i + 1]
    <2>1. s \in Seq(DownMsg)
      BY DEF TInv, TypeOK
    <2> HIDE DEF s, t
    <2> QED
      BY <1>1, <2>1, TailFacts
  <1>3. \A i \in 1..Len(s) : s[i].val # Null => Valued(s, i)
    BY DEF BlindInv, NullsFirst
  <1>4. c \notin watching /\ up[c] # <<>> /\ Head(up[c]).op = "put" => Mute(s)
    BY DEF BlindInv, Unasked
  <1> HIDE DEF s, t
  <1>5. cache'[c] # Null => Valued(t, 1)
    BY <1>1, <1>2, <1>3 DEF Valued
  <1>6. ASSUME NEW i \in 1..Len(t), t[i].val # Null
        PROVE  Valued(t, i)
    <2>1. i + 1 \in 1..Len(s) /\ s[i + 1].val # Null
      BY <1>2, <1>6
    <2>2. Valued(s, i + 1)
      BY <1>3, <2>1
    <2> QED
      BY <1>2, <2>2 DEF Valued
  <1>7. Mute(s) => Mute(t) /\ Head(s).val = Null
    BY <1>2 DEF Mute
  <1>8. NullsFirst(c)' /\ Unasked(c)'
    BY <1>1, <1>4, <1>5, <1>6, <1>7 DEF NullsFirst, Unasked, t
  <1> QED
    BY <1>1, <1>8, StillBlind DEF BlindInv

LEMMA ServerBlind ==
  ASSUME TInv, NetInv, BlindInv, NEW c \in Client, ServerApply(c)
  PROVE  BlindInv'
  <1> SUFFICES ASSUME NEW d \in Client
               PROVE  NullsFirst(d)' /\ Unasked(d)'
    BY DEF BlindInv
  <1>1. /\ NullsFirst(d) /\ Unasked(d) /\ UNCHANGED cache
        /\ \A e \in Client : e # c => up'[e] = up[e]
        /\ up[c] # <<>> /\ up'[c] = Tail(up[c])
    BY DEF BlindInv, ServerApply, ServerPut, ServerListen, clientVars, TInv, TypeOK
  <1>2. Head(up[c]) \in UpMsg
    BY <1>1, TailFacts DEF TInv, TypeOK
  <1>3. CASE ServerPut(c)
    <2> DEFINE m == Head(up[c])
               answer == [op |-> "ack", id |-> m.id,
                          val |-> IF c \in watching THEN m.val ELSE Null]
               push == [op |-> "data", val |-> m.val]
    <2>1. m.op = "put" /\ m.id \in Nat /\ m.val \in Value
      BY <1>2, <1>3 DEF ServerPut, UpMsg
    <2>2. /\ watching' = watching
          /\ down'[d] = IF d = c THEN Append(down[d], answer)
                        ELSE IF d \in watching THEN Append(down[d], push)
                        ELSE down[d]
      BY <1>3 DEF ServerPut
    <2>3. c \notin watching => cache[c] = Null /\ Mute(down[c])
      BY <1>1, <2>1 DEF BlindInv, Unasked
    <2> HIDE DEF m
    <2>4. /\ answer \in DownMsg /\ push \in DownMsg /\ answer.op = "ack"
          /\ c \in watching => answer.val # Null
          /\ c \notin watching => answer.val = Null
          /\ push.val # Null
      BY <2>1, NullAssumption DEF DownMsg
    <2> HIDE DEF answer, push
    <2>5. CASE d = c
      <3>1. NullsFirst(d)'
        BY <1>1, <2>2, <2>3, <2>4, <2>5, NullsAppended
      <3>2. c \notin watching => Mute(Append(down[c], answer))
        BY <2>3, <2>4, DownAppend DEF TInv, TypeOK
      <3>3. Unasked(d)'
        BY <1>1, <2>2, <2>3, <2>5, <3>2 DEF Unasked
      <3> QED
        BY <3>1, <3>3
    <2>6. CASE d # c /\ d \in watching
      <3>1. NullsFirst(d)'
        BY <1>1, <2>2, <2>4, <2>6, NullsAppended
      <3> QED
        BY <2>2, <2>6, <3>1 DEF Unasked
    <2>7. CASE d # c /\ d \notin watching
      BY <1>1, <2>2, <2>7, StillBlind
    <2> QED
      BY <2>5, <2>6, <2>7
  <1>4. CASE ServerListen(c)
    <2> DEFINE answer == [op |-> "listened", val |-> server]
    <2>1. /\ watching' = watching \cup {c}
          /\ down'[d] = IF d = c THEN Append(down[d], answer) ELSE down[d]
      BY <1>4 DEF ServerListen, TInv, TypeOK
    <2>2. answer \in DownMsg /\ answer.val # Null
      BY NullAssumption DEF DownMsg, TInv, TypeOK
    <2> HIDE DEF answer
    <2>3. CASE d = c
      <3>1. NullsFirst(d)'
        BY <1>1, <2>1, <2>2, <2>3, NullsAppended
      <3> QED
        BY <2>1, <2>3, <3>1 DEF Unasked
    <2>4. CASE d # c
      BY <1>1, <2>1, <2>4, StillBlind
    <2> QED
      BY <2>3, <2>4
  <1> QED
    BY <1>3, <1>4 DEF ServerApply

(* A message goes behind the others; the first one stays, if there was one.*)
LEMMA HeadKept ==
  ASSUME NEW S, NEW s \in Seq(S), NEW x \in S
  PROVE  /\ Head(Append(s, x)) = IF s = <<>> THEN x ELSE Head(s)
         /\ Append(s, x) # <<>>
  <1> DEFINE t == Append(s, x)
  <1>1. /\ t # <<>> /\ t \in Seq(S) /\ Len(s) \in Nat /\ Len(t) = Len(s) + 1
        /\ \A i \in 1..Len(s) : t[i] = s[i]
        /\ t[Len(s) + 1] = x
    BY AppendFacts
  <1> HIDE DEF t
  <1>2. Head(t) = t[1]
    BY <1>1, TailFacts
  <1>3. CASE s = <<>>
    BY <1>1, <1>2, <1>3 DEF t
  <1>4. CASE s # <<>>
    <2>1. Head(s) = s[1] /\ 1 \in 1..Len(s)
      BY <1>4, TailFacts
    <2> QED
      BY <1>1, <1>2, <1>4, <2>1 DEF t
  <1> QED
    BY <1>3, <1>4

LEMMA SendBlind ==
  ASSUME TInv, NetInv, BlindInv, NEW c \in Client,
         \/ Listen(c)
         \/ \E v \in Value : Write(c, v) \/ WriteThenListen(c, v)
  PROVE  BlindInv'
  <1>1. /\ UNCHANGED <<down, cache, watching>>
        /\ \A d \in Client : d # c => up'[d] = up[d]
    BY DEF Listen, Write, WriteThenListen, TInv, TypeOK
  <1>2. NullsFirst(c)'
    BY <1>1 DEF BlindInv, NullsFirst, Valued
  <1>3. Unasked(c)'
    <2>1. CASE up[c] = <<>>
      <3>1. c \in watching \/ ~listens[c]
        BY <2>1 DEF NetInv, NetInvOf, Asking, AskUnder
      <3>2. c \in watching \/ (cache[c] = Null /\ Mute(down[c]))
        BY <3>1 DEF NetInv, NetInvOf, Unaware
      <3> QED
        BY <1>1, <3>2 DEF Unasked
    <2>2. CASE up[c] # <<>>
      <3>1. up[c] \in Seq(UpMsg) /\ Ask \in UpMsg
        BY DEF TInv, TypeOK, Ask, UpMsg
      <3>2. Head(up'[c]) = Head(up[c])
        <4>1. CASE Listen(c)
          <5>1. up'[c] = Append(up[c], Ask)
            BY <4>1 DEF Listen, TInv, TypeOK
          <5> QED
            BY <2>2, <3>1, <5>1, HeadKept
        <4>2. CASE \E v \in Value : Write(c, v) \/ WriteThenListen(c, v)
          <5>1. PICK v \in Value : Write(c, v) \/ WriteThenListen(c, v)
            BY <4>2
          <5> DEFINE m == Put([id |-> nextId[c], val |-> v])
          <5>2. m \in UpMsg
            BY <5>1, RecordType DEF Write, WriteThenListen
          <5>3. /\ Write(c, v) => up'[c] = Append(up[c], m)
                /\ WriteThenListen(c, v) => up'[c] = up[c] \o <<m, Ask>>
            BY DEF Write, WriteThenListen, TInv, TypeOK
          <5> HIDE DEF m
          <5>4. Append(up[c], m) \in Seq(UpMsg)
            BY <3>1, <5>2
          <5>5. up[c] \o <<m, Ask>> = Append(Append(up[c], m), Ask)
            BY <3>1, <5>2
          <5> QED
            BY <2>2, <3>1, <5>1, <5>2, <5>3, <5>4, <5>5, HeadKept
        <4> QED
          BY <4>1, <4>2
      <3> QED
        BY <1>1, <2>2, <3>2 DEF BlindInv, Unasked
    <2> QED
      BY <2>1, <2>2
  <1> QED
    BY <1>1, <1>2, <1>3, StillBlind DEF BlindInv

LEMMA ReconnectBlind ==
  ASSUME TInv, NetInv, BlindInv, NEW c \in Client, Reconnect(c)
  PROVE  BlindInv'
  <1>1. PICK q \in InOrder(Resent(c)) :
          up'[c] = (IF listens[c] THEN <<Ask>> ELSE <<>>)
                     \o [i \in DOMAIN q |-> Put(q[i])]
    BY DEF Reconnect, TInv, TypeOK
  <1>2. [i \in DOMAIN q |-> Put(q[i])] \in Seq(UpMsg)
    BY ResentFacts
  <1>3. /\ down'[c] = <<>> /\ UNCHANGED cache
        /\ \A d \in Client : d # c => /\ up'[d] = up[d] /\ down'[d] = down[d]
                                      /\ d \in watching => d \in watching'
    BY DEF Reconnect, TInv, TypeOK
  <1>4. NullsFirst(c)'
    BY <1>3 DEF NullsFirst, Valued
  <1>5. Unasked(c)'
    <2>1. CASE listens[c]
      <3> DEFINE puts == [i \in DOMAIN q |-> Put(q[i])]
      <3>1. puts \in Seq(UpMsg) /\ up'[c] = <<Ask>> \o puts
        BY <1>1, <1>2, <2>1
      <3> HIDE DEF puts
      <3>2. Head(up'[c]).op = "listen"
        BY <3>1 DEF Ask
      <3> QED
        BY <3>2 DEF Unasked
    <2>2. CASE ~listens[c]
      BY <1>3, <2>2 DEF NetInv, NetInvOf, Unaware, Unasked, Mute
    <2> QED
      BY <2>1, <2>2
  <1> QED
    BY <1>3, <1>4, <1>5, StillBlind DEF BlindInv

LEMMA InitBlindInv == NodeInit => BlindInv
  BY DEF NodeInit, BlindInv, NullsFirst, Unasked, Valued

LEMMA NextBlindInv == TInv /\ NetInv /\ BlindInv /\ [Next]_nodeVars => BlindInv'
  <1> SUFFICES ASSUME TInv, NetInv, BlindInv, [Next]_nodeVars
               PROVE  BlindInv'
    OBVIOUS
  <1>1. CASE \/ UNCHANGED nodeVars
             \/ \E c \in Client : OtherListen(c) \/ OtherListened(c) \/ Deliver(c)
    <2>1. UNCHANGED <<up, down, cache, watching>>
      BY <1>1 DEF nodeVars, netVars, clientVars, OtherListen, OtherListened,
                  Deliver
    <2> QED
      BY <2>1, StillBlind DEF BlindInv
  <1>2. CASE \E c \in Client :
               \/ \E v \in Value : Write(c, v) \/ WriteThenListen(c, v)
               \/ Listen(c) \/ ServerApply(c) \/ Receive(c) \/ Reconnect(c)
    BY <1>2, SendBlind, ServerBlind, ReceiveBlind, ReconnectBlind
  <1> QED
    BY <1>1, <1>2 DEF Next, NetStep
-----------------------------------------------------------------------------
FlowInv == OrderedInv /\ BlindInv

LEMMA InitFlowInv == NodeInit => FlowInv
  BY InitTInv, InitNetInv, InitEventInv, InitOrderInv, InitTellInv,
     InitBlindInv DEF FlowInv, OrderedInv

LEMMA NextFlowInv == FlowInv /\ [Next]_nodeVars => FlowInv'
  BY NextTInv, NextNetInv, NextEventInv, NextOrderInv, NextTellInv,
     NextBlindInv DEF FlowInv, OrderedInv

(* Coming(d) is about nothing but these.                                   *)
LEMMA SameComing ==
  ASSUME NEW d \in Client, up'[d] = up[d], down'[d] = down[d],
         cache'[d] = cache[d], server' = server, NEW a, NEW v, NEW w
  PROVE  Coming(d, a, v, w)' <=> Coming(d, a, v, w)
  BY DEF Coming

LEMMA ReceiveComing ==
  ASSUME FlowInv, NEW c \in Client, Receive(c), NEW a, NEW v, NEW w,
         Coming(c, a, v, w)'
  PROVE  Coming(c, a, v, w)
  <1>1. /\ down[c] # <<>> /\ down'[c] = Tail(down[c])
        /\ cache'[c] = Head(down[c]).val /\ up' = up /\ server' = server
    BY CacheTaken DEF FlowInv, OrderedInv
  <1>2. down[c] \in Seq(DownMsg)
    BY DEF FlowInv, OrderedInv, TInv, TypeOK
  <1> QED
    BY <1>1, <1>2, ComesTail DEF Coming

LEMMA ServerListenComing ==
  ASSUME FlowInv, NEW c \in Client, ServerListen(c), NEW a, NEW v, NEW w,
         Coming(c, a, v, w)'
  PROVE  Coming(c, a, v, w)
  <1> DEFINE m == [op |-> "listened", val |-> server]
  <1>1. /\ up[c] # <<>> /\ up'[c] = Tail(up[c]) /\ Head(up[c]).op # "put"
        /\ down'[c] = Append(down[c], m) /\ cache' = cache /\ server' = server
    BY DEF ServerListen, clientVars, FlowInv, OrderedInv, TInv, TypeOK
  <1>2. /\ down[c] \in Seq(DownMsg) /\ up[c] \in Seq(UpMsg)
        /\ m \in DownMsg /\ m.val = server
    BY DEF FlowInv, OrderedInv, TInv, TypeOK, DownMsg
  <1>3. Of(up'[c], "put") = Of(up[c], "put")
    BY <1>1, <1>2, OtherKind
  <1> HIDE DEF m
  <1>4. Comes(up'[c], Append(down[c], m), cache[c], server, a, v, w)
    BY <1>1 DEF Coming
  <1> QED
    BY <1>2, <1>3, <1>4, ComesListened DEF Coming

(* If nothing is sent again, nothing was under way.                        *)
LEMMA ReconnectComing ==
  ASSUME FlowInv, NEW c \in Client, Reconnect(c), NEW a, NEW v, NEW w,
         Coming(c, a, v, w)'
  PROVE  Coming(c, a, v, w)
  <1> DEFINE asks == IF listens[c] THEN <<Ask>> ELSE <<>>
  <1>1. PICK q \in InOrder(Resent(c)) :
          up' = [up EXCEPT ![c] = asks \o [i \in DOMAIN q |-> Put(q[i])]]
    BY DEF Reconnect
  <1> DEFINE puts == [i \in DOMAIN q |-> Put(q[i])]
  <1>2. TInv
    BY DEF FlowInv, OrderedInv
  <1>3. /\ puts \in Seq(UpMsg) /\ Len(puts) = Len(q) /\ Len(q) \in Nat
        /\ \A i \in 1..Len(q) : puts[i].op = "put"
        /\ \A x \in Unheld(c) : \E i \in 1..Len(q) : q[i] = x
    BY <1>2, ResentFacts DEF Put
  <1>4. /\ up'[c] = asks \o puts /\ down'[c] = <<>>
        /\ UNCHANGED <<server, cache>>
    BY <1>1, <1>2 DEF Reconnect, TInv, TypeOK
  <1>5. asks \in Seq(UpMsg) /\ Len(asks) \in Nat
    <2>1. Ask \in UpMsg
      BY DEF Ask, UpMsg
    <2> QED
      BY <2>1
  <1> HIDE DEF asks, puts
  <1>6. ASSUME Of(up'[c], "put") = {}
        PROVE  Unheld(c) = {}
    <2>1. \A i \in 1..Len(puts) : /\ Len(asks) + i \in 1..Len(asks \o puts)
                                  /\ (asks \o puts)[Len(asks) + i] = puts[i]
      BY <1>3, <1>5
    <2>2. \A i \in 1..Len(puts) : puts[i] \in Of(up'[c], "put")
      BY <1>3, <1>4, <2>1 DEF Of
    <2> QED
      BY <1>3, <1>6, <2>2
  <1>7. Of(up'[c], "put") = {} => Of(up[c], "put") = {} /\ Of(down[c], "ack") = {}
    BY <1>6 DEF FlowInv, OrderedInv, OrderInv, OrderInvOf, InLine, Sends, Answers
  <1>8. down[c] \in Seq(DownMsg)
    BY <1>2 DEF TInv, TypeOK
  <1> QED
    BY <1>4, <1>7, <1>8, ComesAfresh DEF Coming

(* No step of the network but a put at the server brings anything new.     *)
LEMMA NetComing ==
  ASSUME FlowInv, NEW c \in Client, NetStep(c), ~ServerPut(c),
         NEW d \in Client, NEW a, NEW v, NEW w, Coming(d, a, v, w)'
  PROVE  Coming(d, a, v, w)
  <1>1. CASE OtherListen(c) \/ OtherListened(c)
    <2>1. UNCHANGED <<up, down, cache, server>>
      BY <1>1 DEF OtherListen, OtherListened, netVars
    <2> QED
      BY <2>1, SameComing
  <1>2. CASE d = c
    BY <1>1, <1>2, ReceiveComing, ServerListenComing, ReconnectComing
       DEF NetStep, ServerApply
  <1>3. CASE d # c /\ (Receive(c) \/ ServerListen(c) \/ Reconnect(c))
    <2>1. /\ up'[d] = up[d] /\ down'[d] = down[d] /\ cache'[d] = cache[d]
          /\ server' = server
      BY <1>3 DEF Receive, ReceiveData, ReceiveAck, ReceiveListened,
         ServerListen, Reconnect, clientVars, FlowInv, OrderedInv, TInv, TypeOK
    <2> QED
      BY <2>1, SameComing
  <1> QED
    BY <1>1, <1>2, <1>3 DEF NetStep, ServerApply

(* The last put on the wire is the newest write.                           *)
LEMMA LastPut ==
  ASSUME FlowInv, NEW c \in Client, NEW m, Of(up[c], "put") = {m}
  PROVE  pend[c] # {} /\ m.val = latest[c]
  <1>1. PICK w \in Unheld(c) : m = Put(w)
    BY DEF FlowInv, OrderedInv, OrderInv, OrderInvOf, InLine, Sends
  <1>2. /\ w \in pend[c] /\ w \in Write0 /\ m.id = w.id /\ m.val = w.val
        /\ w.id < nextId[c] /\ w.id \in Nat /\ nextId[c] \in Nat
    BY <1>1 DEF Unheld, Put, Write0, FlowInv, OrderedInv, OrderInv, OrderInvOf,
       NewestPending, TInv, TypeOK
  <1> DEFINE n == Newest(c)
  <1>3. n \in pend[c] /\ n.id = nextId[c] - 1 /\ n.val = latest[c]
    BY <1>2 DEF FlowInv, OrderedInv, OrderInv, OrderInvOf, NewestPending, Newest
  <1> HIDE DEF n
  <1>4. n \in Unheld(c)
    <2>1. n.id \in held[c] => n.id < w.id
      BY DEF FlowInv, OrderedInv, OrderInv, OrderInvOf, HeldFirst
    <2> QED
      BY <1>2, <1>3, <2>1 DEF Unheld
  <1>5. CASE \E p \in Of(up[c], "put") : p.id = n.id
    <2>1. w = n
      BY <1>2, <1>3, <1>5 DEF FlowInv, OrderedInv, OrderInv, OrderInvOf, NewestPending
    <2> QED
      BY <1>2, <1>3, <2>1
  <1>6. CASE \E a \in Of(down[c], "ack") : a.id = n.id
    <2>1. n.id < m.id
      BY <1>6 DEF FlowInv, OrderedInv, OrderInv, OrderInvOf, InLine
    <2> QED
      BY <1>2, <1>3, <2>1
  <1> QED
    BY <1>4, <1>5, <1>6, OnTheWire DEF FlowInv, OrderedInv

(* The writer itself is to show nothing but what it shows.                 *)
LEMMA OwnPutComing ==
  ASSUME FlowInv, NEW c \in Client, ServerPut(c), NEW a, NEW v, NEW w,
         Coming(c, a, v, w)'
  PROVE  a = View(c) /\ v = View(c) /\ w = View(c)
  <1> DEFINE m == Head(up[c])
             answer == [op |-> "ack", id |-> m.id,
                        val |-> IF c \in watching THEN m.val ELSE Null]
  <1>1. /\ up[c] # <<>> /\ up'[c] = Tail(up[c]) /\ m.op = "put"
        /\ down'[c] = Append(down[c], answer) /\ cache' = cache
        /\ server' = m.val
    BY DEF ServerPut, clientVars, FlowInv, OrderedInv, TInv, TypeOK
  <1>2. down[c] \in Seq(DownMsg) /\ up[c] \in Seq(UpMsg)
    BY DEF FlowInv, OrderedInv, TInv, TypeOK
  <1>3. m \in UpMsg
    BY <1>1, <1>2, TailFacts
  <1>4. answer \in DownMsg /\ answer.op = "ack" /\ answer.val \in {Null, m.val}
    BY <1>1, <1>3 DEF UpMsg, DownMsg
  <1> HIDE DEF m, answer
  <1>5. Comes(up'[c], Append(down[c], answer), cache[c], m.val, a, v, w)
    BY <1>1 DEF Coming
  <1>6. a = m.val /\ v = m.val /\ w = m.val
    BY <1>2, <1>4, <1>5, ComesAcked
  <1>7. Of(up'[c], "put") = {}
    BY <1>5, ComesNot
  <1>8. Of(up[c], "put") = {m}
    BY <1>1, <1>2, <1>7, OfTail DEF m
  <1>9. pend[c] # {} /\ m.val = latest[c]
    BY <1>8, LastPut
  <1> QED
    BY <1>6, <1>9 DEF View, Shown

(* The other clients are to show the value put, after what was to come.    *)
LEMMA OtherPutComing ==
  ASSUME FlowInv, NEW c \in Client, ServerPut(c), NEW d \in Client, d # c,
         NEW a, NEW v, NEW w, Coming(d, a, v, w)'
  PROVE  \/ Coming(d, a, v, w)
         \/ /\ w = Head(up[c]).val
            /\ \/ a = Head(up[c]).val /\ v = Head(up[c]).val
               \/ Coming(d, a, a, a) /\ v = Head(up[c]).val
               \/ Coming(d, a, a, a) /\ Coming(d, a, v, v)
  <1> DEFINE m == Head(up[c])
             push == [op |-> "data", val |-> m.val]
  <1>1. /\ up[c] # <<>> /\ m.op = "put"
        /\ down'[d] \in {down[d], Append(down[d], push)}
        /\ up'[d] = up[d] /\ cache' = cache /\ server' = m.val
    BY DEF ServerPut, clientVars, FlowInv, OrderedInv, TInv, TypeOK
  <1>2. down[d] \in Seq(DownMsg) /\ up[c] \in Seq(UpMsg)
    BY DEF FlowInv, OrderedInv, TInv, TypeOK
  <1>3. m \in UpMsg
    BY <1>1, <1>2, TailFacts
  <1>4. push \in DownMsg /\ push.val = m.val
    BY <1>1, <1>3 DEF UpMsg, DownMsg
  <1>5. down'[d] = down[d] \/ down'[d] = Append(down[d], push)
    BY <1>1
  <1> HIDE DEF m, push
  <1>6. Comes(up[d], down'[d], cache[d], push.val, a, v, w)
    BY <1>1, <1>4 DEF Coming
  <1>7. \/ Comes(up[d], down[d], cache[d], server, a, v, w)
        \/ /\ w = push.val
           /\ \/ a = push.val /\ v = push.val
              \/ Coming(d, a, a, a) /\ v = push.val
              \/ Coming(d, a, a, a) /\ Coming(d, a, v, v)
    BY <1>2, <1>4, <1>5, <1>6, ComesPushed DEF Coming
  <1> QED
    BY <1>4, <1>7 DEF Coming, m

(* Nothing comes to the writer before its put has been answered.           *)
LEMMA WriteComing ==
  ASSUME FlowInv, NEW c \in Client, NEW x \in Value,
         Write(c, x) \/ WriteThenListen(c, x), NEW d \in Client, NEW a, NEW v, NEW w
  PROVE  /\ d = c => ~Coming(d, a, v, w)'
         /\ d # c => (Coming(d, a, v, w)' <=> Coming(d, a, v, w))
  <1> DEFINE m == Put([id |-> nextId[c], val |-> x])
  <1>1. m \in UpMsg /\ m.op = "put"
    BY RecordType DEF Write, WriteThenListen, Put, FlowInv, OrderedInv
  <1>2. /\ up'[c] = Append(up[c], m) \/ up'[c] = up[c] \o <<m, Ask>>
        /\ \A e \in Client : e # c => up'[e] = up[e]
        /\ UNCHANGED <<down, cache, server>>
    BY DEF Write, WriteThenListen, FlowInv, OrderedInv, TInv, TypeOK
  <1>3. Of(up'[c], "put") # {}
    <2> HIDE DEF m
    <2>1. up[c] \in Seq(UpMsg) /\ Ask \in UpMsg
      BY DEF FlowInv, OrderedInv, TInv, TypeOK, Ask, UpMsg
    <2>2. up'[c][Len(up[c]) + 1] = m /\ Len(up[c]) + 1 \in 1..Len(up'[c])
      BY <1>1, <1>2, <2>1
    <2> QED
      BY <1>1, <2>2 DEF Of
  <1>4. d = c => ~Coming(d, a, v, w)'
    BY <1>3, ComesNot DEF Coming
  <1> QED
    BY <1>2, <1>4, SameComing
-----------------------------------------------------------------------------
(* The network shows a listening client something new only by what was     *)
(* coming to it, and once no write of its own is pending.                  *)
LEMMA NetView ==
  ASSUME FlowInv, NEW c \in Client, NetStep(c), listens[c]
  PROVE  \/ View(c)' = View(c) /\ events'[c] = events[c]
         \/ /\ View(c)' \in Value /\ View(c)' # View(c) /\ pend'[c] = {}
            /\ cache'[c] = View(c)'
            /\ events'[c] = Append(events[c], View(c)')
  <1>1. CASE UNCHANGED <<pend, latest, cache, events>>
    BY <1>1 DEF View
  <1>2. CASE Receive(c) \/ OtherListened(c)
    <2>1. PICK p \in SUBSET pend[c], k \in Value \cup {Null} :
            /\ pend'[c] = p /\ cache'[c] = k /\ UNCHANGED <<latest, listens, seen>>
            /\ Raise(c, Shown(p, latest[c], k))
      <3>1. CASE OtherListened(c)
        <4> DEFINE p == IF asked[c] THEN pend[c] ELSE Unheld(c)
        <4>1. p \in SUBSET pend[c] /\ cache[c] \in Value \cup {Null}
          BY DEF Unheld, FlowInv, OrderedInv, TInv, TypeOK
        <4>2. /\ pend'[c] = p /\ cache'[c] = cache[c]
              /\ UNCHANGED <<latest, listens, seen>>
              /\ Raise(c, Shown(p, latest[c], cache[c]))
          BY <3>1 DEF OtherListened, FlowInv, OrderedInv, TInv, TypeOK
        <4> HIDE DEF p
        <4> QED
          BY <4>1, <4>2
      <3>2. CASE ReceiveData(c)
        <4> DEFINE k == Head(down[c]).val
        <4>1. k \in Value /\ pend[c] \in SUBSET pend[c]
          BY <3>2, HeadType DEF ReceiveData, FlowInv, OrderedInv
        <4>2. /\ pend'[c] = pend[c] /\ cache'[c] = k
              /\ UNCHANGED <<latest, listens, seen>>
              /\ Raise(c, Shown(pend[c], latest[c], k))
          BY <3>2 DEF ReceiveData, FlowInv, OrderedInv, TInv, TypeOK
        <4> HIDE DEF k
        <4> QED
          BY <4>1, <4>2
      <3>3. CASE ReceiveAck(c)
        <4> DEFINE m == Head(down[c])
                   k == IF m.val = Null THEN cache[c] ELSE m.val
                   p == IF Hold(c) THEN pend[c] ELSE {w \in pend[c] : w.id # m.id}
        <4>1. k \in Value \cup {Null} /\ p \in SUBSET pend[c]
          BY <3>3, HeadType DEF ReceiveAck, FlowInv, OrderedInv, TInv, TypeOK
        <4>2. /\ pend'[c] = p /\ cache'[c] = k
              /\ UNCHANGED <<latest, listens, seen>>
              /\ Raise(c, Shown(p, latest[c], k))
          BY <3>3 DEF ReceiveAck, FlowInv, OrderedInv, TInv, TypeOK
        <4> HIDE DEF k, p
        <4> QED
          BY <4>1, <4>2
      <3>4. CASE ReceiveListened(c)
        <4> DEFINE k == Head(down[c]).val
                   p == IF busy[c] THEN pend[c] ELSE Unheld(c)
        <4>1. k \in Value /\ p \in SUBSET pend[c]
          BY <3>4, HeadType DEF ReceiveListened, Unheld, FlowInv, OrderedInv
        <4>2. /\ pend'[c] = p /\ cache'[c] = k
              /\ UNCHANGED <<latest, listens, seen>>
              /\ Raise(c, Shown(p, latest[c], k))
          BY <3>4 DEF ReceiveListened, FlowInv, OrderedInv, TInv, TypeOK
        <4> HIDE DEF k, p
        <4> QED
          BY <4>1, <4>2
      <3> QED
        BY <1>2, <3>1, <3>2, <3>3, <3>4 DEF Receive
    <2> DEFINE x == Shown(p, latest[c], k)
    <2>2. View(c)' = x
      BY <2>1 DEF View
    <2>3. CASE p # {}
      <3>1. x = View(c)
        BY <2>3 DEF Shown, View
      <3>2. events' = events
        BY <2>1, <3>1 DEF Raise
      <3> QED
        BY <2>2, <3>1, <3>2
    <2>4. CASE p = {}
      <3>1. x = k
        BY <2>4 DEF Shown
      <3> HIDE DEF x
      <3>2. CASE x \in {Null, View(c)}
        <4>1. events' = events
          BY <2>1, <3>2 DEF Raise, x
        <4>2. EventInvOf(c)'
          <5>1. [Next]_nodeVars
            BY DEF Next
          <5> QED
            BY <5>1, NextFlowInv DEF FlowInv, OrderedInv, EventInv
        <4>3. /\ LastOf(seen'[c], events'[c]) = View(c)'
              /\ LastOf(seen[c], events[c]) = View(c)
          BY <2>1, <4>2 DEF EventInvOf, FlowInv, OrderedInv, EventInv
        <4> QED
          BY <2>1, <4>1, <4>3
      <3>3. CASE x \notin {Null, View(c)}
        <4>1. events'[c] = Append(events[c], x)
          BY <2>1, <3>3 DEF Raise, x, FlowInv, OrderedInv, TInv, TypeOK
        <4> QED
          BY <2>1, <2>2, <2>4, <3>1, <3>3, <4>1
      <3> QED
        BY <3>2, <3>3
    <2> QED
      BY <2>3, <2>4
  <1> QED
    BY <1>1, <1>2 DEF NetStep, ServerApply, ServerPut, ServerListen,
       OtherListen, Reconnect, clientVars

(* What the network newly shows a client was coming to it, and what is     *)
(* still to come was coming behind it.                                     *)
LEMMA ViewComing ==
  ASSUME FlowInv, NEW c \in Client, NetStep(c), listens[c],
         View(c)' # View(c)
  PROVE  /\ ~ServerPut(c)
         /\ Coming(c, View(c)', View(c)', View(c)')
         /\ Coming(c, View(c)', View(c)', server')
         /\ \A a, v, w : Coming(c, a, v, w)' =>
              /\ Coming(c, View(c)', View(c)', w)
              /\ Coming(c, View(c)', v, w)
  <1>1. View(c)' \in Value /\ pend'[c] = {} /\ cache'[c] = View(c)'
    BY NetView
  <1>2. ~ServerPut(c)
    BY DEF ServerPut, clientVars, View
  <1>3. FlowInv'
    <2>1. [Next]_nodeVars
      BY DEF Next
    <2> QED
      BY <2>1, NextFlowInv
  <1>4. /\ Of(up'[c], "put") = {} /\ Of(down'[c], "ack") = {}
        /\ down'[c] \in Seq(DownMsg) /\ server' # Null
    <2>1. InLine(c)' /\ TInv'
      BY <1>3 DEF FlowInv, OrderedInv, OrderInv, OrderInvOf
    <2> QED
      BY <1>1, <2>1, NullAssumption DEF InLine, Sends, Answers, Unheld, TInv, TypeOK
  <1> DEFINE k == cache'[c]
             z == server'
  <1>5. k # Null /\ k = View(c)'
    BY <1>1, NullAssumption
  <1>6. /\ Comes(up'[c], down'[c], k, z, k, k, k)
        /\ Comes(up'[c], down'[c], k, z, k, k, z)
        /\ \A a, v, w : Comes(up'[c], down'[c], k, z, a, v, w)
             => /\ Comes(up'[c], down'[c], k, z, k, k, w)
                /\ Comes(up'[c], down'[c], k, z, k, v, w)
    <2> HIDE DEF k, z
    <2>1. z # Null
      BY <1>4 DEF z
    <2> QED
      BY <1>4, <1>5, <2>1, ComesOpen
  <1>7. ASSUME NEW x, x = k
        PROVE  /\ Coming(c, x, x, x)' /\ Coming(c, x, x, server)'
               /\ \A a, v, w : Coming(c, a, v, w)'
                    => Coming(c, x, x, w)' /\ Coming(c, x, v, w)'
    BY <1>6, <1>7 DEF Coming
  <1>8. PICK x : x = k
    OBVIOUS
  <1>9. \A a, v, w : Coming(c, a, v, w)' => Coming(c, a, v, w)
    BY <1>2, NetComing
  <1>10. /\ Coming(c, x, x, x)
         /\ \A a, v, w : Coming(c, a, v, w)'
              => Coming(c, x, x, w) /\ Coming(c, x, v, w)
    BY <1>7, <1>8, <1>9
  <1>11. Coming(c, x, x, server')
    <2>1. PICK y : y = server'
      OBVIOUS
    <2>2. Coming(c, x, x, y)'
      BY <1>7, <1>8, <2>1
    <2> QED
      BY <1>9, <2>1, <2>2
  <1> QED
    BY <1>2, <1>5, <1>8, <1>10, <1>11
=============================================================================
