------------------------- MODULE FirebaseNodeProofs -------------------------
(* Theorems about FirebaseNode, for any clients, values and bounds. *)
EXTENDS FirebaseNode, FiniteSetTheorems, TLAPS

(* What a sequence holds after its head is taken. *)
LEMMA TailFacts ==
  ASSUME NEW S, NEW s \in Seq(S), s # <<>>
  PROVE  /\ Head(s) = s[1] /\ s[1] \in S
         /\ Tail(s) \in Seq(S)
         /\ Len(s) \in Nat \ {0}
         /\ Len(Tail(s)) = Len(s) - 1
         /\ \A i \in 1..(Len(s) - 1) : Tail(s)[i] = s[i + 1]
  OBVIOUS

(* What a sequence holds after an element is appended. *)
LEMMA AppendFacts ==
  ASSUME NEW S, NEW s \in Seq(S), NEW x \in S
  PROVE  /\ Append(s, x) \in Seq(S)
         /\ Append(s, x) # <<>>
         /\ Len(s) \in Nat
         /\ Len(Append(s, x)) = Len(s) + 1
         /\ \A i \in 1..Len(s) : Append(s, x)[i] = s[i]
         /\ Append(s, x)[Len(s) + 1] = x
  OBVIOUS

-----------------------------------------------------------------------------
(* The type invariant is inductive together with two facts: a client's     *)
(* pending writes are finitely many (so that they can be sent again in     *)
(* order), and the newest write of a client that has some pending is known.*)
PendOK ==
  \A c \in Client : /\ IsFiniteSet(pend[c])
                    /\ pend[c] # {} => latest[c] \in Value

TInv == TypeOK /\ PendOK

LEMMA InitTInv == NodeInit => TInv
  BY FS_EmptySet DEF NodeInit, TInv, TypeOK, PendOK

LEMMA ViewType ==
  ASSUME TInv, NEW c \in Client
  PROVE  View(c) \in Value \cup {Null}
  BY DEF TInv, TypeOK, PendOK, View, Shown

LEMMA RaiseType ==
  ASSUME TInv, NEW c \in Client, NEW v \in Value \cup {Null}, Raise(c, v)
  PROVE  events' \in [Client -> Seq(Value)]
  <1>1. events[c] \in Seq(Value)
    BY DEF TInv, TypeOK
  <1>2. CASE v \in {Null, View(c)}
    BY <1>2 DEF TInv, TypeOK, Raise
  <1>3. CASE v \notin {Null, View(c)}
    <2>1. Append(events[c], v) \in Seq(Value)
      BY <1>1, <1>3
    <2> QED
      BY <1>3, <2>1 DEF TInv, TypeOK, Raise
  <1> QED
    BY <1>2, <1>3

LEMMA RecordType ==
  ASSUME TInv, NEW c \in Client, NEW v \in Value, Record(c, v)
  PROVE  /\ pend' \in [Client -> SUBSET Write0]
         /\ latest' \in [Client -> Value \cup {Null}]
         /\ nextId' \in [Client -> Nat]
         /\ PendOK'
         /\ Put([id |-> nextId[c], val |-> v]) \in UpMsg
  <1> DEFINE w == [id |-> nextId[c], val |-> v]
  <1>1. w \in Write0
    BY DEF TInv, TypeOK, Write0
  <1>2. IsFiniteSet(pend[c] \cup {w})
    BY FS_AddElement DEF TInv, PendOK
  <1>3. pend' \in [Client -> SUBSET Write0]
    BY <1>1 DEF TInv, TypeOK, Record
  <1>4. latest' \in [Client -> Value \cup {Null}] /\ nextId' \in [Client -> Nat]
    BY DEF TInv, TypeOK, Record
  <1>5. PendOK'
    BY <1>2 DEF TInv, TypeOK, PendOK, Record
  <1>6. Put(w) \in UpMsg
    BY DEF TInv, TypeOK, Put, UpMsg
  <1> QED
    BY <1>3, <1>4, <1>5, <1>6

LEMMA WriteTInv ==
  ASSUME TInv, NEW c \in Client, NEW v \in Value, Write(c, v)
  PROVE  TInv'
  <1> DEFINE m == Put([id |-> nextId[c], val |-> v])
  <1>1. Record(c, v)
    BY DEF Write
  <1>2. events' \in [Client -> Seq(Value)]
    BY RaiseType DEF Write, TInv, TypeOK
  <1>3. Append(up[c], m) \in Seq(UpMsg)
    BY <1>1, RecordType DEF TInv, TypeOK
  <1>4. up' \in [Client -> Seq(UpMsg)]
    BY <1>3 DEF Write, TInv, TypeOK
  <1> QED
    BY <1>1, <1>2, <1>4, RecordType DEF Write, TInv, TypeOK

LEMMA ListenTInv ==
  ASSUME TInv, NEW c \in Client, Listen(c)
  PROVE  TInv'
  <1>1. Ask \in UpMsg
    BY DEF Ask, UpMsg
  <1>2. Append(up[c], Ask) \in Seq(UpMsg)
    BY <1>1 DEF TInv, TypeOK
  <1>3. up' \in [Client -> Seq(UpMsg)]
    BY <1>2 DEF Listen, TInv, TypeOK
  <1>4. pend[c] # {} => Append(events[c], latest[c]) \in Seq(Value)
    BY DEF TInv, TypeOK, PendOK
  <1>5. events' \in [Client -> Seq(Value)]
    BY <1>4 DEF Listen, TInv, TypeOK
  <1> QED
    BY <1>3, <1>5 DEF Listen, TInv, TypeOK, PendOK

LEMMA WriteThenListenTInv ==
  ASSUME TInv, NEW c \in Client, NEW v \in Value, WriteThenListen(c, v)
  PROVE  TInv'
  <1> DEFINE m == Put([id |-> nextId[c], val |-> v])
  <1>1. Record(c, v)
    BY DEF WriteThenListen
  <1>2. m \in UpMsg /\ Ask \in UpMsg
    BY <1>1, RecordType DEF Ask, UpMsg
  <1>3. up[c] \o <<m, Ask>> \in Seq(UpMsg)
    BY <1>2 DEF TInv, TypeOK
  <1>4. up' \in [Client -> Seq(UpMsg)]
    BY <1>3 DEF WriteThenListen, TInv, TypeOK
  <1>5. Append(events[c], v) \in Seq(Value)
    BY DEF TInv, TypeOK
  <1>6. events' \in [Client -> Seq(Value)]
    BY <1>5 DEF WriteThenListen, TInv, TypeOK
  <1> QED
    BY <1>1, <1>4, <1>6, RecordType DEF WriteThenListen, TInv, TypeOK

LEMMA ServerPutTInv ==
  ASSUME TInv, NEW c \in Client, ServerPut(c)
  PROVE  TInv'
  <1> DEFINE m == Head(up[c])
             answer == [op |-> "ack", id |-> m.id,
                        val |-> IF c \in watching THEN m.val ELSE Null]
             push == [op |-> "data", val |-> m.val]
  <1>1. up[c] \in Seq(UpMsg) /\ up[c] # <<>>
    BY DEF ServerPut, TInv, TypeOK
  <1>2. m \in UpMsg /\ m.op = "put" /\ Tail(up[c]) \in Seq(UpMsg)
    BY <1>1, TailFacts DEF ServerPut
  <1>3. m.id \in Nat /\ m.val \in Value
    BY <1>2 DEF UpMsg
  <1>4. answer \in DownMsg /\ push \in DownMsg
    BY <1>3 DEF DownMsg
  <1>5. ASSUME NEW d \in Client
        PROVE  down'[d] \in Seq(DownMsg)
    <2>1. down[d] \in Seq(DownMsg)
      BY DEF TInv, TypeOK
    <2>2. /\ Append(down[d], answer) \in Seq(DownMsg)
          /\ Append(down[d], push) \in Seq(DownMsg)
      BY <2>1, <1>4, AppendFacts
    <2>3. down'[d] = IF d = c THEN Append(down[d], answer)
                     ELSE IF d \in watching THEN Append(down[d], push)
                     ELSE down[d]
      BY DEF ServerPut
    <2> QED
      BY <2>1, <2>2, <2>3
  <1>6. down' \in [Client -> Seq(DownMsg)]
    BY <1>5 DEF ServerPut
  <1>7. up' \in [Client -> Seq(UpMsg)]
    BY <1>2 DEF ServerPut, TInv, TypeOK
  <1>8. server' \in Value
    BY <1>3 DEF ServerPut
  <1> QED
    BY <1>6, <1>7, <1>8 DEF ServerPut, clientVars, TInv, TypeOK, PendOK

LEMMA ServerListenTInv ==
  ASSUME TInv, NEW c \in Client, ServerListen(c)
  PROVE  TInv'
  <1>1. up[c] \in Seq(UpMsg) /\ up[c] # <<>>
    BY DEF ServerListen, TInv, TypeOK
  <1>2. Tail(up[c]) \in Seq(UpMsg)
    BY <1>1, TailFacts
  <1>3. [op |-> "listened", val |-> server] \in DownMsg
    BY DEF TInv, TypeOK, DownMsg
  <1>4. Append(down[c], [op |-> "listened", val |-> server]) \in Seq(DownMsg)
    BY <1>3 DEF TInv, TypeOK
  <1> QED
    BY <1>2, <1>4 DEF ServerListen, clientVars, TInv, TypeOK, PendOK

(* What client c finds at the head of its incoming messages. *)
LEMMA HeadType ==
  ASSUME TInv, NEW c \in Client, down[c] # <<>>
  PROVE  /\ Head(down[c]) \in DownMsg
         /\ Tail(down[c]) \in Seq(DownMsg)
         /\ Head(down[c]).op \in {"data", "listened"} => Head(down[c]).val \in Value
         /\ Head(down[c]).op = "ack" => /\ Head(down[c]).id \in Nat
                                       /\ Head(down[c]).val \in Value \cup {Null}
  <1>1. down[c] \in Seq(DownMsg)
    BY DEF TInv, TypeOK
  <1>2. Head(down[c]) \in DownMsg /\ Tail(down[c]) \in Seq(DownMsg)
    BY <1>1, TailFacts
  <1> QED
    BY <1>2 DEF DownMsg

(* A view calculated from a part of the pending writes. *)
LEMMA ShownType ==
  ASSUME TInv, NEW c \in Client, NEW p \in SUBSET pend[c],
         NEW k \in Value \cup {Null}
  PROVE  /\ Shown(p, latest[c], k) \in Value \cup {Null}
         /\ IsFiniteSet(p)
         /\ p \in SUBSET Write0
         /\ p # {} => latest[c] \in Value
  <1>1. IsFiniteSet(p)
    BY FS_Subset DEF TInv, PendOK
  <1> QED
    BY <1>1 DEF TInv, TypeOK, PendOK, Shown

LEMMA ReceiveDataTInv ==
  ASSUME TInv, NEW c \in Client, ReceiveData(c)
  PROVE  TInv'
  <1> DEFINE v == Head(down[c]).val
  <1>1. v \in Value /\ Tail(down[c]) \in Seq(DownMsg)
    BY HeadType DEF ReceiveData
  <1>2. Shown(pend[c], latest[c], v) \in Value \cup {Null}
    BY <1>1, ShownType
  <1>3. events' \in [Client -> Seq(Value)]
    BY <1>2, RaiseType DEF ReceiveData
  <1> QED
    BY <1>1, <1>3 DEF ReceiveData, TInv, TypeOK, PendOK

LEMMA ReceiveAckTInv ==
  ASSUME TInv, NEW c \in Client, ReceiveAck(c)
  PROVE  TInv'
  <1> DEFINE m == Head(down[c])
             k == IF m.val = Null THEN cache[c] ELSE m.val
             p == IF Hold(c) THEN pend[c] ELSE {w \in pend[c] : w.id # m.id}
             h == IF Hold(c) THEN held[c] \cup {m.id} ELSE held[c]
  <1>1. /\ m.id \in Nat /\ m.val \in Value \cup {Null}
        /\ Tail(down[c]) \in Seq(DownMsg)
    BY HeadType DEF ReceiveAck
  <1>2. k \in Value \cup {Null}
    BY <1>1 DEF TInv, TypeOK
  <1>3. h \in SUBSET Nat
    BY <1>1 DEF TInv, TypeOK
  <1>4. p \in SUBSET pend[c]
    OBVIOUS
  <1>5. /\ Shown(p, latest[c], k) \in Value \cup {Null}
        /\ IsFiniteSet(p) /\ p \in SUBSET Write0
        /\ p # {} => latest[c] \in Value
    <2> HIDE DEF p, k
    <2> QED
      BY <1>2, <1>4, ShownType
  <1>6. events' \in [Client -> Seq(Value)]
    BY <1>5, RaiseType DEF ReceiveAck, TInv, TypeOK
  <1>7. /\ cache' = [cache EXCEPT ![c] = k]
        /\ pend' = [pend EXCEPT ![c] = p]
        /\ held' = [held EXCEPT ![c] = h]
        /\ down' = [down EXCEPT ![c] = Tail(@)]
        /\ UNCHANGED <<server, watching, up, listens, asked, busy, latest,
                       nextId, seen, drops>>
    BY DEF ReceiveAck
  <1>8. PendOK'
    BY <1>5, <1>7 DEF ReceiveAck, TInv, TypeOK, PendOK
  <1> HIDE DEF m, k, p, h
  <1> QED
    BY <1>1, <1>2, <1>3, <1>5, <1>6, <1>7, <1>8 DEF TInv, TypeOK

LEMMA ReceiveListenedTInv ==
  ASSUME TInv, NEW c \in Client, ReceiveListened(c)
  PROVE  TInv'
  <1> DEFINE v == Head(down[c]).val
             p == IF busy[c] THEN pend[c] ELSE Unheld(c)
             h == IF busy[c] THEN held[c] ELSE {}
  <1>1. v \in Value /\ Tail(down[c]) \in Seq(DownMsg)
    BY HeadType DEF ReceiveListened
  <1>2. p \in SUBSET pend[c] /\ h \in SUBSET Nat
    BY DEF Unheld, TInv, TypeOK
  <1>3. /\ Shown(p, latest[c], v) \in Value \cup {Null}
        /\ IsFiniteSet(p) /\ p \in SUBSET Write0
        /\ p # {} => latest[c] \in Value
    BY <1>1, <1>2, ShownType
  <1>4. events' \in [Client -> Seq(Value)]
    BY <1>3, RaiseType DEF ReceiveListened
  <1>5. /\ cache' = [cache EXCEPT ![c] = v]
        /\ pend' = [pend EXCEPT ![c] = p]
        /\ held' = [held EXCEPT ![c] = h]
        /\ asked' = [asked EXCEPT ![c] = FALSE]
        /\ down' = [down EXCEPT ![c] = Tail(@)]
        /\ UNCHANGED <<server, watching, up, listens, busy, latest, nextId,
                       seen, drops>>
    BY DEF ReceiveListened
  <1>6. PendOK'
    BY <1>3, <1>5 DEF ReceiveListened, TInv, TypeOK, PendOK
  <1> HIDE DEF v, p, h
  <1> QED
    BY <1>1, <1>2, <1>3, <1>4, <1>5, <1>6 DEF TInv, TypeOK

LEMMA OtherListenTInv ==
  ASSUME TInv, NEW c \in Client, OtherListen(c)
  PROVE  TInv'
  BY DEF OtherListen, netVars, TInv, TypeOK, PendOK

LEMMA OtherListenedTInv ==
  ASSUME TInv, NEW c \in Client, OtherListened(c)
  PROVE  TInv'
  <1> DEFINE p == IF asked[c] THEN pend[c] ELSE Unheld(c)
             h == IF asked[c] THEN held[c] ELSE {}
  <1>1. p \in SUBSET pend[c] /\ h \in SUBSET Nat
    BY DEF Unheld, TInv, TypeOK
  <1>2. cache[c] \in Value \cup {Null}
    BY DEF TInv, TypeOK
  <1>3. /\ Shown(p, latest[c], cache[c]) \in Value \cup {Null}
        /\ IsFiniteSet(p) /\ p \in SUBSET Write0
        /\ p # {} => latest[c] \in Value
    BY <1>1, <1>2, ShownType
  <1>4. events' \in [Client -> Seq(Value)]
    BY <1>3, RaiseType DEF OtherListened, TInv, TypeOK
  <1>5. pend' = [pend EXCEPT ![c] = p] /\ held' = [held EXCEPT ![c] = h]
    BY DEF OtherListened
  <1>6. PendOK'
    BY <1>3, <1>5 DEF OtherListened, TInv, TypeOK, PendOK
  <1> HIDE DEF p, h
  <1> QED
    BY <1>1, <1>3, <1>4, <1>5, <1>6 DEF OtherListened, netVars, TInv, TypeOK

LEMMA DeliverTInv ==
  ASSUME TInv, NEW c \in Client, Deliver(c)
  PROVE  TInv'
  <1>1. events[c] \in Seq(Value) /\ events[c] # <<>>
    BY DEF Deliver, TInv, TypeOK
  <1>2. Head(events[c]) \in Value /\ Tail(events[c]) \in Seq(Value)
    BY <1>1, TailFacts
  <1> QED
    BY <1>2 DEF Deliver, netVars, clientVars, TInv, TypeOK, PendOK

(* The puts sent again after a reconnection. *)
LEMMA ResentFacts ==
  ASSUME TInv, NEW c \in Client, NEW q \in InOrder(Resent(c))
  PROVE  /\ q \in Seq(Write0)
         /\ [i \in DOMAIN q |-> Put(q[i])] \in Seq(UpMsg)
         /\ Len(q) \in Nat /\ DOMAIN q = 1..Len(q)
         /\ \A w \in Unheld(c) : \E i \in 1..Len(q) : q[i] = w
  <1> DEFINE n == Cardinality(Resent(c))
             puts == [i \in DOMAIN q |-> Put(q[i])]
  <1>1. Resent(c) \in SUBSET pend[c] /\ Resent(c) = Unheld(c)
    BY DEF Resent, Unheld
  <1>2. IsFiniteSet(Resent(c)) /\ Resent(c) \in SUBSET Write0
    BY <1>1, FS_Subset DEF TInv, TypeOK, PendOK
  <1>3. n \in Nat
    BY <1>2, FS_CardinalityType
  <1>4. q \in [1..n -> Resent(c)]
    BY DEF InOrder
  <1>5. q \in Seq(Write0) /\ Len(q) = n /\ DOMAIN q = 1..n
    BY <1>2, <1>3, <1>4
  <1>6. \A i \in 1..n : Put(q[i]) \in UpMsg
    BY <1>2, <1>4 DEF Put, UpMsg, Write0
  <1>7. puts \in [1..n -> UpMsg]
    BY <1>5, <1>6
  <1>8. puts \in Seq(UpMsg)
    BY <1>3, <1>7
  <1>9. \A w \in Unheld(c) : \E i \in DOMAIN q : q[i] = w
    BY <1>1 DEF InOrder
  <1> QED
    BY <1>3, <1>5, <1>8, <1>9

LEMMA ReconnectTInv ==
  ASSUME TInv, NEW c \in Client, Reconnect(c)
  PROVE  TInv'
  <1> DEFINE asks == IF listens[c] THEN <<Ask>> ELSE <<>>
  <1>1. PICK q \in InOrder(Resent(c)) :
          up' = [up EXCEPT ![c] = asks \o [i \in DOMAIN q |-> Put(q[i])]]
    BY DEF Reconnect
  <1>2. [i \in DOMAIN q |-> Put(q[i])] \in Seq(UpMsg)
    BY ResentFacts
  <1>3. asks \in Seq(UpMsg)
    <2>1. Ask \in UpMsg
      BY DEF Ask, UpMsg
    <2> QED
      BY <2>1
  <1>4. asks \o [i \in DOMAIN q |-> Put(q[i])] \in Seq(UpMsg)
    BY <1>2, <1>3
  <1>5. up' \in [Client -> Seq(UpMsg)]
    BY <1>1, <1>4 DEF TInv, TypeOK
  <1>6. down' \in [Client -> Seq(DownMsg)]
    BY DEF Reconnect, TInv, TypeOK
  <1> QED
    BY <1>5, <1>6 DEF Reconnect, TInv, TypeOK, PendOK

(* Each step of the SDK or of its users keeps the type invariant.          *)
LEMMA NextTInv == TInv /\ [Next]_nodeVars => TInv'
  <1> SUFFICES ASSUME TInv, [Next]_nodeVars
               PROVE  TInv'
    OBVIOUS
  <1>1. CASE UNCHANGED nodeVars
    BY <1>1 DEF nodeVars, netVars, clientVars, TInv, TypeOK, PendOK
  <1>2. CASE Next
    <2> PICK c \in Client :
          \/ \E v \in Value : Write(c, v) \/ WriteThenListen(c, v)
          \/ Listen(c) \/ NetStep(c) \/ Deliver(c)
      BY <1>2 DEF Next
    <2>1. CASE \E v \in Value : Write(c, v)
      BY <2>1, WriteTInv
    <2>2. CASE \E v \in Value : WriteThenListen(c, v)
      BY <2>2, WriteThenListenTInv
    <2>3. CASE Listen(c)
      BY <2>3, ListenTInv
    <2>4. CASE NetStep(c)
      BY <2>4, ServerPutTInv, ServerListenTInv, ReceiveDataTInv, ReceiveAckTInv,
         ReceiveListenedTInv, OtherListenTInv, OtherListenedTInv, ReconnectTInv
         DEF NetStep, ServerApply, Receive
    <2>5. CASE Deliver(c)
      BY <2>5, DeliverTInv
    <2> QED
      BY <2>1, <2>2, <2>3, <2>4, <2>5
  <1> QED
    BY <1>1, <1>2

(* The variables keep their types, whatever is written, lost or sent again *)
(* (FRepo, FSyncTree, FPersistentConnection).                              *)
THEOREM TypeCorrect == Spec => []TypeOK
  <1>1. Spec => []TInv
    BY InitTInv, NextTInv, PTL DEF Spec
  <1>2. TInv => TypeOK
    BY DEF TInv
  <1> QED
    BY <1>1, <1>2, PTL
=============================================================================
