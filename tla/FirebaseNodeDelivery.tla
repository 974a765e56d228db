------------------------ MODULE FirebaseNodeDelivery ------------------------
(* Whatever is written, answered late, lost or sent again, every observer  *)
(* ends at the stored value and is never called twice in a row with the    *)
(* same one: Converges and EventsChange, for any clients, values, bounds.  *)
EXTENDS FirebaseNodeProofs

(* The messages under way when one is appended or taken.                   *)
LEMMA UpAppend ==
  ASSUME NEW s \in Seq(UpMsg), NEW x \in UpMsg
  PROVE  /\ \A id : PutUnder(Append(s, x), id)
                     <=> PutUnder(s, id) \/ (x.op = "put" /\ x.id = id)
         /\ AskUnder(Append(s, x)) <=> AskUnder(s) \/ x.op = "listen"
  <1> USE AppendFacts
  <1>1. \A id : PutUnder(s, id) => PutUnder(Append(s, x), id)
    BY DEF PutUnder
  <1>2. \A id : x.op = "put" /\ x.id = id => PutUnder(Append(s, x), id)
    BY DEF PutUnder
  <1>3. \A id : PutUnder(Append(s, x), id)
                 => PutUnder(s, id) \/ (x.op = "put" /\ x.id = id)
    BY DEF PutUnder
  <1>4. AskUnder(Append(s, x)) <=> AskUnder(s) \/ x.op = "listen"
    BY DEF AskUnder
  <1> QED
    BY <1>1, <1>2, <1>3, <1>4

LEMMA UpTail ==
  ASSUME NEW s \in Seq(UpMsg), s # <<>>
  PROVE  /\ \A id : PutUnder(s, id)
                     => PutUnder(Tail(s), id)
                        \/ (Head(s).op = "put" /\ Head(s).id = id)
         /\ AskUnder(s) <=> AskUnder(Tail(s)) \/ Head(s).op = "listen"
  <1> USE TailFacts
  <1>1. ASSUME NEW i \in 1..Len(s)
        PROVE  i = 1 \/ (i - 1 \in 1..Len(Tail(s)) /\ Tail(s)[i - 1] = s[i])
    OBVIOUS
  <1>2. ASSUME NEW i \in 1..Len(Tail(s))
        PROVE  i + 1 \in 1..Len(s) /\ Tail(s)[i] = s[i + 1]
    OBVIOUS
  <1>3. \A id : PutUnder(s, id) => PutUnder(Tail(s), id)
                     \/ (Head(s).op = "put" /\ Head(s).id = id)
    BY <1>1 DEF PutUnder
  <1>4. AskUnder(s) => AskUnder(Tail(s)) \/ Head(s).op = "listen"
    BY <1>1 DEF AskUnder
  <1>5. AskUnder(Tail(s)) => AskUnder(s)
    BY <1>2 DEF AskUnder
  <1>6. Head(s).op = "listen" => AskUnder(s)
    BY DEF AskUnder
  <1> QED
    BY <1>3, <1>4, <1>5, <1>6

LEMMA DownAppend ==
  ASSUME NEW s \in Seq(DownMsg), NEW x \in DownMsg
  PROVE  /\ \A id : AckUnder(s, id) => AckUnder(Append(s, x), id)
         /\ \A id : x.op = "ack" /\ x.id = id => AckUnder(Append(s, x), id)
         /\ AnswerUnder(s) \/ x.op = "listened" => AnswerUnder(Append(s, x))
         /\ Mute(s) /\ x.op = "ack" /\ x.val = Null => Mute(Append(s, x))
         /\ \A k : Bound(Append(s, x), k, x.val) \/ x.val = Null
         /\ \A k, v : x.val = Null /\ Bound(s, k, v) => Bound(Append(s, x), k, v)
  <1> USE AppendFacts
  <1>1. \A id : AckUnder(s, id) => AckUnder(Append(s, x), id)
    BY DEF AckUnder
  <1>2. \A id : x.op = "ack" /\ x.id = id => AckUnder(Append(s, x), id)
    BY DEF AckUnder
  <1>3. AnswerUnder(s) \/ x.op = "listened" => AnswerUnder(Append(s, x))
    BY DEF AnswerUnder
  <1>4. Mute(s) /\ x.op = "ack" /\ x.val = Null => Mute(Append(s, x))
    BY DEF Mute
  <1>5. \A k : Bound(Append(s, x), k, x.val) \/ x.val = Null
    BY DEF Bound
  <1>6. ASSUME NEW k, NEW v, x.val = Null, Bound(s, k, v)
        PROVE  Bound(Append(s, x), k, v)
    <2>1. CASE \E i \in 1..Len(s) : /\ s[i].val = v
                                    /\ \A j \in (i + 1)..Len(s) : s[j].val = Null
      <3> PICK i \in 1..Len(s) : /\ s[i].val = v
                                 /\ \A j \in (i + 1)..Len(s) : s[j].val = Null
        BY <2>1
      <3>1. i \in 1..Len(Append(s, x)) /\ Append(s, x)[i].val = v
        OBVIOUS
      <3>2. \A j \in (i + 1)..Len(Append(s, x)) : Append(s, x)[j].val = Null
        BY <1>6
      <3> QED
        BY <3>1, <3>2 DEF Bound
    <2>2. CASE k = v /\ \A j \in 1..Len(s) : s[j].val = Null
      BY <1>6, <2>2 DEF Bound
    <2> QED
      BY <1>6, <2>1, <2>2 DEF Bound
  <1> QED
    BY <1>1, <1>2, <1>3, <1>4, <1>5, <1>6

LEMMA DownTail ==
  ASSUME NEW s \in Seq(DownMsg), s # <<>>
  PROVE  /\ \A id : AckUnder(s, id)
                     => AckUnder(Tail(s), id)
                        \/ (Head(s).op = "ack" /\ Head(s).id = id)
         /\ AnswerUnder(s) => AnswerUnder(Tail(s)) \/ Head(s).op = "listened"
         /\ Mute(s) => /\ Mute(Tail(s))
                       /\ Head(s).op = "ack" /\ Head(s).val = Null
         /\ \A k, v : v # Null /\ Bound(s, k, v) =>
              Bound(Tail(s), IF Head(s).val = Null THEN k ELSE Head(s).val, v)
  <1> USE TailFacts
  <1>1. ASSUME NEW i \in 1..Len(s)
        PROVE  i = 1 \/ (i - 1 \in 1..Len(Tail(s)) /\ Tail(s)[i - 1] = s[i])
    OBVIOUS
  <1>2. ASSUME NEW i \in 1..Len(Tail(s))
        PROVE  i + 1 \in 1..Len(s) /\ Tail(s)[i] = s[i + 1]
    OBVIOUS
  <1>3. \A id : AckUnder(s, id) => AckUnder(Tail(s), id)
                     \/ (Head(s).op = "ack" /\ Head(s).id = id)
    BY <1>1 DEF AckUnder
  <1>4. AnswerUnder(s) => AnswerUnder(Tail(s)) \/ Head(s).op = "listened"
    BY <1>1 DEF AnswerUnder
  <1>5. Mute(s) => Mute(Tail(s)) /\ Head(s).op = "ack" /\ Head(s).val = Null
    BY <1>2 DEF Mute
  <1>6. ASSUME NEW k, NEW v, v # Null, Bound(s, k, v)
        PROVE  Bound(Tail(s), IF Head(s).val = Null THEN k ELSE Head(s).val, v)
    <2>1. CASE \E i \in 1..Len(s) : /\ s[i].val = v
                                    /\ \A j \in (i + 1)..Len(s) : s[j].val = Null
      <3> PICK i \in 1..Len(s) : /\ s[i].val = v
                                 /\ \A j \in (i + 1)..Len(s) : s[j].val = Null
        BY <2>1
      <3>1. CASE i = 1
        <4>1. \A j \in 1..Len(Tail(s)) : Tail(s)[j].val = Null
          BY <3>1, <1>2
        <4>2. Head(s).val = v
          BY <3>1
        <4> QED
          BY <1>6, <4>1, <4>2 DEF Bound
      <3>2. CASE i # 1
        <4>1. i - 1 \in 1..Len(Tail(s)) /\ Tail(s)[i - 1].val = v
          BY <3>2, <1>1
        <4>2. \A j \in ((i - 1) + 1)..Len(Tail(s)) : Tail(s)[j].val = Null
          BY <1>2
        <4> QED
          BY <4>1, <4>2 DEF Bound
      <3> QED
        BY <3>1, <3>2
    <2>2. CASE k = v /\ \A j \in 1..Len(s) : s[j].val = Null
      BY <2>2, <1>2 DEF Bound
    <2> QED
      BY <1>6, <2>1, <2>2 DEF Bound
  <1> QED
    BY <1>3, <1>4, <1>5, <1>6
-----------------------------------------------------------------------------
(* NetInvOf(d) is about nothing but these, so it stands when they do.      *)
LEMMA Untouched ==
  ASSUME NEW d \in Client, NetInvOf(d),
         up'[d] = up[d], down'[d] = down[d], listens'[d] = listens[d],
         asked'[d] = asked[d], busy'[d] = busy[d], pend'[d] = pend[d],
         held'[d] = held[d], cache'[d] = cache[d],
         d \in watching' <=> d \in watching,
         d \in watching => server' = server
  PROVE  NetInvOf(d)'
  BY DEF NetInvOf, Tracked, Asking, Fresh, Unaware

LEMMA InitNetInv == NodeInit => NetInv
  BY DEF NodeInit, NetInv, NetInvOf, Tracked, Asking, Fresh, Unaware, Mute,
         AskUnder

LEMMA WriteNetInv ==
  ASSUME TInv, NetInv, NEW c \in Client, NEW v \in Value, Write(c, v)
  PROVE  NetInv'
  <1> DEFINE w == [id |-> nextId[c], val |-> v]
  <1>1. /\ up[c] \in Seq(UpMsg) /\ Put(w) \in UpMsg
        /\ Put(w).op = "put" /\ Put(w).id = w.id
    BY RecordType DEF Write, TInv, TypeOK, Put
  <1>2. /\ up'[c] = Append(up[c], Put(w)) /\ pend'[c] = pend[c] \cup {w}
        /\ \A d \in Client : d # c => up'[d] = up[d] /\ pend'[d] = pend[d]
        /\ UNCHANGED <<server, watching, down, listens, asked, busy, held, cache>>
    BY DEF Write, Record, TInv, TypeOK
  <1>3. /\ \A id : PutUnder(up'[c], id) <=> PutUnder(up[c], id) \/ w.id = id
        /\ AskUnder(up'[c]) <=> AskUnder(up[c])
    <2> HIDE DEF w
    <2> QED
      BY <1>1, <1>2, UpAppend
  <1>4. NetInvOf(c)'
    BY <1>2, <1>3 DEF NetInv, NetInvOf, Tracked, Asking, Fresh, Unaware
  <1>5. ASSUME NEW d \in Client, d # c
        PROVE  NetInvOf(d)'
    BY <1>2, <1>5, Untouched DEF NetInv
  <1> QED
    BY <1>4, <1>5 DEF NetInv

LEMMA ListenNetInv ==
  ASSUME TInv, NetInv, NEW c \in Client, Listen(c)
  PROVE  NetInv'
  <1>1. up[c] \in Seq(UpMsg) /\ Ask \in UpMsg /\ Ask.op = "listen"
    BY DEF TInv, TypeOK, Ask, UpMsg
  <1>2. /\ up'[c] = Append(up[c], Ask) /\ asked'[c] /\ listens'[c]
        /\ c \in watching' <=> c \in watching
        /\ UNCHANGED <<server, watching, down, busy, pend, held, cache>>
        /\ \A d \in Client : d # c => /\ up'[d] = up[d] /\ asked'[d] = asked[d]
                                      /\ listens'[d] = listens[d]
    BY DEF Listen, TInv, TypeOK
  <1>3. AskUnder(up'[c]) /\ \A id : PutUnder(up[c], id) => PutUnder(up'[c], id)
    BY <1>1, <1>2, UpAppend
  <1>4. NetInvOf(c)'
    BY <1>2, <1>3 DEF NetInv, NetInvOf, Tracked, Asking, Fresh, Unaware
  <1>5. ASSUME NEW d \in Client, d # c
        PROVE  NetInvOf(d)'
    BY <1>2, <1>5, Untouched DEF NetInv
  <1> QED
    BY <1>4, <1>5 DEF NetInv

LEMMA WriteThenListenNetInv ==
  ASSUME TInv, NetInv, NEW c \in Client, NEW v \in Value, WriteThenListen(c, v)
  PROVE  NetInv'
  <1> DEFINE w == [id |-> nextId[c], val |-> v]
  <1>1. /\ up[c] \in Seq(UpMsg) /\ Put(w) \in UpMsg
        /\ Put(w).op = "put" /\ Put(w).id = w.id
        /\ Ask \in UpMsg /\ Ask.op = "listen"
    BY RecordType DEF WriteThenListen, TInv, TypeOK, Put, Ask, UpMsg
  <1>2. /\ up'[c] = up[c] \o <<Put(w), Ask>> /\ pend'[c] = pend[c] \cup {w}
        /\ asked'[c] /\ listens'[c]
        /\ UNCHANGED <<server, watching, down, busy, held, cache>>
        /\ \A d \in Client : d # c => /\ up'[d] = up[d] /\ pend'[d] = pend[d]
                                      /\ asked'[d] = asked[d]
                                      /\ listens'[d] = listens[d]
    BY DEF WriteThenListen, Record, TInv, TypeOK
  <1> HIDE DEF w
  <1>3. up'[c] = Append(Append(up[c], Put(w)), Ask)
    BY <1>1, <1>2
  <1>4. Append(up[c], Put(w)) \in Seq(UpMsg)
    BY <1>1
  <1>5. /\ AskUnder(up'[c])
        /\ \A id : PutUnder(up[c], id) \/ w.id = id => PutUnder(up'[c], id)
    <2> DEFINE s == Append(up[c], Put(w))
    <2>1. \A id : PutUnder(s, id) <=> PutUnder(up[c], id) \/ w.id = id
      BY <1>1, UpAppend
    <2> HIDE DEF s
    <2>2. /\ AskUnder(Append(s, Ask))
          /\ \A id : PutUnder(s, id) => PutUnder(Append(s, Ask), id)
      BY <1>1, <1>4, UpAppend DEF s
    <2>3. up'[c] = Append(s, Ask)
      BY <1>3 DEF s
    <2> QED
      BY <2>1, <2>2, <2>3
  <1>6. NetInvOf(c)'
    <2>1. Tracked(c)'
      BY <1>2, <1>5 DEF NetInv, NetInvOf, Tracked
    <2>2. Asking(c)'
      BY <1>2, <1>5 DEF NetInv, NetInvOf, Asking
    <2>3. Fresh(c)'
      BY <1>2 DEF NetInv, NetInvOf, Fresh
    <2>4. Unaware(c)'
      BY <1>2 DEF Unaware
    <2> QED
      BY <2>1, <2>2, <2>3, <2>4 DEF NetInvOf
  <1>7. ASSUME NEW d \in Client, d # c
        PROVE  NetInvOf(d)'
    BY <1>2, <1>7, Untouched DEF NetInv
  <1> QED
    BY <1>6, <1>7 DEF NetInv

LEMMA ServerPutNetInv ==
  ASSUME TInv, NetInv, NEW c \in Client, ServerPut(c)
  PROVE  NetInv'
  <1> DEFINE m == Head(up[c])
             answer == [op |-> "ack", id |-> m.id,
                        val |-> IF c \in watching THEN m.val ELSE Null]
             push == [op |-> "data", val |-> m.val]
  <1>1. up[c] \in Seq(UpMsg) /\ up[c] # <<>> /\ m.op = "put"
    BY DEF ServerPut, TInv, TypeOK
  <1>2. m.id \in Nat /\ m.val \in Value
    BY <1>1, TailFacts DEF UpMsg
  <1>3. /\ answer \in DownMsg /\ push \in DownMsg
        /\ answer.op = "ack" /\ answer.id = m.id /\ push.val = m.val
        /\ answer.val = IF c \in watching THEN m.val ELSE Null
    BY <1>2 DEF DownMsg
  <1>4. /\ server' = m.val /\ up'[c] = Tail(up[c])
        /\ down'[c] = Append(down[c], answer)
        /\ \A d \in Client : d # c =>
             /\ up'[d] = up[d]
             /\ d \in watching => down'[d] = Append(down[d], push)
             /\ d \notin watching => down'[d] = down[d]
        /\ UNCHANGED <<watching, listens, asked, busy, pend, held, cache>>
    BY DEF ServerPut, clientVars, TInv, TypeOK
  <1>5. m.val # Null /\ \A d \in Client : down[d] \in Seq(DownMsg)
    BY <1>2, NullAssumption DEF TInv, TypeOK
  <1> HIDE DEF m, answer, push
  <1>6. NetInvOf(c)'
    <2>1. /\ \A id : PutUnder(up[c], id) => PutUnder(up'[c], id) \/ m.id = id
          /\ AskUnder(up'[c]) <=> AskUnder(up[c])
      BY <1>1, <1>4, UpTail DEF m
    <2>2. /\ \A id : AckUnder(down[c], id) \/ m.id = id => AckUnder(down'[c], id)
          /\ AnswerUnder(down[c]) => AnswerUnder(down'[c])
          /\ c \in watching => Bound(down'[c], cache[c], server')
          /\ c \notin watching /\ Mute(down[c]) => Mute(down'[c])
      <3> DEFINE s == Append(down[c], answer)
      <3>1. /\ \A id : AckUnder(down[c], id) => AckUnder(s, id)
            /\ \A id : answer.op = "ack" /\ answer.id = id => AckUnder(s, id)
            /\ AnswerUnder(down[c]) => AnswerUnder(s)
            /\ Mute(down[c]) /\ answer.op = "ack" /\ answer.val = Null => Mute(s)
            /\ \A k : Bound(s, k, answer.val) \/ answer.val = Null
        BY <1>3, <1>5, DownAppend
      <3>2. down'[c] = s
        BY <1>4
      <3> HIDE DEF s
      <3> QED
        BY <1>3, <1>4, <1>5, <3>1, <3>2
    <2>3. Tracked(c)'
      BY <1>4, <2>1, <2>2 DEF NetInv, NetInvOf, Tracked
    <2>4. Asking(c)'
      BY <1>4, <2>1, <2>2 DEF NetInv, NetInvOf, Asking
    <2>5. Fresh(c)'
      BY <1>4, <2>2 DEF NetInv, NetInvOf, Fresh
    <2>6. Unaware(c)'
      BY <1>4, <2>1, <2>2 DEF NetInv, NetInvOf, Unaware
    <2> QED
      BY <2>3, <2>4, <2>5, <2>6 DEF NetInvOf
  <1>7. ASSUME NEW d \in Client, d # c
        PROVE  NetInvOf(d)'
    <2>1. CASE d \notin watching
      BY <1>4, <1>7, <2>1, Untouched DEF NetInv
    <2>2. CASE d \in watching
      <3>1. /\ \A id : AckUnder(down[d], id) => AckUnder(down'[d], id)
            /\ AnswerUnder(down[d]) => AnswerUnder(down'[d])
            /\ Bound(down'[d], cache[d], server')
        <4> DEFINE s == Append(down[d], push)
        <4>1. /\ \A id : AckUnder(down[d], id) => AckUnder(s, id)
              /\ AnswerUnder(down[d]) => AnswerUnder(s)
              /\ \A k : Bound(s, k, push.val) \/ push.val = Null
          BY <1>3, <1>5, DownAppend
        <4>2. down'[d] = s
          BY <1>4, <1>7, <2>2
        <4> HIDE DEF s
        <4> QED
          BY <1>3, <1>4, <1>5, <4>1, <4>2
      <3>2. Tracked(d)'
        BY <1>4, <1>7, <3>1 DEF NetInv, NetInvOf, Tracked
      <3>3. Asking(d)'
        BY <1>4, <1>7, <3>1 DEF NetInv, NetInvOf, Asking
      <3>4. Fresh(d)'
        BY <1>4, <3>1 DEF Fresh
      <3>5. Unaware(d)'
        BY <1>4, <2>2 DEF NetInv, NetInvOf, Unaware
      <3> QED
        BY <3>2, <3>3, <3>4, <3>5 DEF NetInvOf
    <2> QED
      BY <2>1, <2>2
  <1> QED
    BY <1>6, <1>7 DEF NetInv

LEMMA ServerListenNetInv ==
  ASSUME TInv, NetInv, NEW c \in Client, ServerListen(c)
  PROVE  NetInv'
  <1> DEFINE answer == [op |-> "listened", val |-> server]
  <1>1. up[c] \in Seq(UpMsg) /\ up[c] # <<>> /\ Head(up[c]).op = "listen"
    BY DEF ServerListen, TInv, TypeOK
  <1>2. /\ answer \in DownMsg /\ answer.op = "listened" /\ answer.val = server
        /\ server # Null /\ down[c] \in Seq(DownMsg)
    BY NullAssumption DEF TInv, TypeOK, DownMsg
  <1>3. /\ up'[c] = Tail(up[c]) /\ down'[c] = Append(down[c], answer)
        /\ watching' = watching \cup {c}
        /\ \A d \in Client : d # c => up'[d] = up[d] /\ down'[d] = down[d]
        /\ UNCHANGED <<server, listens, asked, busy, pend, held, cache>>
    BY DEF ServerListen, clientVars, TInv, TypeOK
  <1> HIDE DEF answer
  <1>4. /\ \A id : PutUnder(up[c], id) => PutUnder(up'[c], id)
        /\ AskUnder(up[c])
    BY <1>1, <1>3, UpTail
  <1>5. /\ \A id : AckUnder(down[c], id) => AckUnder(down'[c], id)
        /\ AnswerUnder(down'[c])
        /\ Bound(down'[c], cache[c], server)
    <2> DEFINE s == Append(down[c], answer)
    <2>1. /\ \A id : AckUnder(down[c], id) => AckUnder(s, id)
          /\ answer.op = "listened" => AnswerUnder(s)
          /\ \A k : Bound(s, k, answer.val) \/ answer.val = Null
      BY <1>2, DownAppend
    <2>2. down'[c] = s
      BY <1>3
    <2> HIDE DEF s
    <2> QED
      BY <1>2, <2>1, <2>2
  <1>6. NetInvOf(c)'
    <2>1. Tracked(c)'
      BY <1>3, <1>4, <1>5 DEF NetInv, NetInvOf, Tracked
    <2>2. Asking(c)'
      BY <1>3, <1>5 DEF NetInv, NetInvOf, Asking
    <2>3. Fresh(c)'
      BY <1>3, <1>5 DEF Fresh
    <2>4. Unaware(c)'
      BY <1>3, <1>4 DEF NetInv, NetInvOf, Unaware
    <2> QED
      BY <2>1, <2>2, <2>3, <2>4 DEF NetInvOf
  <1>7. ASSUME NEW d \in Client, d # c
        PROVE  NetInvOf(d)'
    BY <1>3, <1>7, Untouched DEF NetInv
  <1> QED
    BY <1>6, <1>7 DEF NetInv

(* What client c takes from the head of its incoming messages, and what    *)
(* its remaining messages still hold.                                      *)
LEMMA TakeFacts ==
  ASSUME TInv, NetInv, NEW c \in Client, down[c] # <<>>
  PROVE  /\ \A id : AckUnder(down[c], id) =>
              \/ AckUnder(Tail(down[c]), id)
              \/ Head(down[c]).op = "ack" /\ Head(down[c]).id = id
         /\ AnswerUnder(down[c]) =>
              AnswerUnder(Tail(down[c])) \/ Head(down[c]).op = "listened"
         /\ Mute(down[c]) => /\ Mute(Tail(down[c]))
                             /\ Head(down[c]).op = "ack"
                             /\ Head(down[c]).val = Null
         /\ c \in watching =>
              Bound(Tail(down[c]), IF Head(down[c]).val = Null THEN cache[c]
                                   ELSE Head(down[c]).val, server)
         /\ ~listens[c] => Mute(down[c])
  <1>1. down[c] \in Seq(DownMsg) /\ server # Null
    BY NullAssumption DEF TInv, TypeOK
  <1>2. /\ c \in watching => Bound(down[c], cache[c], server)
        /\ ~listens[c] => Mute(down[c])
    BY DEF NetInv, NetInvOf, Fresh, Unaware
  <1>3. \A k, v : v # Null /\ Bound(down[c], k, v) =>
          Bound(Tail(down[c]),
                IF Head(down[c]).val = Null THEN k ELSE Head(down[c]).val, v)
    BY <1>1, DownTail
  <1>4. /\ \A id : AckUnder(down[c], id) =>
              \/ AckUnder(Tail(down[c]), id)
              \/ Head(down[c]).op = "ack" /\ Head(down[c]).id = id
        /\ AnswerUnder(down[c]) =>
              AnswerUnder(Tail(down[c])) \/ Head(down[c]).op = "listened"
        /\ Mute(down[c]) => /\ Mute(Tail(down[c]))
                            /\ Head(down[c]).op = "ack"
                            /\ Head(down[c]).val = Null
    BY <1>1, DownTail
  <1> QED
    BY <1>1, <1>2, <1>3, <1>4

LEMMA ReceiveDataNetInv ==
  ASSUME TInv, NetInv, NEW c \in Client, ReceiveData(c)
  PROVE  NetInv'
  <1> DEFINE m == Head(down[c])
  <1>1. down[c] # <<>> /\ m.op = "data" /\ m.val \in Value /\ m.val # Null
    BY HeadType, NullAssumption DEF ReceiveData
  <1>2. /\ down'[c] = Tail(down[c]) /\ cache'[c] = m.val
        /\ \A d \in Client : d # c => down'[d] = down[d] /\ cache'[d] = cache[d]
        /\ UNCHANGED <<server, watching, up, listens, asked, busy, pend, held>>
    BY DEF ReceiveData, TInv, TypeOK
  <1> HIDE DEF m
  <1>3. /\ \A id : AckUnder(down[c], id) => AckUnder(down'[c], id)
        /\ AnswerUnder(down[c]) => AnswerUnder(down'[c])
        /\ c \in watching => Bound(down'[c], m.val, server)
        /\ listens[c]
    BY <1>1, <1>2, TakeFacts DEF m
  <1>4. Tracked(c)'
    BY <1>2, <1>3 DEF NetInv, NetInvOf, Tracked
  <1>5. Asking(c)'
    BY <1>1, <1>2, <1>3 DEF NetInv, NetInvOf, Asking
  <1>6. Fresh(c)'
    BY <1>2, <1>3 DEF Fresh
  <1>7. Unaware(c)'
    BY <1>2, <1>3 DEF Unaware
  <1>8. ASSUME NEW d \in Client, d # c
        PROVE  NetInvOf(d)'
    BY <1>2, <1>8, Untouched DEF NetInv
  <1> QED
    BY <1>4, <1>5, <1>6, <1>7, <1>8 DEF NetInv, NetInvOf

LEMMA ReceiveAckNetInv ==
  ASSUME TInv, NetInv, NEW c \in Client, ReceiveAck(c)
  PROVE  NetInv'
  <1> DEFINE m == Head(down[c])
             k == IF m.val = Null THEN cache[c] ELSE m.val
  <1>1. down[c] # <<>> /\ m.op = "ack"
    BY DEF ReceiveAck
  <1>2. /\ down'[c] = Tail(down[c]) /\ cache'[c] = k
        /\ Hold(c) => pend'[c] = pend[c] /\ held'[c] = held[c] \cup {m.id}
        /\ ~Hold(c) => /\ pend'[c] = {w \in pend[c] : w.id # m.id}
                       /\ held'[c] = held[c]
        /\ \A d \in Client : d # c => /\ down'[d] = down[d]
                                      /\ cache'[d] = cache[d]
                                      /\ pend'[d] = pend[d]
                                      /\ held'[d] = held[d]
        /\ UNCHANGED <<server, watching, up, listens, asked, busy>>
    BY DEF ReceiveAck, TInv, TypeOK
  <1>3. /\ \A id : AckUnder(down[c], id) => AckUnder(down'[c], id) \/ m.id = id
        /\ AnswerUnder(down[c]) => AnswerUnder(down'[c])
        /\ Mute(down[c]) => Mute(down'[c]) /\ m.val = Null
        /\ c \in watching => Bound(down'[c], k, server)
        /\ ~listens[c] => Mute(down[c])
    BY <1>1, <1>2, TakeFacts
  <1>4. cache[c] # Null => k # Null
    OBVIOUS
  <1>5. m.val = Null => k = cache[c]
    OBVIOUS
  <1> HIDE DEF m, k
  <1>6. Tracked(c)'
    BY <1>2, <1>3 DEF NetInv, NetInvOf, Tracked
  <1>7. Asking(c)'
    BY <1>2, <1>3, <1>4 DEF NetInv, NetInvOf, Asking, Hold
  <1>8. Fresh(c)'
    BY <1>2, <1>3 DEF Fresh
  <1>9. Unaware(c)'
    BY <1>2, <1>3, <1>5 DEF NetInv, NetInvOf, Unaware
  <1>10. ASSUME NEW d \in Client, d # c
        PROVE  NetInvOf(d)'
    BY <1>2, <1>10, Untouched DEF NetInv
  <1> QED
    BY <1>6, <1>7, <1>8, <1>9, <1>10 DEF NetInv, NetInvOf

LEMMA ReceiveListenedNetInv ==
  ASSUME TInv, NetInv, NEW c \in Client, ReceiveListened(c)
  PROVE  NetInv'
  <1> DEFINE m == Head(down[c])
  <1>1. down[c] # <<>> /\ m.op = "listened" /\ m.val \in Value /\ m.val # Null
    BY HeadType, NullAssumption DEF ReceiveListened
  <1>2. /\ down'[c] = Tail(down[c]) /\ cache'[c] = m.val /\ ~asked'[c]
        /\ busy[c] => pend'[c] = pend[c] /\ held'[c] = held[c]
        /\ ~busy[c] => pend'[c] = Unheld(c) /\ held'[c] = {}
        /\ \A d \in Client : d # c => /\ down'[d] = down[d]
                                      /\ cache'[d] = cache[d]
                                      /\ pend'[d] = pend[d]
                                      /\ held'[d] = held[d]
                                      /\ asked'[d] = asked[d]
        /\ UNCHANGED <<server, watching, up, listens, busy>>
    BY DEF ReceiveListened, TInv, TypeOK
  <1> HIDE DEF m
  <1>3. /\ \A id : AckUnder(down[c], id) => AckUnder(down'[c], id)
        /\ c \in watching => Bound(down'[c], m.val, server)
        /\ listens[c]
    BY <1>1, <1>2, TakeFacts DEF m
  <1>4. Tracked(c)'
    BY <1>2, <1>3 DEF NetInv, NetInvOf, Tracked, Unheld
  <1>5. Asking(c)'
    BY <1>1, <1>2 DEF NetInv, NetInvOf, Asking
  <1>6. Fresh(c)'
    BY <1>2, <1>3 DEF Fresh
  <1>7. Unaware(c)'
    BY <1>2, <1>3 DEF Unaware
  <1>8. ASSUME NEW d \in Client, d # c
        PROVE  NetInvOf(d)'
    BY <1>2, <1>8, Untouched DEF NetInv
  <1> QED
    BY <1>4, <1>5, <1>6, <1>7, <1>8 DEF NetInv, NetInvOf

LEMMA OtherListenNetInv ==
  ASSUME TInv, NetInv, NEW c \in Client, OtherListen(c)
  PROVE  NetInv'
  <1>1. /\ busy'[c] /\ \A d \in Client : d # c => busy'[d] = busy[d]
        /\ UNCHANGED <<server, watching, up, down, listens, asked, pend, held,
                       cache>>
    BY DEF OtherListen, netVars, TInv, TypeOK
  <1>2. NetInvOf(c)'
    BY <1>1 DEF NetInv, NetInvOf, Tracked, Asking, Fresh, Unaware
  <1>3. ASSUME NEW d \in Client, d # c
        PROVE  NetInvOf(d)'
    BY <1>1, <1>3, Untouched DEF NetInv
  <1> QED
    BY <1>2, <1>3 DEF NetInv

LEMMA OtherListenedNetInv ==
  ASSUME TInv, NetInv, NEW c \in Client, OtherListened(c)
  PROVE  NetInv'
  <1>1. /\ ~busy'[c]
        /\ asked[c] => pend'[c] = pend[c] /\ held'[c] = held[c]
        /\ ~asked[c] => pend'[c] = Unheld(c) /\ held'[c] = {}
        /\ \A d \in Client : d # c => /\ busy'[d] = busy[d]
                                      /\ pend'[d] = pend[d]
                                      /\ held'[d] = held[d]
        /\ UNCHANGED <<server, watching, up, down, listens, asked, cache>>
    BY DEF OtherListened, netVars, TInv, TypeOK
  <1>2. Tracked(c)'
    BY <1>1 DEF NetInv, NetInvOf, Tracked, Unheld
  <1>3. Asking(c)'
    BY <1>1 DEF NetInv, NetInvOf, Asking
  <1>4. Fresh(c)' /\ Unaware(c)'
    BY <1>1 DEF NetInv, NetInvOf, Fresh, Unaware
  <1>5. ASSUME NEW d \in Client, d # c
        PROVE  NetInvOf(d)'
    BY <1>1, <1>5, Untouched DEF NetInv
  <1> QED
    BY <1>2, <1>3, <1>4, <1>5 DEF NetInv, NetInvOf

LEMMA ReconnectNetInv ==
  ASSUME TInv, NetInv, NEW c \in Client, Reconnect(c)
  PROVE  NetInv'
  <1> DEFINE asks == IF listens[c] THEN <<Ask>> ELSE <<>>
  <1>1. PICK q \in InOrder(Resent(c)) :
          up' = [up EXCEPT ![c] = asks \o [i \in DOMAIN q |-> Put(q[i])]]
    BY DEF Reconnect
  <1> DEFINE puts == [i \in DOMAIN q |-> Put(q[i])]
  <1>2. /\ puts \in Seq(UpMsg) /\ Len(puts) = Len(q) /\ Len(q) \in Nat
        /\ \A i \in 1..Len(q) : puts[i].op = "put" /\ puts[i].id = q[i].id
        /\ \A w \in Unheld(c) : \E i \in 1..Len(q) : q[i] = w
    BY ResentFacts DEF Put
  <1>3. /\ up'[c] = asks \o puts /\ down'[c] = <<>> /\ asked'[c] = listens[c]
        /\ c \notin watching'
        /\ \A d \in Client : d # c => /\ up'[d] = up[d] /\ down'[d] = down[d]
                                      /\ asked'[d] = asked[d]
                                      /\ d \in watching' <=> d \in watching
        /\ UNCHANGED <<server, listens, busy, pend, held, cache>>
    BY <1>1 DEF Reconnect, TInv, TypeOK
  <1> HIDE DEF puts
  <1>4. listens[c] => AskUnder(up'[c])
    <2>1. Ask.op = "listen"
      BY DEF Ask
    <2>2. listens[c] => /\ up'[c] = <<Ask>> \o puts
                        /\ Len(<<Ask>> \o puts) = 1 + Len(puts)
                        /\ (<<Ask>> \o puts)[1] = Ask
      BY <1>2, <1>3
    <2>3. listens[c] => 1 \in 1..Len(up'[c]) /\ up'[c][1].op = "listen"
      BY <1>2, <2>1, <2>2
    <2> QED
      BY <2>3 DEF AskUnder
  <1>5. ASSUME ~listens[c]
        PROVE  ~AskUnder(up'[c])
    <2>1. up'[c] = puts
      BY <1>2, <1>3, <1>5
    <2> QED
      BY <1>2, <2>1 DEF AskUnder
  <1>6. ASSUME NEW w \in Unheld(c)
        PROVE  PutUnder(up'[c], w.id)
    <2>1. PICK i \in 1..Len(q) : q[i] = w
      BY <1>2
    <2>2. puts[i].op = "put" /\ puts[i].id = w.id
      BY <1>2, <2>1
    <2>3. CASE listens[c]
      <3>1. /\ up'[c] = <<Ask>> \o puts
            /\ i + 1 \in 1..Len(<<Ask>> \o puts)
            /\ (<<Ask>> \o puts)[i + 1] = puts[i]
        BY <1>2, <1>3, <2>3
      <3> QED
        BY <2>2, <3>1 DEF PutUnder
    <2>4. CASE ~listens[c]
      <3>1. up'[c] = puts
        BY <1>2, <1>3, <2>4
      <3> QED
        BY <1>2, <2>2, <3>1 DEF PutUnder
    <2> QED
      BY <2>3, <2>4
  <1>7. Tracked(c)'
    BY <1>3, <1>6 DEF Tracked, Unheld
  <1>8. Asking(c)'
    BY <1>3, <1>4 DEF NetInv, NetInvOf, Asking, Unaware
  <1>9. Fresh(c)'
    BY <1>3 DEF Fresh
  <1>10. Unaware(c)'
    <2>1. Mute(down'[c])
      BY <1>3 DEF Mute
    <2> QED
      BY <1>3, <1>5, <2>1 DEF NetInv, NetInvOf, Unaware
  <1>11. ASSUME NEW d \in Client, d # c
        PROVE  NetInvOf(d)'
    BY <1>3, <1>11, Untouched DEF NetInv
  <1> QED
    BY <1>7, <1>8, <1>9, <1>10, <1>11 DEF NetInv, NetInvOf

(* The connection's bookkeeping stands at every step.                      *)
LEMMA NextNetInv == TInv /\ NetInv /\ [Next]_nodeVars => NetInv'
  <1> SUFFICES ASSUME TInv, NetInv, [Next]_nodeVars
               PROVE  NetInv'
    OBVIOUS
  <1>1. CASE \/ UNCHANGED nodeVars
             \/ \E c \in Client : Deliver(c)
    <2>1. UNCHANGED <<netVars, clientVars>>
      BY <1>1 DEF nodeVars, Deliver
    <2>2. ASSUME NEW d \in Client
          PROVE  NetInvOf(d)'
      BY <2>1, Untouched DEF NetInv, netVars, clientVars
    <2> QED
      BY <2>2 DEF NetInv
  <1>2. CASE \E c \in Client :
               \/ \E v \in Value : Write(c, v) \/ WriteThenListen(c, v)
               \/ Listen(c) \/ NetStep(c)
    <2> PICK c \in Client :
          \/ \E v \in Value : Write(c, v) \/ WriteThenListen(c, v)
          \/ Listen(c) \/ NetStep(c)
      BY <1>2
    <2>1. CASE \E v \in Value : Write(c, v) \/ WriteThenListen(c, v)
      BY <2>1, WriteNetInv, WriteThenListenNetInv
    <2>2. CASE Listen(c)
      BY <2>2, ListenNetInv
    <2>3. CASE NetStep(c)
      BY <2>3, ServerPutNetInv, ServerListenNetInv, ReceiveDataNetInv,
         ReceiveAckNetInv, ReceiveListenedNetInv, OtherListenNetInv,
         OtherListenedNetInv, ReconnectNetInv DEF NetStep, ServerApply, Receive
    <2> QED
      BY <2>1, <2>2, <2>3
  <1> QED
    BY <1>1, <1>2 DEF Next
-----------------------------------------------------------------------------
(* A queue without repetitions when a value is appended or taken.          *)
LEMMA ChangingAppend ==
  ASSUME NEW S, NEW s \in Seq(S), NEW e, NEW x \in S,
         Changing(e, s), LastOf(e, s) # x
  PROVE  Changing(e, Append(s, x)) /\ LastOf(e, Append(s, x)) = x
  <1> DEFINE t == Append(s, x)
  <1>1. /\ t # <<>> /\ Len(s) \in Nat /\ Len(t) = Len(s) + 1
        /\ \A i \in 1..Len(s) : t[i] = s[i]
        /\ t[Len(s) + 1] = x
    BY AppendFacts
  <1> HIDE DEF t
  <1>2. CASE s = <<>>
    <2>1. Len(t) = 1 /\ t[1] = x
      BY <1>1, <1>2
    <2> QED
      BY <1>1, <1>2, <2>1 DEF Changing, LastOf, t
  <1>3. CASE s # <<>>
    <2>1. Len(s) \in 1..Len(s) /\ 1 \in 1..Len(s) /\ s[Len(s)] # x
      BY <1>1, <1>3 DEF LastOf
    <2>2. t[1] # e
      BY <1>1, <1>3, <2>1 DEF Changing
    <2>3. ASSUME NEW i \in 1..(Len(t) - 1)
          PROVE  t[i] # t[i + 1]
      <3>1. CASE i = Len(s)
        BY <1>1, <2>1, <3>1
      <3>2. CASE i # Len(s)
        <4>1. i \in 1..(Len(s) - 1) /\ i \in 1..Len(s) /\ i + 1 \in 1..Len(s)
          BY <1>1, <3>2
        <4> QED
          BY <1>1, <4>1 DEF Changing
      <3> QED
        BY <3>1, <3>2
    <2> QED
      BY <1>1, <2>2, <2>3 DEF Changing, LastOf, t
  <1> QED
    BY <1>2, <1>3

LEMMA ChangingTail ==
  ASSUME NEW S, NEW s \in Seq(S), s # <<>>, NEW e, Changing(e, s)
  PROVE  /\ Changing(Head(s), Tail(s))
         /\ LastOf(Head(s), Tail(s)) = LastOf(e, s)
  <1> DEFINE t == Tail(s)
  <1>1. /\ Head(s) = s[1] /\ t \in Seq(S) /\ Len(s) \in Nat \ {0}
        /\ Len(t) = Len(s) - 1
        /\ \A i \in 1..(Len(s) - 1) : t[i] = s[i + 1]
    BY TailFacts
  <1>2. t # <<>> => Len(t) # 0
    BY <1>1
  <1>3. Len(<<>>) = 0
    OBVIOUS
  <1> HIDE DEF t
  <1>4. CASE t = <<>>
    <2>1. Len(t) = 0
      BY <1>3, <1>4
    <2>2. Len(s) = 1
      BY <1>1, <2>1
    <2>3. LastOf(Head(s), t) = LastOf(e, s)
      BY <1>1, <1>4, <2>2 DEF LastOf
    <2>4. 1..(Len(t) - 1) = {}
      BY <2>1
    <2>5. Changing(Head(s), t)
      BY <1>4, <2>4 DEF Changing
    <2> QED
      BY <2>3, <2>5 DEF t
  <1>5. CASE t # <<>>
    <2>1. 1 \in 1..(Len(s) - 1) /\ Len(t) \in 1..(Len(s) - 1)
      BY <1>1, <1>2, <1>5
    <2>2. t[1] # s[1]
      BY <1>1, <2>1 DEF Changing
    <2>3. ASSUME NEW i \in 1..(Len(t) - 1)
          PROVE  t[i] # t[i + 1]
      <3>1. /\ i \in 1..(Len(s) - 1) /\ i + 1 \in 1..(Len(s) - 1)
        BY <1>1
      <3> QED
        BY <1>1, <3>1 DEF Changing
    <2>4. t[Len(t)] = s[Len(s)]
      BY <1>1, <2>1
    <2> QED
      BY <1>1, <1>5, <2>2, <2>3, <2>4 DEF Changing, LastOf, t
  <1> QED
    BY <1>4, <1>5

(* What a client's observer is told depends on these only.                 *)
LEMMA Unmoved ==
  ASSUME NEW d \in Client, EventInvOf(d),
         listens'[d] = listens[d], events'[d] = events[d], seen'[d] = seen[d],
         listens[d] => View(d)' = View(d)
  PROVE  EventInvOf(d)'
  BY DEF EventInvOf

(* A listening client's view becomes v, and its observer is called if that *)
(* is a change.                                                            *)
LEMMA Raised ==
  ASSUME TInv, EventInv, NEW c \in Client, listens[c],
         NEW v \in Value \cup {Null}, v = Null => View(c) = Null,
         Raise(c, v), View(c)' = v, UNCHANGED <<listens, seen>>
  PROVE  /\ EventInvOf(c)'
         /\ \A d \in Client : d # c => events'[d] = events[d]
  <1>1. Changing(seen[c], events[c]) /\ LastOf(seen[c], events[c]) = View(c)
    BY DEF EventInv, EventInvOf
  <1>2. CASE v \in {Null, View(c)}
    BY <1>1, <1>2 DEF EventInv, EventInvOf, Raise
  <1>3. CASE v \notin {Null, View(c)}
    <2>1. /\ events'[c] = Append(events[c], v)
          /\ \A d \in Client : d # c => events'[d] = events[d]
      BY <1>3 DEF Raise, TInv, TypeOK
    <2>2. events[c] \in Seq(Value) /\ v \in Value
      BY <1>3 DEF TInv, TypeOK
    <2>3. /\ Changing(seen[c], Append(events[c], v))
          /\ LastOf(seen[c], Append(events[c], v)) = v
      BY <1>1, <1>3, <2>2, ChangingAppend
    <2> QED
      BY <2>1, <2>3 DEF EventInvOf
  <1> QED
    BY <1>2, <1>3

LEMMA InitEventInv == NodeInit => EventInv
  BY DEF NodeInit, EventInv, EventInvOf, Changing

(* The view of the writer is its new value.                                *)
LEMMA RecordView ==
  ASSUME TInv, NEW c \in Client, NEW v \in Value, Record(c, v)
  PROVE  /\ View(c)' = v
         /\ \A d \in Client : d # c => /\ pend'[d] = pend[d]
                                       /\ latest'[d] = latest[d]
  BY DEF Record, View, Shown, TInv, TypeOK

LEMMA WriteEventInv ==
  ASSUME TInv, EventInv, NEW c \in Client, NEW v \in Value, Write(c, v)
  PROVE  EventInv'
  <1>1. Record(c, v) /\ UNCHANGED <<listens, cache, seen>>
    BY DEF Write
  <1>2. /\ View(c)' = v
        /\ \A d \in Client : d # c => View(d)' = View(d)
    BY <1>1, RecordView DEF View
  <1>3. CASE listens[c]
    <2>1. v # Null /\ Raise(c, v)
      BY <1>3, NullAssumption DEF Write
    <2>2. /\ EventInvOf(c)'
          /\ \A d \in Client : d # c => events'[d] = events[d]
      BY <1>1, <1>2, <1>3, <2>1, Raised
    <2> QED
      BY <1>1, <1>2, <2>2, Unmoved DEF EventInv
  <1>4. CASE ~listens[c]
    <2>1. UNCHANGED events
      BY <1>4 DEF Write
    <2> QED
      BY <1>1, <1>2, <1>4, <2>1, Unmoved DEF EventInv
  <1> QED
    BY <1>3, <1>4

LEMMA ListenEventInv ==
  ASSUME TInv, NetInv, EventInv, NEW c \in Client, Listen(c)
  PROVE  EventInv'
  <1>1. /\ ~listens[c] /\ listens'[c] /\ UNCHANGED <<pend, latest, cache, seen>>
        /\ \A d \in Client : d # c => /\ listens'[d] = listens[d]
                                      /\ events'[d] = events[d]
    BY DEF Listen, TInv, TypeOK
  <1>2. events[c] = <<>> /\ seen[c] = Null /\ cache[c] = Null
    BY <1>1 DEF EventInv, EventInvOf, NetInv, NetInvOf, Unaware
  <1>3. \A d \in Client : View(d)' = View(d)
    BY <1>1 DEF View
  <1>4. CASE pend[c] = {}
    <2>1. events'[c] = <<>> /\ View(c) = Null
      BY <1>2, <1>4 DEF Listen, View, Shown
    <2> QED
      BY <1>1, <1>2, <1>3, <2>1, Unmoved
         DEF EventInv, EventInvOf, Changing, LastOf
  <1>5. CASE pend[c] # {}
    <2>1. latest[c] \in Value /\ latest[c] # Null /\ View(c) = latest[c]
      BY <1>5, NullAssumption DEF TInv, PendOK, View, Shown
    <2>2. events'[c] = Append(events[c], latest[c])
      BY <1>5 DEF Listen, TInv, TypeOK
    <2>3. /\ events[c] \in Seq(Value)
          /\ Changing(seen[c], events[c])
          /\ LastOf(seen[c], events[c]) # latest[c]
      BY <1>1, <1>2, <2>1 DEF TInv, TypeOK, EventInv, EventInvOf, LastOf
    <2>4. /\ Changing(seen[c], Append(events[c], latest[c]))
          /\ LastOf(seen[c], Append(events[c], latest[c])) = latest[c]
      BY <2>1, <2>3, ChangingAppend
    <2>5. EventInvOf(c)'
      BY <1>1, <1>3, <2>1, <2>2, <2>4 DEF EventInvOf
    <2> QED
      BY <1>1, <1>3, <2>5, Unmoved DEF EventInv
  <1> QED
    BY <1>4, <1>5

LEMMA WriteThenListenEventInv ==
  ASSUME TInv, EventInv, NEW c \in Client, NEW v \in Value,
         WriteThenListen(c, v)
  PROVE  EventInv'
  <1>1. /\ ~listens[c] /\ listens'[c] /\ UNCHANGED <<cache, seen>>
        /\ events'[c] = Append(events[c], v)
        /\ \A d \in Client : d # c => /\ listens'[d] = listens[d]
                                      /\ events'[d] = events[d]
    BY DEF WriteThenListen, TInv, TypeOK
  <1>2. /\ View(c)' = v
        /\ \A d \in Client : d # c => View(d)' = View(d)
    BY <1>1, RecordView DEF WriteThenListen, View
  <1>3. events[c] = <<>> /\ seen[c] = Null /\ v # Null
    BY <1>1, NullAssumption DEF EventInv, EventInvOf
  <1>4. /\ events[c] \in Seq(Value)
        /\ Changing(seen[c], events[c]) /\ LastOf(seen[c], events[c]) # v
    BY <1>3 DEF TInv, TypeOK, EventInv, EventInvOf, LastOf
  <1>5. /\ Changing(seen[c], Append(events[c], v))
        /\ LastOf(seen[c], Append(events[c], v)) = v
    BY <1>4, ChangingAppend
  <1>6. EventInvOf(c)'
    BY <1>1, <1>2, <1>5 DEF EventInvOf
  <1> QED
    BY <1>1, <1>2, <1>6, Unmoved DEF EventInv

LEMMA ReceiveDataEventInv ==
  ASSUME TInv, NetInv, EventInv, NEW c \in Client, ReceiveData(c)
  PROVE  EventInv'
  <1> DEFINE v == Head(down[c]).val
             u == Shown(pend[c], latest[c], v)
  <1>1. /\ down[c] # <<>> /\ Head(down[c]).op = "data"
        /\ v \in Value /\ v # Null
    BY HeadType, NullAssumption DEF ReceiveData
  <1>2. /\ cache'[c] = v /\ UNCHANGED <<listens, pend, latest, seen>>
        /\ Raise(c, u)
        /\ \A d \in Client : d # c => cache'[d] = cache[d]
    BY DEF ReceiveData, TInv, TypeOK
  <1>3. listens[c]
    BY <1>1, TakeFacts
  <1>4. u \in Value /\ u # Null
    BY <1>1, NullAssumption DEF TInv, TypeOK, PendOK, Shown
  <1> HIDE DEF v
  <1>5. /\ View(c)' = u
        /\ \A d \in Client : d # c => View(d)' = View(d)
    BY <1>2 DEF View
  <1> HIDE DEF u
  <1>6. /\ EventInvOf(c)'
        /\ \A d \in Client : d # c => events'[d] = events[d]
    BY <1>2, <1>3, <1>4, <1>5, Raised
  <1> QED
    BY <1>2, <1>5, <1>6, Unmoved DEF EventInv

LEMMA ReceiveAckEventInv ==
  ASSUME TInv, NetInv, EventInv, NEW c \in Client, ReceiveAck(c)
  PROVE  EventInv'
  <1> DEFINE m == Head(down[c])
             k == IF m.val = Null THEN cache[c] ELSE m.val
             p == IF Hold(c) THEN pend[c] ELSE {w \in pend[c] : w.id # m.id}
             u == Shown(p, latest[c], k)
  <1>1. down[c] # <<>> /\ m.op = "ack" /\ m.val \in Value \cup {Null}
    BY HeadType DEF ReceiveAck
  <1>2. /\ cache'[c] = k /\ pend'[c] = p /\ UNCHANGED <<listens, latest, seen>>
        /\ listens[c] => Raise(c, u)
        /\ ~listens[c] => UNCHANGED events
        /\ \A d \in Client : d # c => cache'[d] = cache[d] /\ pend'[d] = pend[d]
    BY DEF ReceiveAck, TInv, TypeOK
  <1>3. k \in Value \cup {Null} /\ (k = Null => cache[c] = Null)
    BY <1>1 DEF TInv, TypeOK
  <1>4. /\ u \in Value \cup {Null}
        /\ listens[c] /\ u = Null => View(c) = Null
    <2>1. p \subseteq pend[c] /\ (Hold(c) => p = pend[c])
      OBVIOUS
    <2>2. listens[c] /\ cache[c] = Null => Hold(c)
      BY DEF NetInv, NetInvOf, Asking, Hold
    <2> HIDE DEF k, p
    <2> QED
      BY <1>3, <2>1, <2>2, NullAssumption DEF TInv, TypeOK, PendOK, Shown, View
  <1> HIDE DEF k, p
  <1>5. /\ View(c)' = u
        /\ \A d \in Client : d # c => View(d)' = View(d)
    BY <1>2 DEF View
  <1> HIDE DEF u
  <1>6. CASE listens[c]
    <2>1. /\ EventInvOf(c)'
          /\ \A d \in Client : d # c => events'[d] = events[d]
      BY <1>2, <1>4, <1>5, <1>6, Raised
    <2> QED
      BY <1>2, <1>5, <2>1, Unmoved DEF EventInv
  <1>7. CASE ~listens[c]
    BY <1>2, <1>5, <1>7, Unmoved DEF EventInv
  <1> QED
    BY <1>6, <1>7

LEMMA ReceiveListenedEventInv ==
  ASSUME TInv, NetInv, EventInv, NEW c \in Client, ReceiveListened(c)
  PROVE  EventInv'
  <1> DEFINE v == Head(down[c]).val
             p == IF busy[c] THEN pend[c] ELSE Unheld(c)
             u == Shown(p, latest[c], v)
  <1>1. /\ down[c] # <<>> /\ Head(down[c]).op = "listened"
        /\ v \in Value /\ v # Null
    BY HeadType, NullAssumption DEF ReceiveListened
  <1>2. /\ cache'[c] = v /\ pend'[c] = p /\ UNCHANGED <<listens, latest, seen>>
        /\ Raise(c, u)
        /\ \A d \in Client : d # c => cache'[d] = cache[d] /\ pend'[d] = pend[d]
    BY DEF ReceiveListened, TInv, TypeOK
  <1>3. listens[c]
    BY <1>1, TakeFacts
  <1>4. u \in Value /\ u # Null
    <2>1. p \subseteq pend[c]
      BY DEF Unheld
    <2> HIDE DEF v, p
    <2> QED
      BY <1>1, <2>1, NullAssumption DEF TInv, TypeOK, PendOK, Shown
  <1> HIDE DEF v, p
  <1>5. /\ View(c)' = u
        /\ \A d \in Client : d # c => View(d)' = View(d)
    BY <1>2 DEF View
  <1> HIDE DEF u
  <1>6. /\ EventInvOf(c)'
        /\ \A d \in Client : d # c => events'[d] = events[d]
    BY <1>2, <1>3, <1>4, <1>5, Raised
  <1> QED
    BY <1>2, <1>5, <1>6, Unmoved DEF EventInv

LEMMA OtherListenedEventInv ==
  ASSUME TInv, NetInv, EventInv, NEW c \in Client, OtherListened(c)
  PROVE  EventInv'
  <1> DEFINE p == IF asked[c] THEN pend[c] ELSE Unheld(c)
             u == Shown(p, latest[c], cache[c])
  <1>1. /\ pend'[c] = p /\ UNCHANGED <<listens, latest, cache, seen>>
        /\ listens[c] => Raise(c, u)
        /\ ~listens[c] => UNCHANGED events
        /\ \A d \in Client : d # c => pend'[d] = pend[d]
    BY DEF OtherListened, TInv, TypeOK
  <1>2. /\ u \in Value \cup {Null}
        /\ listens[c] /\ u = Null => View(c) = Null
    <2>1. p \subseteq pend[c] /\ (asked[c] => p = pend[c])
      BY DEF Unheld
    <2>2. listens[c] /\ cache[c] = Null => asked[c]
      BY DEF NetInv, NetInvOf, Asking
    <2> HIDE DEF p
    <2> QED
      BY <2>1, <2>2, NullAssumption DEF TInv, TypeOK, PendOK, Shown, View
  <1> HIDE DEF p
  <1>3. /\ View(c)' = u
        /\ \A d \in Client : d # c => View(d)' = View(d)
    BY <1>1 DEF View
  <1> HIDE DEF u
  <1>4. CASE listens[c]
    <2>1. /\ EventInvOf(c)'
          /\ \A d \in Client : d # c => events'[d] = events[d]
      BY <1>1, <1>2, <1>3, <1>4, Raised
    <2> QED
      BY <1>1, <1>3, <2>1, Unmoved DEF EventInv
  <1>5. CASE ~listens[c]
    BY <1>1, <1>3, <1>5, Unmoved DEF EventInv
  <1> QED
    BY <1>4, <1>5

LEMMA DeliverEventInv ==
  ASSUME TInv, EventInv, NEW c \in Client, Deliver(c)
  PROVE  EventInv'
  <1>1. /\ events[c] # <<>> /\ UNCHANGED <<listens, pend, latest, cache>>
        /\ seen'[c] = Head(events[c]) /\ events'[c] = Tail(events[c])
        /\ \A d \in Client : d # c => seen'[d] = seen[d] /\ events'[d] = events[d]
    BY DEF Deliver, clientVars, TInv, TypeOK
  <1>2. /\ events[c] \in Seq(Value) /\ Changing(seen[c], events[c])
        /\ listens[c] /\ LastOf(seen[c], events[c]) = View(c)
    BY <1>1 DEF TInv, TypeOK, EventInv, EventInvOf
  <1>3. \A d \in Client : View(d)' = View(d)
    BY <1>1 DEF View
  <1>4. /\ Changing(Head(events[c]), Tail(events[c]))
        /\ LastOf(Head(events[c]), Tail(events[c])) = View(c)
    BY <1>1, <1>2, ChangingTail
  <1>5. EventInvOf(c)'
    BY <1>1, <1>2, <1>3, <1>4 DEF EventInvOf
  <1> QED
    BY <1>1, <1>3, <1>5, Unmoved DEF EventInv

(* Every observer keeps up with its client's view.                         *)
LEMMA NextEventInv ==
  TInv /\ NetInv /\ EventInv /\ [Next]_nodeVars => EventInv'
  <1> SUFFICES ASSUME TInv, NetInv, EventInv, [Next]_nodeVars
               PROVE  EventInv'
    OBVIOUS
  <1>1. CASE \/ UNCHANGED nodeVars
             \/ \E c \in Client : \/ ServerApply(c) \/ OtherListen(c)
                                  \/ Reconnect(c)
    <2>1. UNCHANGED <<listens, pend, latest, cache, events, seen>>
      BY <1>1 DEF nodeVars, clientVars, ServerApply, ServerPut, ServerListen,
                  OtherListen, Reconnect
    <2>2. \A d \in Client : View(d)' = View(d)
      BY <2>1 DEF View
    <2> QED
      BY <2>1, <2>2, Unmoved DEF EventInv
  <1>2. CASE \E c \in Client :
               \/ \E v \in Value : Write(c, v) \/ WriteThenListen(c, v)
               \/ Listen(c) \/ Receive(c) \/ OtherListened(c) \/ Deliver(c)
    BY <1>2, WriteEventInv, WriteThenListenEventInv, ListenEventInv,
       ReceiveDataEventInv, ReceiveAckEventInv, ReceiveListenedEventInv,
       OtherListenedEventInv, DeliverEventInv DEF Receive
  <1> QED
    BY <1>1, <1>2 DEF Next, NetStep
-----------------------------------------------------------------------------
LEMMA Delivery == Spec => [](TInv /\ NetInv /\ EventInv)
  BY InitTInv, InitNetInv, InitEventInv, NextTInv, NextNetInv, NextEventInv,
     PTL DEF Spec

(* No observer is ever called twice in a row with the same value           *)
(* (FViewProcessor.maybeAddValue): the board's observer hands the turn     *)
(* over once for each change of the board, whatever the network does.      *)
THEOREM ObserversSeeChanges == Spec => []EventsChange
  <1>1. EventInv => EventsChange
    BY DEF EventInv, EventInvOf, EventsChange
  <1> QED
    BY <1>1, Delivery, PTL

(* When nothing of a listening client is under way any more, its observer  *)
(* was last called with the stored value: no answer, held answer, push or  *)
(* reconnection leaves it behind (FPersistentConnection, FSyncTree).       *)
THEOREM ObserversConverge == Spec => []Converges
  <1>1. TInv /\ NetInv /\ EventInv => Converges
    <2> SUFFICES ASSUME TInv, NetInv, EventInv,
                        NEW c \in Client, listens[c], Quiet(c)
                 PROVE  seen[c] = server
      BY DEF Converges
    <2>1. up[c] = <<>> /\ down[c] = <<>> /\ events[c] = <<>> /\ ~busy[c]
      BY DEF Quiet
    <2>2. /\ ~AskUnder(up[c]) /\ ~AnswerUnder(down[c])
          /\ \A id : ~PutUnder(up[c], id) /\ ~AckUnder(down[c], id)
      BY <2>1 DEF AskUnder, AnswerUnder, PutUnder, AckUnder
    <2>3. ~asked[c] /\ held[c] = {} /\ c \in watching
      BY <2>1, <2>2 DEF NetInv, NetInvOf, Asking
    <2>4. pend[c] = {}
      BY <2>2, <2>3 DEF NetInv, NetInvOf, Tracked
    <2>5. cache[c] = server
      BY <2>1, <2>3 DEF NetInv, NetInvOf, Fresh, Bound
    <2>6. seen[c] = View(c)
      BY <2>1 DEF EventInv, EventInvOf, LastOf
    <2> QED
      BY <2>4, <2>5, <2>6 DEF View, Shown
  <1> QED
    BY <1>1, Delivery, PTL
=============================================================================
