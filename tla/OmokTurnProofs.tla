--------------------------- MODULE OmokTurnProofs ---------------------------
(* The turn of two patient players.  Each app toggles a turn of its own at *)
(* every event, and the events come from the shared board: that the two    *)
(* turns exclude each other rests on what each client is still to be shown *)
(* (Coming), and on who may write before the other one has seen it.        *)
EXTENDS OmokGameProofs, FirebaseNodeOrder

(* The client's globals, once the queued events have been worked off, give *)
(* it the turn.                                                            *)
Even(s) == Len(s) % 2 = 0
Turn(c) == listens[c] /\ (amIChallenger[c] <=> Even(events[c]))

(* The client is to be shown another board, even if nobody writes again.   *)
Upcoming(c) == listens[c] /\ \E v : Coming(c, v, v, v) /\ v # View(c)

(* A player without a result may still tap; one with a result, or back in  *)
(* the lobby, never will.                                                  *)
InPlay(c) == screen[c] # "back" /\ result[c] = "none"

(* Nobody has laid a stone yet.                                            *)
Bare(c) ==
  /\ \A i \in 1..Len(up[c]) : up[c][i].op = "put" => up[c][i].val = Blank
  /\ \A i \in 1..Len(down[c]) : down[c][i].val \in {Null, Blank}
  /\ \A w \in pend[c] : w.val = Blank
  /\ latest[c] \in {Null, Blank} /\ cache[c] \in {Null, Blank}
AllBlank == server = Blank /\ \A c \in Client : Bare(c)

(* The globals of the turn agree, and say before the match whose it is.    *)
Sighted(c) ==
  /\ listens[c] => View(c) \in Value
  /\ seen[c] # Null => (MyTurn(c) <=> amIChallenger[c])
  /\ screen[c] = "lobby" => (amIChallenger[c] <=> c = Challenger)

MatchInv ==
  /\ GameInv /\ FlowInv /\ AbreastInv /\ KnownStonesKept
  /\ \A c \in Client : Sighted(c)
-----------------------------------------------------------------------------
LEMMA EvenAppend ==
  ASSUME NEW S, NEW s \in Seq(S), NEW v \in S
  PROVE  Even(Append(s, v)) <=> ~Even(s)
  <1>1. Len(s) \in Nat /\ Len(Append(s, v)) = Len(s) + 1
    OBVIOUS
  <1> DEFINE n == Len(s)
  <1> HIDE DEF n
  <1>2. n \in Nat => ((n + 1) % 2 = 0 <=> n % 2 # 0)
    OBVIOUS
  <1> QED
    BY <1>1, <1>2 DEF Even, n

LEMMA EvenTail ==
  ASSUME NEW S, NEW s \in Seq(S), s # <<>>
  PROVE  Even(Tail(s)) <=> ~Even(s)
  <1>1. Len(s) \in Nat \ {0} /\ Len(Tail(s)) = Len(s) - 1
    BY TailFacts
  <1> DEFINE n == Len(s)
  <1> HIDE DEF n
  <1>2. n \in Nat \ {0} => ((n - 1) % 2 = 0 <=> n % 2 # 0)
    OBVIOUS
  <1> QED
    BY <1>1, <1>2 DEF Even, n

LEMMA EvenEmpty == Even(<<>>) /\ \A v : ~Even(<<v>>)
  BY DEF Even

(* What a step of another player leaves of a player.                       *)
Aside(d) ==
  /\ listens'[d] = listens[d] /\ pend'[d] = pend[d] /\ latest'[d] = latest[d]
  /\ cache'[d] = cache[d] /\ up'[d] = up[d] /\ events'[d] = events[d]
  /\ seen'[d] = seen[d] /\ screen'[d] = screen[d] /\ result'[d] = result[d]
  /\ amIChallenger'[d] = amIChallenger[d]
  /\ timeOverLoser'[d] = timeOverLoser[d]

LEMMA AsideKeeps ==
  ASSUME NEW d \in Client, Aside(d)
  PROVE  /\ View(d)' = View(d)
         /\ Turn(d)' <=> Turn(d)
         /\ InPlay(d)' <=> InPlay(d)
         /\ Sighted(d)' <=> Sighted(d)
  BY DEF Aside, View, Turn, InPlay, Sighted, MyTurn

(* The steps that concern neither the turns nor the network.               *)
Apart(c) == Tick(c) \/ ScoreReply(c) \/ ScoreCallback(c)

LEMMA ApartAside ==
  ASSUME UNCHANGED vars \/ \E c \in Client : Apart(c)
  PROVE  UNCHANGED nodeVars /\ \A d \in Client : Aside(d)
  <1>1. UNCHANGED <<nodeVars, screen, turnVars, result>>
    BY DEF vars, gameVars, Apart, Tick, ScoreReply, ScoreCallback
  <1> QED
    BY <1>1 DEF nodeVars, netVars, clientVars, turnVars, Aside

LEMMA WriteAside ==
  ASSUME FlowInv, NEW c \in Client, NEW x \in Value,
         Write(c, x) \/ WriteThenListen(c, x)
  PROVE  /\ UNCHANGED <<server, down, cache, seen>>
         /\ pend'[c] # {} /\ latest'[c] = x /\ View(c)' = x
         /\ pend'[c] = pend[c] \cup {[id |-> nextId[c], val |-> x]}
         /\ \A d \in Client \ {c} :
              /\ listens'[d] = listens[d] /\ pend'[d] = pend[d]
              /\ latest'[d] = latest[d] /\ up'[d] = up[d]
              /\ events'[d] = events[d]
  <1>1. /\ UNCHANGED <<server, down, cache, seen>>
        /\ pend'[c] = pend[c] \cup {[id |-> nextId[c], val |-> x]}
        /\ latest'[c] = x
        /\ \A d \in Client \ {c} :
             /\ listens'[d] = listens[d] /\ pend'[d] = pend[d]
             /\ latest'[d] = latest[d] /\ up'[d] = up[d]
             /\ events'[d] = events[d]
    BY DEF Write, WriteThenListen, Record, Raise, FlowInv, OrderedInv, TInv, TypeOK
  <1> QED
    BY <1>1 DEF View, Shown

(* A network step leaves the other clients alone, but for what is on its   *)
(* way to them.                                                            *)
LEMMA NetAside ==
  ASSUME MatchInv, NEW c \in Client, Network(c)
  PROVE  /\ \A d \in Client \ {c} : Aside(d)
         /\ UNCHANGED <<listens, latest, seen, screen, result, turnVars>>
         /\ pend'[c] \subseteq pend[c]
  <1>1. /\ UNCHANGED <<screen, result, turnVars>> /\ NetStep(c)
    BY DEF Network, gameVars
  <1>2. /\ UNCHANGED <<listens, latest, seen>>
        /\ \A d \in Client \ {c} :
             /\ pend'[d] = pend[d] /\ cache'[d] = cache[d]
             /\ up'[d] = up[d] /\ events'[d] = events[d]
        /\ pend'[c] \subseteq pend[c]
    <2> USE DEF MatchInv, FlowInv, OrderedInv, TInv, TypeOK
    <2>1. CASE ServerApply(c)
      BY <2>1 DEF ServerApply, ServerPut, ServerListen, clientVars
    <2>2. CASE ReceiveData(c)
      BY <2>2 DEF ReceiveData, Raise
    <2>3. CASE ReceiveAck(c)
      BY <2>3 DEF ReceiveAck, Raise
    <2>4. CASE ReceiveListened(c)
      BY <2>4 DEF ReceiveListened, Unheld, Raise
    <2>5. CASE OtherListen(c) \/ OtherListened(c)
      BY <2>5 DEF OtherListen, OtherListened, Unheld, Raise, netVars
    <2>6. CASE Reconnect(c)
      BY <2>6 DEF Reconnect
    <2> QED
      BY <1>1, <2>1, <2>2, <2>3, <2>4, <2>5, <2>6 DEF NetStep, Receive
  <1> QED
    BY <1>1, <1>2 DEF turnVars, Aside

LEMMA ObserveAside ==
  ASSUME MatchInv, NEW c \in Client, ObserveMap(c)
  PROVE  /\ UNCHANGED <<netVars, clientVars, screen>>
         /\ \A d \in Client \ {c} : Aside(d)
         /\ screen[c] # "lobby" /\ seen'[c] # Null
         /\ View(c)' = View(c) /\ (Turn(c)' <=> Turn(c))
         /\ MyTurn(c)' <=> amIChallenger'[c]
         /\ InPlay(c)' => InPlay(c)
  <1>1. PICK b \in Boards :
          /\ events[c] # <<>>
          /\ seen' = [seen EXCEPT ![c] = b]
          /\ events' = [events EXCEPT ![c] = Tail(@)]
          /\ ShowResult(c, b)
          /\ UNCHANGED <<netVars, clientVars, screen>>
    BY Observed DEF MatchInv, GameInv
  <1> USE DEF MatchInv, GameInv, GameTypeOK, TypeOK, TurnOK, ScoreOK
  <1>2. PassTurn(c)
    BY DEF ObserveMap
  <1>3. listens[c] /\ screen[c] # "lobby"
    BY <1>1 DEF EventInv, EventInvOf, AbreastInv, Abreast
  <1>4. seen'[c] # Null
    BY <1>1, BoardValues, NullAssumption
  <1>5. result'[c] = "none" => result[c] = "none"
    BY <1>1 DEF ShowResult, Outcome
  <1>6. /\ amIChallenger'[c] = ~amIChallenger[c]
        /\ timeOverLoser'[c] = IF amIChallenger[c] THEN "vs" ELSE "me"
    BY <1>2 DEF PassTurn
  <1>7. MyTurn(c)' <=> amIChallenger'[c]
    BY <1>6 DEF MyTurn
  <1>8. events[c] \in Seq(Value) /\ events'[c] = Tail(events[c])
    BY <1>1
  <1>9. Even(events'[c]) <=> ~Even(events[c])
    BY <1>1, <1>8, EvenTail
  <1>10. Turn(c)' <=> Turn(c)
    <2>1. listens'[c] = listens[c]
      BY <1>1 DEF clientVars
    <2> QED
      BY <1>6, <1>9, <2>1, Zenon DEF Turn, Even
  <1>11. ASSUME NEW d \in Client \ {c}
         PROVE  Aside(d)
    <2>1. /\ seen'[d] = seen[d] /\ events'[d] = events[d]
          /\ result'[d] = result[d]
      BY <1>1 DEF ShowResult
    <2>2. /\ amIChallenger'[d] = amIChallenger[d]
          /\ timeOverLoser'[d] = timeOverLoser[d]
      BY <1>2 DEF PassTurn
    <2> QED
      BY <1>1, <2>1, <2>2 DEF netVars, clientVars, Aside
  <1>12. View(c)' = View(c)
    BY <1>1 DEF clientVars, View
  <1>13. InPlay(c)' => InPlay(c)
    BY <1>1, <1>5 DEF InPlay
  <1> QED
    BY <1>1, <1>3, <1>4, <1>7, <1>10, <1>11, <1>12, <1>13

(* A patient player taps when it has the turn, and what it writes is not   *)
(* what it shows: the stone goes to a cell it knows to be empty.           *)
LEMMA TapLays ==
  ASSUME MatchInv, Patient = Client, NEW c \in Client, NEW p \in Cells, Tap(c, p)
  PROVE  /\ Turn(c) /\ InPlay(c) /\ screen[c] = "game"
         /\ View(c) \in Boards /\ View(c)[p] = 0
         /\ firebaseData'[c] = [View(c) EXCEPT ![p] = ColourOf(c)]
         /\ firebaseData'[c] \in Value /\ firebaseData'[c] # View(c)
         /\ events[c] = <<>>
  <1> USE DEF MatchInv
  <1>1. /\ screen[c] = "game" /\ seen[c] # Null /\ result[c] = "none"
        /\ p \in enabled[c] /\ MyTurn(c) /\ events[c] = <<>>
    BY DEF Tap, MayTap
  <1>2. listens[c] /\ View(c) = seen[c]
    BY <1>1 DEF GameInv, EventInv, EventInvOf, LastOf
  <1>3. binaryMap[c] = seen[c] /\ firebaseData[c] = seen[c]
    BY <1>1, <1>2 DEF AbreastInv, Abreast
  <1>4. firebaseData[c] \in Boards /\ binaryMap[c] \in Boards
    BY DEF GameInv, GameTypeOK, BoardOK
  <1>5. binaryMap[c][p] = 0
    BY <1>1 DEF KnownStonesKept
  <1>6. /\ firebaseData'[c] = [firebaseData[c] EXCEPT ![p] = ColourOf(c)]
        /\ firebaseData'[c] \in Value
    BY LaidBoard DEF GameInv
  <1>7. ColourOf(c) # 0
    BY DEF ColourOf
  <1>8. firebaseData'[c][p] # View(c)[p]
    BY <1>2, <1>3, <1>4, <1>5, <1>6, <1>7 DEF Boards
  <1>9. Turn(c)
    BY <1>1, <1>2, EvenEmpty DEF Turn, Sighted
  <1> QED
    BY <1>1, <1>2, <1>3, <1>4, <1>5, <1>6, <1>8, <1>9 DEF InPlay

LEMMA TapAside ==
  ASSUME MatchInv, Patient = Client, NEW c \in Client, NEW p \in Cells, Tap(c, p)
  PROVE  /\ Write(c, firebaseData'[c])
         /\ \A d \in Client \ {c} : Aside(d)
         /\ UNCHANGED <<server, down, cache, seen, screen, result, turnVars>>
         /\ View(c)' = firebaseData'[c] /\ ~Turn(c)'
  <1>1. /\ Write(c, firebaseData'[c])
        /\ UNCHANGED <<screen, result, turnVars>>
    BY DEF Tap
  <1>2. /\ firebaseData'[c] \in Value /\ firebaseData'[c] # View(c)
        /\ Turn(c) /\ events[c] = <<>>
    BY TapLays
  <1> DEFINE x == firebaseData'[c]
  <1>3. events'[c] = <<x>>
    <2>1. x # Null /\ listens[c]
      BY <1>2, NullAssumption DEF Turn
    <2>2. events' = [events EXCEPT ![c] = Append(@, x)]
      BY <1>1, <1>2, <2>1 DEF Write, Raise
    <2>3. events'[c] = Append(<<>>, x)
      BY <1>2, <2>2 DEF MatchInv, GameInv, TInv, TypeOK
    <2> QED
      BY <2>3
  <1>4. ~Even(events'[c]) /\ Even(events[c])
    BY <1>2, <1>3, EvenEmpty
  <1>5. amIChallenger'[c] = amIChallenger[c] /\ amIChallenger[c]
    BY <1>1, <1>2, <1>4 DEF turnVars, Turn
  <1>6. ~Turn(c)'
    BY <1>4, <1>5 DEF Turn, Even
  <1> HIDE DEF x
  <1>7. /\ UNCHANGED <<server, down, cache, seen>>
        /\ View(c)' = x
        /\ \A d \in Client \ {c} :
             /\ listens'[d] = listens[d] /\ pend'[d] = pend[d]
             /\ latest'[d] = latest[d] /\ up'[d] = up[d]
             /\ events'[d] = events[d]
    BY <1>1, <1>2, WriteAside DEF MatchInv, x
  <1> QED
    BY <1>1, <1>6, <1>7 DEF turnVars, Aside, x

(* Entering gives the turn to the challenged player: the event of its own  *)
(* blank board comes first.                                                *)
LEMMA EnterAside ==
  ASSUME MatchInv, NEW c \in Client, Enter(c)
  PROVE  /\ WriteThenListen(c, Blank) /\ ~listens[c] /\ screen[c] = "lobby"
         /\ screen'[c] = "game" /\ listens'[c] /\ result'[c] = result[c]
         /\ \A d \in Client \ {c} : Aside(d)
         /\ UNCHANGED <<server, down, cache, seen, result, turnVars>>
         /\ View(c)' = Blank /\ (Turn(c)' <=> c # Challenger)
  <1>1. /\ WriteThenListen(c, Blank) /\ screen[c] = "lobby"
        /\ screen' = [screen EXCEPT ![c] = "game"]
        /\ UNCHANGED <<result, turnVars>>
    BY DEF Enter
  <1>2. /\ ~listens[c] /\ listens'[c]
        /\ events' = [events EXCEPT ![c] = Append(@, Blank)]
    BY <1>1 DEF WriteThenListen, MatchInv, GameInv, TInv, TypeOK
  <1>3. events[c] = <<>>
    BY <1>2 DEF MatchInv, GameInv, EventInv, EventInvOf
  <1>4. events'[c] = <<Blank>>
    <2>1. events'[c] = Append(<<>>, Blank)
      BY <1>2, <1>3 DEF MatchInv, GameInv, TInv, TypeOK
    <2> QED
      BY <2>1
  <1>5. ~Even(events'[c])
    BY <1>4, EvenEmpty
  <1>6. amIChallenger'[c] <=> c = Challenger
    BY <1>1 DEF MatchInv, Sighted, turnVars
  <1>7. Turn(c)' <=> c # Challenger
    BY <1>2, <1>5, <1>6 DEF Turn, Even
  <1>8. /\ UNCHANGED <<server, down, cache, seen>>
        /\ View(c)' = Blank
        /\ \A d \in Client \ {c} :
             /\ listens'[d] = listens[d] /\ pend'[d] = pend[d]
             /\ latest'[d] = latest[d] /\ up'[d] = up[d]
             /\ events'[d] = events[d]
    BY <1>1, WriteAside, BoardValues DEF MatchInv
  <1>9. screen'[c] = "game" /\ \A d \in Client \ {c} : screen'[d] = screen[d]
    BY <1>1 DEF MatchInv, GameInv, GameTypeOK, TurnOK
  <1> QED
    BY <1>1, <1>2, <1>7, <1>8, <1>9 DEF turnVars, Aside

(* The timeout and the way out end the match for the player.               *)
Ends(c) == TimeOver(c) \/ GameEnd(c)

LEMMA EndsAside ==
  ASSUME MatchInv, NEW c \in Client, Ends(c)
  PROVE  /\ Write(c, Blank) /\ screen[c] # "lobby" /\ screen'[c] # "lobby"
         /\ \A d \in Client \ {c} : Aside(d)
         /\ UNCHANGED <<server, down, cache, seen, turnVars, listens>>
         /\ View(c)' = Blank /\ ~InPlay(c)'
  <1> USE DEF MatchInv, GameInv, GameTypeOK, TurnOK, ScoreOK
  <1>1. /\ Write(c, Blank) /\ UNCHANGED turnVars
        /\ \A d \in Client \ {c} : screen'[d] = screen[d] /\ result'[d] = result[d]
    BY DEF Ends, TimeOver, GameEnd, ResetBtn
  <1>2. screen[c] # "lobby" /\ screen'[c] # "lobby"
    BY DEF Ends, TimeOver, GameEnd, AbreastInv, Abreast
  <1>3. ~InPlay(c)'
    BY DEF Ends, TimeOver, GameEnd, Outcome, InPlay
  <1>4. /\ UNCHANGED <<server, down, cache, seen>>
        /\ View(c)' = Blank
        /\ \A d \in Client \ {c} :
             /\ listens'[d] = listens[d] /\ pend'[d] = pend[d]
             /\ latest'[d] = latest[d] /\ up'[d] = up[d]
             /\ events'[d] = events[d]
    BY <1>1, WriteAside, BoardValues
  <1>5. UNCHANGED listens
    BY <1>1 DEF Write
  <1> QED
    BY <1>1, <1>2, <1>3, <1>4, <1>5 DEF turnVars, Aside

(* A network step shows the player a board that was coming to it, or       *)
(* leaves its turn alone.                                                  *)
LEMMA NetTurn ==
  ASSUME MatchInv, NEW c \in Client, Network(c), listens[c]
  PROVE  \/ View(c)' = View(c) /\ (Turn(c)' <=> Turn(c))
         \/ /\ ~ServerPut(c)
            /\ View(c)' \in Value /\ View(c)' # View(c) /\ pend'[c] = {}
            /\ Coming(c, View(c)', View(c)', View(c)')
            /\ \A v, w : Coming(c, v, v, w)' => Coming(c, View(c)', View(c)', w)
            /\ Turn(c)' <=> ~Turn(c)
  <1>1. NetStep(c) /\ UNCHANGED <<listens, latest, turnVars>>
    BY NetAside DEF Network
  <1>2. CASE View(c)' = View(c) /\ events'[c] = events[c]
    BY <1>1, <1>2 DEF Turn, Even, turnVars
  <1>3. CASE /\ View(c)' \in Value /\ View(c)' # View(c) /\ pend'[c] = {}
             /\ events'[c] = Append(events[c], View(c)')
    <2>1. /\ ~ServerPut(c) /\ Coming(c, View(c)', View(c)', View(c)')
          /\ \A v, w : Coming(c, v, v, w)' => Coming(c, View(c)', View(c)', w)
      BY <1>1, <1>3, ViewComing DEF MatchInv
    <2>2. Even(events'[c]) <=> ~Even(events[c])
      <3>1. events[c] \in Seq(Value)
        BY DEF MatchInv, GameInv, TInv, TypeOK
      <3> QED
        BY <1>3, <3>1, EvenAppend
    <2>3. Turn(c)' <=> ~Turn(c)
      BY <1>1, <2>2 DEF Turn, Even, turnVars
    <2> QED
      BY <1>3, <2>1, <2>3
  <1> QED
    BY <1>1, <1>2, <1>3, NetView DEF MatchInv
-----------------------------------------------------------------------------
LEMMA InitMatchInv == Init => MatchInv
  <1> SUFFICES ASSUME Init PROVE MatchInv
    OBVIOUS
  <1>1. GameInv /\ FlowInv
    BY InitGameInv, InitFlowInv DEF Init
  <1>2. AbreastInv
    BY DEF Init, NodeInit, AbreastInv, Abreast
  <1>3. KnownStonesKept
    BY DEF Init, KnownStonesKept, Blank
  <1>4. \A c \in Client : Sighted(c)
    BY DEF Init, NodeInit, Sighted
  <1> QED
    BY <1>1, <1>2, <1>3, <1>4 DEF MatchInv

(* Other than ApartAside: the steps of a player c.                         *)
Moves(c) ==
  \/ Enter(c) \/ \E p \in Cells : Tap(c, p)
  \/ ObserveMap(c) \/ Ends(c) \/ Network(c)

LEMMA StepCases ==
  ASSUME [GameNext]_vars
  PROVE  \/ UNCHANGED vars \/ \E c \in Client : Apart(c)
         \/ \E c \in Client : Moves(c)
  BY DEF GameNext, Apart, Moves, Ends

LEMMA NextSighted ==
  ASSUME MatchInv, [GameNext]_vars, NEW d \in Client
  PROVE  Sighted(d)'
  <1> USE DEF MatchInv
  <1>1. CASE UNCHANGED vars \/ \E c \in Client : Apart(c)
    BY <1>1, ApartAside, AsideKeeps
  <1>2. ASSUME NEW c \in Client, NEW p \in Cells, Tap(c, p)
        PROVE  Sighted(d)'
    <2>1. /\ Write(c, firebaseData'[c]) /\ firebaseData'[c] \in Value
          /\ UNCHANGED <<screen, result, turnVars>>
      BY <1>2, LaidBoard DEF Tap, GameInv
    <2>2. /\ UNCHANGED <<cache, seen, listens>> /\ View(c)' = firebaseData'[c]
          /\ d # c => /\ pend'[d] = pend[d] /\ latest'[d] = latest[d]
                      /\ events'[d] = events[d]
      BY <2>1, WriteAside DEF Write
    <2>3. View(d)' \in {firebaseData'[c], View(d)}
      BY <2>2 DEF View
    <2> QED
      BY <2>1, <2>2, <2>3 DEF Sighted, MyTurn, turnVars
  <1>3. ASSUME NEW c \in Client, Enter(c)
        PROVE  Sighted(d)'
    <2>1. d # c => Sighted(d)'
      BY <1>3, EnterAside, AsideKeeps
    <2>2. d = c => Sighted(d)'
      BY <1>3, EnterAside, BoardValues DEF Sighted, MyTurn, turnVars
    <2> QED
      BY <2>1, <2>2
  <1>4. ASSUME NEW c \in Client, Ends(c)
        PROVE  Sighted(d)'
    <2>1. d # c => Sighted(d)'
      BY <1>4, EndsAside, AsideKeeps
    <2>2. d = c => Sighted(d)'
      BY <1>4, EndsAside, BoardValues DEF Sighted, MyTurn, turnVars
    <2> QED
      BY <2>1, <2>2
  <1>5. ASSUME NEW c \in Client, ObserveMap(c)
        PROVE  Sighted(d)'
    <2>1. d # c => Sighted(d)'
      BY <1>5, ObserveAside, AsideKeeps
    <2>2. d = c => Sighted(d)'
      <3>1. /\ UNCHANGED <<clientVars, screen>> /\ screen[c] # "lobby"
            /\ View(c)' = View(c) /\ (MyTurn(c)' <=> amIChallenger'[c])
        BY <1>5, ObserveAside
      <3> QED
        BY <3>1 DEF Sighted, clientVars
    <2> QED
      BY <2>1, <2>2
  <1>6. ASSUME NEW c \in Client, Network(c)
        PROVE  Sighted(d)'
    <2>1. d # c => Sighted(d)'
      BY <1>6, NetAside, AsideKeeps
    <2>2. d = c => Sighted(d)'
      <3>1. UNCHANGED <<listens, seen, screen, turnVars>>
        BY <1>6, NetAside
      <3>2. listens[c] => View(c)' \in {View(c)} \cup Value
        BY <1>6, NetTurn
      <3> QED
        BY <3>1, <3>2 DEF Sighted, MyTurn, turnVars
    <2> QED
      BY <2>1, <2>2
  <1> QED
    BY <1>1, <1>2, <1>3, <1>4, <1>5, <1>6, StepCases DEF Moves

LEMMA NextMatchInv == MatchInv /\ [GameNext]_vars => MatchInv'
  <1> SUFFICES ASSUME MatchInv, [GameNext]_vars PROVE MatchInv'
    OBVIOUS
  <1>1. GameInv' /\ AbreastInv' /\ KnownStonesKept'
    BY NextGameInv, NextAbreastInv, NextKept DEF MatchInv, GameInv
  <1>2. FlowInv'
    BY NodeSteps, NextFlowInv DEF MatchInv, GameInv
  <1>3. \A d \in Client : Sighted(d)'
    BY NextSighted
  <1> QED
    BY <1>1, <1>2, <1>3 DEF MatchInv
-----------------------------------------------------------------------------
(* What a step brings a player that is new to it.                          *)
LEMMA StillUpcoming ==
  ASSUME NEW d \in Client, View(d)' = View(d), listens'[d] = listens[d],
         up'[d] = up[d], down'[d] = down[d], cache'[d] = cache[d],
         server' = server
  PROVE  Upcoming(d)' <=> Upcoming(d)
  <1>1. \A v, w : Coming(d, v, v, w)' <=> Coming(d, v, v, w)
    BY SameComing
  <1> QED
    BY <1>1 DEF Upcoming

LEMMA WriteUpcoming ==
  ASSUME FlowInv, NEW c \in Client, NEW x \in Value,
         Write(c, x) \/ WriteThenListen(c, x), NEW d \in Client
  PROVE  /\ d = c => ~Upcoming(d)'
         /\ d # c => (Upcoming(d)' <=> Upcoming(d))
  <1>1. \A v, w : /\ d = c => ~Coming(d, v, v, w)'
                  /\ d # c => (Coming(d, v, v, w)' <=> Coming(d, v, v, w))
    BY WriteComing
  <1>2. d # c => View(d)' = View(d) /\ listens'[d] = listens[d]
    BY WriteAside DEF View
  <1> QED
    BY <1>1, <1>2 DEF Upcoming

LEMMA NetUpcoming ==
  ASSUME MatchInv, NEW c \in Client, Network(c), NEW d \in Client
  PROVE  Upcoming(d)' => \/ Upcoming(d)
                         \/ /\ ServerPut(c) /\ d # c
                            /\ Head(up[c]).val # View(d)
  <1> SUFFICES ASSUME Upcoming(d)'
               PROVE  \/ Upcoming(d)
                      \/ /\ ServerPut(c) /\ d # c /\ Head(up[c]).val # View(d)
    OBVIOUS
  <1>1. /\ NetStep(c) /\ FlowInv /\ listens'[d] /\ listens[d]
        /\ d # c => View(d)' = View(d)
    BY NetAside, AsideKeeps DEF Network, MatchInv, Upcoming
  <1>2. PICK v : Coming(d, v, v, v)' /\ v # View(d)'
    BY DEF Upcoming
  <1>3. CASE ~ServerPut(c)
    <2>1. Coming(d, v, v, v)
      BY <1>1, <1>2, <1>3, NetComing
    <2>2. CASE View(d)' = View(d)
      BY <1>1, <1>2, <2>1, <2>2 DEF Upcoming
    <2>3. CASE View(d)' # View(d)
      BY <1>1, <2>3, NetTurn DEF Upcoming
    <2> QED
      BY <2>2, <2>3
  <1>4. CASE ServerPut(c) /\ d = c
    <2>1. v = View(c)
      BY <1>1, <1>2, <1>4, OwnPutComing
    <2>2. View(c)' = View(c)
      BY <1>4 DEF ServerPut, clientVars, View
    <2> QED
      BY <1>2, <1>4, <2>1, <2>2
  <1>5. CASE ServerPut(c) /\ d # c
    <2>1. Coming(d, v, v, v) \/ v = Head(up[c]).val
      BY <1>1, <1>2, <1>5, OtherPutComing
    <2> QED
      BY <1>1, <1>2, <1>5, <2>1 DEF Upcoming
  <1> QED
    BY <1>3, <1>4, <1>5

LEMMA OwnPutUpcoming ==
  ASSUME MatchInv, NEW c \in Client, ServerPut(c)
  PROVE  ~Upcoming(c)'
  <1>1. \A v : Coming(c, v, v, v)' => v = View(c)
    BY OwnPutComing DEF MatchInv
  <1>2. View(c)' = View(c)
    BY DEF ServerPut, clientVars, View
  <1> QED
    BY <1>1, <1>2 DEF Upcoming

(* A put at the server is the writer's own pending write.                  *)
LEMMA PutPending ==
  ASSUME FlowInv, NEW c \in Client, ServerPut(c)
  PROVE  \E w \in pend[c] : Head(up[c]).val = w.val
  <1>1. /\ up[c] \in Seq(UpMsg) /\ up[c] # <<>> /\ Head(up[c]).op = "put"
    BY DEF ServerPut, FlowInv, OrderedInv, TInv, TypeOK
  <1>2. Head(up[c]) = up[c][1] /\ 1 \in 1..Len(up[c])
    BY <1>1, TailFacts
  <1>3. Head(up[c]) \in Of(up[c], "put")
    BY <1>1, <1>2 DEF Of
  <1>4. PICK w \in Unheld(c) : Head(up[c]) = Put(w)
    BY <1>3 DEF FlowInv, OrderedInv, OrderInv, OrderInvOf, InLine, Sends
  <1> QED
    BY <1>4 DEF Unheld, Put
-----------------------------------------------------------------------------
(* Until a stone is laid every message, write and cache is blank.          *)
BlankPuts(s)   == \A i \in 1..Len(s) : s[i].op = "put" => s[i].val = Blank
BlankValues(s) == \A i \in 1..Len(s) : s[i].val \in {Null, Blank}

LEMMA BlankAppend ==
  ASSUME NEW S, NEW s \in Seq(S), NEW m \in S
  PROVE  /\ BlankPuts(s) /\ (m.op = "put" => m.val = Blank)
              => BlankPuts(Append(s, m))
         /\ BlankValues(s) /\ m.val \in {Null, Blank} => BlankValues(Append(s, m))
  <1> DEFINE t == Append(s, m)
  <1>1. /\ Len(s) \in Nat /\ Len(t) = Len(s) + 1 /\ t[Len(s) + 1] = m
        /\ \A i \in 1..Len(s) : t[i] = s[i]
    BY AppendFacts
  <1> HIDE DEF t
  <1>2. \A i \in 1..Len(t) : i \in 1..Len(s) \/ i = Len(s) + 1
    BY <1>1
  <1>3. BlankPuts(s) /\ (m.op = "put" => m.val = Blank) => BlankPuts(t)
    BY <1>1, <1>2 DEF BlankPuts
  <1>4. BlankValues(s) /\ m.val \in {Null, Blank} => BlankValues(t)
    BY <1>1, <1>2 DEF BlankValues
  <1> QED
    BY <1>3, <1>4 DEF t

LEMMA BlankTail ==
  ASSUME NEW S, NEW s \in Seq(S), s # <<>>
  PROVE  /\ BlankPuts(s) => BlankPuts(Tail(s))
         /\ BlankValues(s) => BlankValues(Tail(s)) /\ Head(s).val \in {Null, Blank}
  <1> DEFINE t == Tail(s)
  <1>1. /\ Len(s) \in Nat \ {0} /\ Len(t) = Len(s) - 1 /\ Head(s) = s[1]
        /\ \A i \in 1..Len(t) : t[i] = s[i + 1]
    BY TailFacts
  <1> HIDE DEF t
  <1>2. \A i \in 1..Len(t) : i + 1 \in 1..Len(s)
    BY <1>1
  <1> QED
    BY <1>1, <1>2 DEF BlankPuts, BlankValues, t

LEMMA BareParts ==
  ASSUME NEW c \in Client
  PROVE  Bare(c) <=> /\ BlankPuts(up[c]) /\ BlankValues(down[c])
                     /\ \A w \in pend[c] : w.val = Blank
                     /\ latest[c] \in {Null, Blank} /\ cache[c] \in {Null, Blank}
  BY DEF Bare, BlankPuts, BlankValues

LEMMA NextBare ==
  ASSUME NEW c \in Client, BlankPuts(up'[c]), BlankValues(down'[c]),
         \A w \in pend'[c] : w.val = Blank,
         latest'[c] \in {Null, Blank}, cache'[c] \in {Null, Blank}
  PROVE  Bare(c)'
  BY DEF Bare, BlankPuts, BlankValues

LEMMA NetBlank ==
  ASSUME MatchInv, AllBlank, NEW c \in Client, Network(c)
  PROVE  AllBlank'
  <1> USE DEF MatchInv, FlowInv, OrderedInv, TInv, TypeOK
  <1>1. \A d \in Client :
          /\ BlankPuts(up[d]) /\ BlankValues(down[d])
          /\ \A w \in pend[d] : w.val = Blank
          /\ latest[d] \in {Null, Blank} /\ cache[d] \in {Null, Blank}
    BY BareParts DEF AllBlank
  <1>2. /\ UNCHANGED latest /\ pend'[c] \subseteq pend[c]
        /\ \A d \in Client \ {c} : Aside(d)
    BY NetAside
  <1>3. NetStep(c) /\ server = Blank
    BY DEF Network, AllBlank
  <1>4. /\ server' = Blank /\ BlankPuts(up'[c]) /\ cache'[c] \in {Null, Blank}
        /\ \A d \in Client : BlankValues(down'[d])
    <2>1. CASE ServerPut(c)
      <3> DEFINE m == Head(up[c])
                 answer == [op |-> "ack", id |-> m.id,
                            val |-> IF c \in watching THEN m.val ELSE Null]
                 push == [op |-> "data", val |-> m.val]
      <3>1. m.val = Blank
        BY <1>1, <2>1, PutPending
      <3>2. m \in UpMsg /\ m.op = "put"
        BY <2>1, TailFacts DEF ServerPut
      <3>3. /\ answer \in DownMsg /\ push \in DownMsg
            /\ answer.val \in {Null, Blank} /\ push.val \in {Null, Blank}
        BY <3>1, <3>2 DEF UpMsg, DownMsg
      <3>4. /\ server' = m.val /\ up'[c] = Tail(up[c]) /\ up[c] # <<>>
            /\ UNCHANGED cache
            /\ \A d \in Client :
                 down'[d] \in {down[d], Append(down[d], answer),
                               Append(down[d], push)}
        BY <2>1 DEF ServerPut, clientVars
      <3> HIDE DEF m, answer, push
      <3>5. ASSUME NEW d \in Client
            PROVE  BlankValues(down'[d])
        <4>1. BlankValues(down[d]) /\ down[d] \in Seq(DownMsg)
          BY <1>1
        <4>2. /\ BlankValues(Append(down[d], answer))
              /\ BlankValues(Append(down[d], push))
          BY <3>3, <4>1, BlankAppend
        <4> QED
          BY <3>4, <4>1, <4>2
      <3>6. BlankPuts(up'[c])
        BY <1>1, <3>4, BlankTail
      <3> QED
        BY <1>1, <3>1, <3>4, <3>5, <3>6
    <2>2. CASE ServerListen(c)
      <3> DEFINE m == [op |-> "listened", val |-> server]
      <3>1. m \in DownMsg /\ m.val = Blank
        BY <1>3 DEF DownMsg
      <3>2. /\ UNCHANGED <<server, cache>> /\ up'[c] = Tail(up[c]) /\ up[c] # <<>>
            /\ \A d \in Client : down'[d] \in {down[d], Append(down[d], m)}
        BY <2>2 DEF ServerListen, clientVars
      <3> HIDE DEF m
      <3>3. ASSUME NEW d \in Client
            PROVE  BlankValues(down'[d])
        <4>1. BlankValues(down[d]) /\ down[d] \in Seq(DownMsg)
          BY <1>1
        <4>2. BlankValues(Append(down[d], m))
          BY <3>1, <4>1, BlankAppend
        <4> QED
          BY <3>2, <4>1, <4>2
      <3>4. BlankPuts(up'[c])
        BY <1>1, <3>2, BlankTail
      <3> QED
        BY <1>1, <1>3, <3>2, <3>3, <3>4
    <2>3. CASE Receive(c)
      <3>1. /\ down[c] # <<>> /\ down'[c] = Tail(down[c])
            /\ cache'[c] = Head(down[c]).val
            /\ \A d \in Client : d # c => down'[d] = down[d]
            /\ UNCHANGED <<server, up>>
        BY <2>3, CacheTaken
      <3>2. BlankValues(down'[c]) /\ cache'[c] \in {Null, Blank}
        BY <1>1, <3>1, BlankTail
      <3> QED
        BY <1>1, <1>3, <3>1, <3>2
    <2>4. CASE OtherListen(c) \/ OtherListened(c)
      BY <1>1, <1>3, <2>4 DEF OtherListen, OtherListened, netVars
    <2>5. CASE Reconnect(c)
      <3> DEFINE asking == IF listens[c] THEN <<Ask>> ELSE <<>>
      <3>1. /\ UNCHANGED <<server, cache>> /\ down'[c] = <<>>
            /\ \A d \in Client : d # c => down'[d] = down[d]
        BY <2>5 DEF Reconnect
      <3>2. PICK q \in InOrder(Resent(c)) :
              up'[c] = asking \o [i \in DOMAIN q |-> Put(q[i])]
        BY <2>5 DEF Reconnect
      <3> DEFINE puts == [i \in DOMAIN q |-> Put(q[i])]
      <3>3. /\ puts \in Seq(UpMsg) /\ Len(q) \in Nat /\ DOMAIN q = 1..Len(q)
        BY ResentFacts
      <3>4. Len(puts) = Len(q) /\ \A i \in 1..Len(puts) : puts[i].val = q[i].val
        BY <3>3 DEF Put
      <3>5. \A i \in 1..Len(puts) : puts[i].val = Blank
        <4>1. \A i \in 1..Len(q) : q[i] \in pend[c]
          BY <3>3 DEF InOrder, Resent, Unheld
        <4> QED
          BY <1>1, <3>4, <4>1
      <3>6. asking \in Seq(UpMsg) /\ \A i \in 1..Len(asking) : asking[i].op # "put"
        <4>1. Ask \in UpMsg /\ Ask.op # "put"
          BY DEF Ask, UpMsg
        <4> QED
          BY <4>1
      <3>7. up'[c] = asking \o puts
        BY <3>2
      <3> HIDE DEF asking, puts
      <3>8. BlankPuts(up'[c])
        BY <3>3, <3>5, <3>6, <3>7 DEF BlankPuts
      <3>9. BlankValues(down'[c])
        BY <3>1 DEF BlankValues
      <3> QED
        BY <1>1, <1>3, <3>1, <3>8, <3>9
    <2> QED
      BY <1>3, <2>1, <2>2, <2>3, <2>4, <2>5 DEF NetStep, ServerApply
  <1>5. \A d \in Client :
          /\ BlankPuts(up'[d]) /\ BlankValues(down'[d])
          /\ \A w \in pend'[d] : w.val = Blank
          /\ latest'[d] \in {Null, Blank} /\ cache'[d] \in {Null, Blank}
    BY <1>1, <1>2, <1>4 DEF Aside
  <1>6. \A d \in Client : Bare(d)'
    BY <1>5, NextBare
  <1> QED
    BY <1>4, <1>6 DEF AllBlank

(* A player that enters the match or ends it writes a blank board.         *)
LEMMA WriteBlank ==
  ASSUME MatchInv, AllBlank, NEW c \in Client,
         Write(c, Blank) \/ WriteThenListen(c, Blank)
  PROVE  AllBlank'
  <1> USE DEF MatchInv, FlowInv, OrderedInv, TInv, TypeOK
  <1> DEFINE r == [id |-> nextId[c], val |-> Blank]
  <1>1. \A d \in Client :
          /\ BlankPuts(up[d]) /\ BlankValues(down[d])
          /\ \A w \in pend[d] : w.val = Blank
          /\ latest[d] \in {Null, Blank} /\ cache[d] \in {Null, Blank}
    BY BareParts DEF AllBlank
  <1>2. /\ UNCHANGED <<server, down, cache>>
        /\ pend'[c] = pend[c] \cup {r} /\ latest'[c] = Blank
        /\ \A d \in Client \ {c} : /\ pend'[d] = pend[d] /\ latest'[d] = latest[d]
                                   /\ up'[d] = up[d]
    BY WriteAside, BoardValues
  <1>3. BlankPuts(up'[c])
    <2>1. \/ up'[c] = Append(up[c], Put(r))
          \/ up'[c] = up[c] \o <<Put(r), Ask>>
      BY DEF Write, WriteThenListen
    <2>2. Put(r) \in UpMsg /\ Ask \in UpMsg /\ Put(r).val = Blank /\ Ask.op # "put"
      BY BoardValues DEF Put, Ask, UpMsg
    <2> HIDE DEF r
    <2>3. Append(up[c], Put(r)) \in Seq(UpMsg) /\ BlankPuts(Append(up[c], Put(r)))
      BY <1>1, <2>2, BlankAppend
    <2>4. up[c] \o <<Put(r), Ask>> = Append(Append(up[c], Put(r)), Ask)
      BY <2>2
    <2>5. BlankPuts(Append(Append(up[c], Put(r)), Ask))
      BY <2>2, <2>3, BlankAppend
    <2> QED
      BY <2>1, <2>3, <2>4, <2>5
  <1>4. \A d \in Client :
          /\ BlankPuts(up'[d]) /\ BlankValues(down'[d])
          /\ \A w \in pend'[d] : w.val = Blank
          /\ latest'[d] \in {Null, Blank} /\ cache'[d] \in {Null, Blank}
    <2> HIDE DEF r
    <2>1. r.val = Blank
      BY DEF r
    <2>2. \A w \in pend'[c] : w.val = Blank
      BY <1>1, <1>2, <2>1
    <2> QED
      BY <1>1, <1>2, <1>3, <2>2
  <1>5. \A d \in Client : Bare(d)'
    BY <1>4, NextBare
  <1> QED
    BY <1>2, <1>5 DEF AllBlank

LEMMA SameBlank ==
  ASSUME UNCHANGED <<netVars, clientVars>>
  PROVE  AllBlank' <=> AllBlank
  BY DEF AllBlank, Bare, netVars, clientVars

LEMMA BlankShows ==
  ASSUME MatchInv, AllBlank, NEW c \in Client, listens[c]
  PROVE  View(c) = Blank
  <1>1. View(c) # Null
    BY NullAssumption DEF MatchInv, Sighted
  <1> QED
    BY <1>1 DEF AllBlank, Bare, View, Shown

(* Before a stone is laid nobody is to be shown anything but what it shows.*)
LEMMA BlankUpcoming ==
  ASSUME MatchInv, AllBlank, NEW c \in Client
  PROVE  ~Upcoming(c)
  <1> SUFFICES ASSUME listens[c], NEW v, Coming(c, v, v, v)
               PROVE  v = View(c)
    BY DEF Upcoming
  <1> DEFINE s == down[c]
  <1>1. Len(s) \in Nat
    BY DEF MatchInv, FlowInv, OrderedInv, TInv, TypeOK
  <1>2. \A i \in 0..(Len(s) + 1) : Stage(s, cache[c], server, i) \in {Null, Blank}
    BY <1>1 DEF Stage, AllBlank, Bare
  <1>3. v # Null /\ v \in {Null, Blank}
    BY <1>2 DEF Coming, Comes
  <1> QED
    BY <1>3, BlankShows
-----------------------------------------------------------------------------
(* While both may still tap, at most one of them has the turn or is to be  *)
(* shown a board that gives it the turn; one that has the turn has nothing *)
(* under way, but for the blank boards both wrote when they entered; and   *)
(* before the challenged player enters there is nothing but blank boards.  *)
Waiting ==
  screen[Challenged] = "lobby" =>
    AllBlank /\ (InPlay(Challenger) => ~Turn(Challenger))
Unpended(c) ==
  InPlay(c) /\ Turn(c) => pend[c] = {} \/ (c = Challenged /\ AllBlank)
Excludes(c, d) ==
  InPlay(c) /\ InPlay(d) => /\ Turn(c) => ~Turn(d) /\ ~Upcoming(d)
                            /\ Upcoming(c) => ~Turn(d) /\ ~Upcoming(d)

TurnInv ==
  /\ Waiting
  /\ \A c \in Client : Unpended(c)
  /\ \A c, d \in Client : c # d => Excludes(c, d)

LEMMA InitTurnInv == Init => TurnInv
  <1> SUFFICES ASSUME Init PROVE TurnInv
    OBVIOUS
  <1>1. \A c \in Client : ~Turn(c) /\ ~Upcoming(c)
    BY DEF Init, NodeInit, Turn, Upcoming
  <1>2. AllBlank
    BY DEF Init, NodeInit, AllBlank, Bare
  <1>3. Challenger \in Client
    BY PlayersAssumption
  <1> QED
    BY <1>1, <1>2, <1>3 DEF TurnInv, Waiting, Unpended, Excludes

(* A step that changes no turn and brings nothing new keeps TurnInv.       *)
LEMMA SameTurns ==
  ASSUME TurnInv, screen' = screen, AllBlank => AllBlank',
         \A d \in Client : /\ Turn(d)' <=> Turn(d)
                           /\ InPlay(d)' => InPlay(d)
                           /\ Upcoming(d)' => Upcoming(d)
                           /\ pend'[d] \subseteq pend[d]
  PROVE  TurnInv'
  <1>1. Challenger \in Client
    BY PlayersAssumption
  <1>2. Waiting'
    BY <1>1 DEF TurnInv, Waiting
  <1>3. \A c \in Client : Unpended(c)'
    BY DEF TurnInv, Unpended
  <1>4. \A c, d \in Client : c # d => Excludes(c, d)'
    BY DEF TurnInv, Excludes
  <1> QED
    BY <1>2, <1>3, <1>4 DEF TurnInv

LEMMA EnterTurn ==
  ASSUME MatchInv, TurnInv, NEW c \in Client, Enter(c)
  PROVE  TurnInv'
  <1>1. /\ WriteThenListen(c, Blank) /\ ~listens[c] /\ screen[c] = "lobby"
        /\ screen'[c] = "game" /\ result'[c] = result[c]
        /\ \A d \in Client \ {c} : Aside(d)
        /\ Turn(c)' <=> c # Challenger
    BY EnterAside
  <1>2. \A d \in Client \ {c} : /\ Turn(d)' <=> Turn(d)
                                /\ InPlay(d)' <=> InPlay(d)
                                /\ pend'[d] = pend[d] /\ screen'[d] = screen[d]
    BY <1>1, AsideKeeps DEF Aside
  <1>3. InPlay(c)' => InPlay(c)
    BY <1>1 DEF InPlay
  <1>4. \A d \in Client : /\ d = c => ~Upcoming(d)'
                          /\ d # c => (Upcoming(d)' <=> Upcoming(d))
    BY <1>1, WriteUpcoming, BoardValues DEF MatchInv
  <1>5. AllBlank => AllBlank'
    BY <1>1, WriteBlank
  <1>6. CASE c = Challenged
    <2>1. AllBlank /\ AllBlank' /\ (InPlay(Challenger) => ~Turn(Challenger))
      BY <1>1, <1>5, <1>6 DEF TurnInv, Waiting
    <2>2. \A d \in Client : ~Upcoming(d)
      BY <2>1, BlankUpcoming
    <2>3. Waiting'
      BY <1>1, <1>6 DEF Waiting
    <2>4. \A d \in Client : Unpended(d)'
      BY <1>2, <1>6, <2>1, PlayersAssumption DEF Unpended
    <2>5. \A a, b \in Client : a # b => Excludes(a, b)'
      BY <1>2, <1>4, <1>6, <2>1, <2>2, PlayersAssumption DEF Excludes
    <2> QED
      BY <2>3, <2>4, <2>5 DEF TurnInv
  <1>7. CASE c = Challenger
    <2>1. ~Turn(c)' /\ ~Upcoming(c)'
      BY <1>1, <1>4, <1>7
    <2>2. Waiting'
      BY <1>2, <1>5, <1>7, <2>1, PlayersAssumption DEF TurnInv, Waiting
    <2>3. \A d \in Client : Unpended(d)'
      BY <1>2, <1>5, <2>1 DEF TurnInv, Unpended
    <2>4. \A a, b \in Client : a # b => Excludes(a, b)'
      BY <1>2, <1>3, <1>4, <2>1 DEF TurnInv, Excludes
    <2> QED
      BY <2>2, <2>3, <2>4 DEF TurnInv
  <1> QED
    BY <1>6, <1>7, PlayersAssumption

LEMMA EndsTurn ==
  ASSUME MatchInv, TurnInv, NEW c \in Client, Ends(c)
  PROVE  TurnInv'
  <1>1. /\ Write(c, Blank) /\ screen'[c] # "lobby" /\ ~InPlay(c)'
        /\ \A d \in Client \ {c} : Aside(d)
    BY EndsAside
  <1>2. \A d \in Client \ {c} : /\ Turn(d)' <=> Turn(d)
                                /\ InPlay(d)' <=> InPlay(d)
                                /\ pend'[d] = pend[d] /\ screen'[d] = screen[d]
    BY <1>1, AsideKeeps DEF Aside
  <1>3. \A d \in Client \ {c} : Upcoming(d)' <=> Upcoming(d)
    BY <1>1, WriteUpcoming, BoardValues DEF MatchInv
  <1>4. AllBlank => AllBlank'
    BY <1>1, WriteBlank
  <1>5. Waiting'
    BY <1>1, <1>2, <1>4, PlayersAssumption DEF TurnInv, Waiting
  <1>6. \A d \in Client : Unpended(d)'
    BY <1>1, <1>2, <1>4 DEF TurnInv, Unpended
  <1>7. \A a, b \in Client : a # b => Excludes(a, b)'
    BY <1>1, <1>2, <1>3 DEF TurnInv, Excludes
  <1> QED
    BY <1>5, <1>6, <1>7 DEF TurnInv

LEMMA TapTurn ==
  ASSUME MatchInv, TurnInv, Patient = Client,
         NEW c \in Client, NEW p \in Cells, Tap(c, p)
  PROVE  TurnInv'
  <1>1. /\ Write(c, firebaseData'[c]) /\ UNCHANGED <<screen, result>>
        /\ \A d \in Client \ {c} : Aside(d)
        /\ ~Turn(c)'
    BY TapAside
  <1>2. /\ Turn(c) /\ InPlay(c) /\ screen[c] = "game"
        /\ firebaseData'[c] \in Value
    BY TapLays
  <1>3. \A d \in Client : /\ d = c => ~Upcoming(d)'
                          /\ d # c => (Upcoming(d)' <=> Upcoming(d))
    BY <1>1, <1>2, WriteUpcoming DEF MatchInv
  <1>4. \A d \in Client \ {c} : /\ Turn(d)' <=> Turn(d)
                                /\ InPlay(d)' <=> InPlay(d)
    BY <1>1, AsideKeeps
  <1>5. \A d \in Client : InPlay(d)' => ~Turn(d)' /\ ~Upcoming(d)'
    <2>1. \A d \in Client \ {c} : InPlay(d) => ~Turn(d) /\ ~Upcoming(d)
      BY <1>2 DEF TurnInv, Excludes
    <2> QED
      BY <1>1, <1>3, <1>4, <2>1
  <1>6. screen'[Challenged] # "lobby"
    <2>1. CASE c = Challenged
      BY <1>1, <1>2, <2>1
    <2>2. CASE c = Challenger
      BY <1>1, <1>2, <2>2 DEF TurnInv, Waiting
    <2> QED
      BY <2>1, <2>2, PlayersAssumption
  <1> QED
    BY <1>5, <1>6 DEF TurnInv, Waiting, Unpended, Excludes

LEMMA NetworkTurn ==
  ASSUME MatchInv, TurnInv, NEW c \in Client, Network(c)
  PROVE  TurnInv'
  <1>1. /\ \A d \in Client \ {c} : Aside(d)
        /\ UNCHANGED <<listens, screen, result>>
        /\ pend'[c] \subseteq pend[c]
    BY NetAside
  <1>2. \A d \in Client : InPlay(d)' <=> InPlay(d)
    BY <1>1 DEF InPlay
  <1>3. AllBlank => AllBlank'
    BY NetBlank
  <1>4. \A d \in Client \ {c} : Turn(d)' <=> Turn(d)
    BY <1>1, AsideKeeps
  <1>5. \A d \in Client : pend'[d] \subseteq pend[d]
    BY <1>1 DEF Aside
  <1>6. CASE ServerPut(c)
    <2>1. ~Upcoming(c)'
      BY <1>6, OwnPutUpcoming
    <2>2. PICK w \in pend[c] : Head(up[c]).val = w.val
      BY <1>6, PutPending DEF MatchInv
    <2>3. Turn(c)' <=> Turn(c)
      BY <1>6 DEF ServerPut, clientVars, Network, gameVars, turnVars, Turn
    <2>4. ASSUME NEW d \in Client, d # c, Upcoming(d)'
          PROVE  Upcoming(d) \/ ~Turn(c) \/ ~InPlay(c)
      <3>1. CASE Turn(c) /\ InPlay(c)
        <4>1. AllBlank
          BY <2>2, <3>1 DEF TurnInv, Unpended
        <4>2. w.val = Blank
          BY <2>2, <4>1 DEF AllBlank, Bare
        <4>3. listens[d]
          BY <1>1, <2>4 DEF Upcoming
        <4>4. View(d) = Blank
          BY <4>1, <4>3, BlankShows
        <4> QED
          BY <2>2, <2>4, <4>2, <4>4, NetUpcoming
      <3> QED
        BY <3>1
    <2>5. Waiting'
      BY <1>1, <1>2, <1>3, <1>4, <2>3, PlayersAssumption DEF TurnInv, Waiting
    <2>6. \A d \in Client : Unpended(d)'
      BY <1>2, <1>3, <1>4, <1>5, <2>3 DEF TurnInv, Unpended
    <2>7. ASSUME NEW a \in Client, NEW b \in Client, a # b
          PROVE  Excludes(a, b)'
      <3>1. a = c \/ b = c
        BY <2>7, PlayersAssumption
      <3>2. Excludes(a, b) /\ Excludes(b, a)
        BY <2>7 DEF TurnInv
      <3>3. /\ (Turn(a)' <=> Turn(a)) /\ (Turn(b)' <=> Turn(b))
            /\ (InPlay(a)' <=> InPlay(a)) /\ (InPlay(b)' <=> InPlay(b))
        BY <1>2, <1>4, <2>3
      <3>4. CASE a = c
        BY <2>1, <2>4, <2>7, <3>2, <3>3, <3>4 DEF Excludes
      <3>5. CASE b = c
        BY <2>1, <2>4, <2>7, <3>2, <3>3, <3>5 DEF Excludes
      <3> QED
        BY <3>1, <3>4, <3>5
    <2> QED
      BY <2>5, <2>6, <2>7 DEF TurnInv
  <1>7. CASE ~ServerPut(c)
    <2>1. \A d \in Client : Upcoming(d)' => Upcoming(d)
      BY <1>7, NetUpcoming
    <2>2. CASE Turn(c)' <=> Turn(c)
      BY <1>1, <1>2, <1>3, <1>4, <1>5, <2>1, <2>2, SameTurns
    <2>3. CASE ~(Turn(c)' <=> Turn(c))
      <3>1. listens[c]
        BY <1>1, <2>3 DEF Turn
      <3>2. /\ View(c)' # View(c) /\ pend'[c] = {}
            /\ Coming(c, View(c)', View(c)', View(c)')
        BY <2>3, <3>1, NetTurn
      <3>3. Upcoming(c) /\ ~AllBlank
        BY <3>1, <3>2, BlankUpcoming DEF Upcoming
      <3>4. \A d \in Client \ {c} :
              InPlay(c) /\ InPlay(d) => ~Turn(d)' /\ ~Upcoming(d)'
        BY <1>4, <2>1, <3>3 DEF TurnInv, Excludes
      <3>5. \A d \in Client : Unpended(d)'
        BY <1>2, <1>3, <1>4, <1>5, <3>2 DEF TurnInv, Unpended
      <3>6. \A a, b \in Client : a # b => Excludes(a, b)'
        <4>1. \A a, b \in Client : a # b => a = c \/ b = c
          BY PlayersAssumption
        <4> QED
          BY <1>2, <3>4, <4>1 DEF Excludes
      <3>7. Waiting'
        BY <1>1, <3>3 DEF TurnInv, Waiting
      <3> QED
        BY <3>5, <3>6, <3>7 DEF TurnInv
    <2> QED
      BY <2>2, <2>3
  <1> QED
    BY <1>6, <1>7

LEMMA NextTurnInv ==
  ASSUME Patient = Client, MatchInv, TurnInv, [GameNext]_vars
  PROVE  TurnInv'
  <1>1. CASE UNCHANGED vars \/ \E c \in Client : Apart(c)
    <2>1. UNCHANGED nodeVars /\ \A d \in Client : Aside(d)
      BY <1>1, ApartAside
    <2>2. \A d \in Client : /\ Turn(d)' <=> Turn(d)
                            /\ InPlay(d)' <=> InPlay(d)
                            /\ View(d)' = View(d)
      BY <2>1, AsideKeeps
    <2>3. \A d \in Client : Upcoming(d)' <=> Upcoming(d)
      BY <2>1, <2>2, StillUpcoming DEF nodeVars, netVars, clientVars
    <2>4. AllBlank' <=> AllBlank
      BY <2>1, SameBlank DEF nodeVars
    <2>5. UNCHANGED <<screen, pend>>
      BY <1>1 DEF vars, gameVars, nodeVars, clientVars, Apart, Tick,
         ScoreReply, ScoreCallback
    <2> QED
      BY <2>2, <2>3, <2>4, <2>5, SameTurns
  <1>2. ASSUME NEW c \in Client, ObserveMap(c)
        PROVE  TurnInv'
    <2>1. /\ UNCHANGED <<netVars, clientVars, screen>>
          /\ \A d \in Client \ {c} : Aside(d)
          /\ View(c)' = View(c) /\ (Turn(c)' <=> Turn(c))
          /\ InPlay(c)' => InPlay(c)
      BY <1>2, ObserveAside
    <2>2. \A d \in Client : /\ Turn(d)' <=> Turn(d)
                            /\ InPlay(d)' => InPlay(d)
                            /\ View(d)' = View(d)
      BY <2>1, AsideKeeps
    <2>3. \A d \in Client : Upcoming(d)' <=> Upcoming(d)
      BY <2>1, <2>2, StillUpcoming DEF netVars, clientVars
    <2>4. AllBlank' <=> AllBlank
      BY <2>1, SameBlank
    <2> QED
      BY <2>1, <2>2, <2>3, <2>4, SameTurns DEF clientVars
  <1> QED
    BY <1>1, <1>2, EnterTurn, EndsTurn, TapTurn, NetworkTurn, StepCases
       DEF Moves

LEMMA OneTurn == MatchInv /\ TurnInv => OneToMove
  <1> SUFFICES ASSUME MatchInv, TurnInv, NEW c \in Client, NEW d \in Client,
                      ToMove(c), ToMove(d), c # d
               PROVE  FALSE
    BY DEF OneToMove
  <1>1. ASSUME NEW e \in Client, ToMove(e)
        PROVE  Turn(e) /\ InPlay(e)
    <2>1. /\ screen[e] = "game" /\ seen[e] # Null /\ events[e] = <<>>
          /\ result[e] = "none" /\ MyTurn(e)
      BY <1>1 DEF ToMove
    <2>2. listens[e]
      BY <2>1 DEF MatchInv, GameInv, EventInv, EventInvOf
    <2>3. amIChallenger[e]
      BY <2>1 DEF MatchInv, Sighted
    <2> QED
      BY <2>1, <2>2, <2>3, EvenEmpty DEF Turn, InPlay
  <1>2. Turn(c) /\ InPlay(c) /\ Turn(d) /\ InPlay(d)
    BY <1>1
  <1> QED
    BY <1>2 DEF TurnInv, Excludes

LEMMA Match == GameSpec => []MatchInv
  BY InitMatchInv, NextMatchInv, PTL DEF GameSpec

LEMMA Turns ==
  ASSUME Patient = Client
  PROVE  GameSpec => [](MatchInv /\ TurnInv)
  <1>1. Init => TurnInv
    BY InitTurnInv
  <1>2. MatchInv /\ TurnInv /\ [GameNext]_vars => TurnInv'
    BY NextTurnInv
  <1> QED
    BY <1>1, <1>2, Match, PTL DEF GameSpec

(* Two players that wait for their turn are never both to move, although   *)
(* each app keeps a turn of its own and toggles it whenever its observer   *)
(* is called (Map.swift, amIChallenger): on a board of any size, over a    *)
(* connection that is lost any number of times, with any clocks.           *)
THEOREM TurnsExclude ==
  ASSUME Patient = Client
  PROVE  GameSpec => []OneToMove
  BY Turns, OneTurn, PTL
-----------------------------------------------------------------------------
(* The colours alternate.  A player writes boards on which its own colour  *)
(* is one stone ahead, or neither is; it has the turn only if the board it *)
(* shows is not of the first kind; and such a board can come to it only as *)
(* its own, while it shows it.                                             *)
Sign(c) == IF c = Challenger THEN 1 ELSE -1
Balanced(b) == Lead(b) \in -1..1

LeadWritten(c) == \A w \in pend[c] : Lead(w.val) \in {0, Sign(c)}
LeadShown(c) ==
  listens[c] =>
    /\ Balanced(View(c))
    /\ \A v, w : Coming(c, v, v, w) =>
         /\ Balanced(v) /\ Balanced(w)
         /\ Lead(w) = Sign(c) => v = View(c)
LeadFollowed(c) == InPlay(c) /\ Turn(c) => Lead(View(c)) # Sign(c)

LeadInv ==
  /\ Balanced(server)
  /\ \A c \in Client : LeadWritten(c) /\ LeadShown(c) /\ LeadFollowed(c)

LEMMA Cellular == \A S \in SUBSET Cells : IsFiniteSet(S) /\ Cardinality(S) \in Nat
  <1>1. IsFiniteSet(Index)
    BY SizeAssumption, FS_Interval DEF Index
  <1>2. IsFiniteSet(Cells)
    BY <1>1, FS_Product DEF Cells
  <1> QED
    BY <1>2, FS_Subset, FS_CardinalityType

LEMMA BlankLead == Lead(Blank) = 0
  <1>1. Stones(Blank, 1) = {} /\ Stones(Blank, 2) = {}
    BY DEF Stones, Blank
  <1>2. Cardinality({}) = 0
    BY FS_EmptySet
  <1> QED
    BY <1>1, <1>2 DEF Lead

(* A stone on an empty cell moves the lead towards its colour.             *)
LEMMA LaidLead ==
  ASSUME NEW b \in Boards, NEW p \in Cells, b[p] = 0, NEW c \in Client
  PROVE  Lead([b EXCEPT ![p] = ColourOf(c)]) = Lead(b) + Sign(c)
  <1> DEFINE k == ColourOf(c)
             l == 3 - k
             x == [b EXCEPT ![p] = k]
  <1>1. k \in {1, 2} /\ l \in {1, 2} /\ k # l /\ Sign(c) = IF k = 1 THEN 1 ELSE -1
    BY DEF ColourOf, Sign
  <1> HIDE DEF k
  <1>2. Stones(x, k) = Stones(b, k) \cup {p} /\ p \notin Stones(b, k)
    BY <1>1 DEF Stones, Boards
  <1>3. Stones(x, l) = Stones(b, l)
    BY <1>1 DEF Stones, Boards
  <1>4. /\ IsFiniteSet(Stones(b, k)) /\ Cardinality(Stones(b, k)) \in Nat
        /\ Cardinality(Stones(b, l)) \in Nat
    BY Cellular DEF Stones
  <1>5. Cardinality(Stones(x, k)) = Cardinality(Stones(b, k)) + 1
    BY <1>2, <1>4, FS_AddElement
  <1> HIDE DEF x, l
  <1>6. l = 3 - k
    BY DEF l
  <1>7. CASE k = 1
    BY <1>1, <1>3, <1>4, <1>5, <1>6, <1>7 DEF Lead, x, k
  <1>8. CASE k = 2
    BY <1>1, <1>3, <1>4, <1>5, <1>6, <1>8 DEF Lead, x, k
  <1> QED
    BY <1>1, <1>7, <1>8

LEMMA InitLeadInv == Init => LeadInv
  <1> SUFFICES ASSUME Init PROVE LeadInv
    OBVIOUS
  <1>1. Balanced(server)
    BY BlankLead DEF Init, Balanced
  <1>2. \A c \in Client : pend[c] = {} /\ ~listens[c] /\ ~Turn(c)
    BY DEF Init, NodeInit, Turn
  <1> QED
    BY <1>1, <1>2 DEF LeadInv, LeadWritten, LeadShown, LeadFollowed

LEMMA LeadKept ==
  ASSUME NEW d \in Client, LeadWritten(d), LeadShown(d), LeadFollowed(d),
         View(d)' = View(d), listens'[d] = listens[d],
         Turn(d)' => Turn(d), InPlay(d)' => InPlay(d),
         pend'[d] \subseteq pend[d],
         \A v, w : Coming(d, v, v, w)' => Coming(d, v, v, w)
  PROVE  LeadWritten(d)' /\ LeadShown(d)' /\ LeadFollowed(d)'
  <1>1. LeadWritten(d)'
    BY DEF LeadWritten, Lead, Stones, Sign
  <1>2. LeadShown(d)'
    BY DEF LeadShown
  <1>3. LeadFollowed(d)'
    BY DEF LeadFollowed
  <1> QED
    BY <1>1, <1>2, <1>3

(* A step that leaves the network and what is shown alone.                 *)
LEMMA SameLead ==
  ASSUME LeadInv, UNCHANGED <<netVars, clientVars>>,
         \A d \in Client : /\ View(d)' = View(d)
                           /\ Turn(d)' => Turn(d)
                           /\ InPlay(d)' => InPlay(d)
  PROVE  LeadInv'
  <1>1. UNCHANGED <<server, up, down, cache, listens, pend>>
    BY DEF netVars, clientVars
  <1>2. Balanced(server)'
    BY <1>1 DEF LeadInv, Balanced
  <1>3. ASSUME NEW d \in Client
        PROVE  LeadWritten(d)' /\ LeadShown(d)' /\ LeadFollowed(d)'
    <2>1. \A v, w : Coming(d, v, v, w)' => Coming(d, v, v, w)
      BY <1>1, SameComing
    <2>2. LeadWritten(d) /\ LeadShown(d) /\ LeadFollowed(d)
      BY DEF LeadInv
    <2> QED
      BY <1>1, <2>1, <2>2, LeadKept
  <1> QED
    BY <1>2, <1>3 DEF LeadInv

(* A player writes a board on which its own colour is ahead, or neither is.*)
LEMMA WriteLead ==
  ASSUME MatchInv, LeadInv, NEW c \in Client, NEW x \in Value,
         Write(c, x) \/ WriteThenListen(c, x),
         Lead(x) \in {0, Sign(c)},
         InPlay(c)' /\ Turn(c)' => Lead(x) # Sign(c),
         \A d \in Client \ {c} : Aside(d)
  PROVE  LeadInv'
  <1>1. /\ UNCHANGED <<server, down, cache>> /\ View(c)' = x
        /\ pend'[c] = pend[c] \cup {[id |-> nextId[c], val |-> x]}
    BY WriteAside DEF MatchInv
  <1>2. \A d \in Client : \A v, w :
          /\ d = c => ~Coming(d, v, v, w)'
          /\ d # c => (Coming(d, v, v, w)' <=> Coming(d, v, v, w))
    BY WriteComing DEF MatchInv
  <1>3. Balanced(server)'
    BY <1>1 DEF LeadInv, Balanced
  <1>4. \A d \in Client : LeadWritten(d) /\ LeadShown(d) /\ LeadFollowed(d)
    BY DEF LeadInv
  <1>5. ASSUME NEW d \in Client \ {c}
        PROVE  LeadWritten(d)' /\ LeadShown(d)' /\ LeadFollowed(d)'
    <2>1. /\ View(d)' = View(d) /\ (Turn(d)' => Turn(d))
          /\ InPlay(d)' => InPlay(d)
          /\ listens'[d] = listens[d] /\ pend'[d] \subseteq pend[d]
      BY AsideKeeps DEF Aside
    <2> QED
      BY <1>2, <1>4, <2>1, LeadKept
  <1>6. LeadWritten(c)'
    BY <1>1, <1>4 DEF LeadWritten
  <1>7. LeadShown(c)'
    <2>1. Balanced(x)
      BY DEF Balanced, Sign
    <2> QED
      BY <1>1, <1>2, <2>1 DEF LeadShown
  <1>8. LeadFollowed(c)'
    BY <1>1 DEF LeadFollowed
  <1> QED
    BY <1>3, <1>5, <1>6, <1>7, <1>8 DEF LeadInv

LEMMA TapLead ==
  ASSUME MatchInv, LeadInv, Patient = Client,
         NEW c \in Client, NEW p \in Cells, Tap(c, p)
  PROVE  LeadInv'
  <1> DEFINE x == firebaseData'[c]
  <1>1. /\ Write(c, x) /\ ~Turn(c)' /\ \A d \in Client \ {c} : Aside(d)
    BY TapAside
  <1>2. /\ Turn(c) /\ InPlay(c) /\ View(c) \in Boards /\ View(c)[p] = 0
        /\ x = [View(c) EXCEPT ![p] = ColourOf(c)] /\ x \in Value
    BY TapLays
  <1> HIDE DEF x
  <1>3. Lead(x) = Lead(View(c)) + Sign(c)
    BY <1>2, LaidLead
  <1>4. Lead(View(c)) \in -1..1 /\ Lead(View(c)) # Sign(c)
    BY <1>2 DEF LeadInv, LeadShown, LeadFollowed, Balanced, Turn
  <1>5. Lead(x) \in {0, Sign(c)}
    BY <1>3, <1>4 DEF Sign
  <1> QED
    BY <1>1, <1>2, <1>5, WriteLead

LEMMA NetworkLead ==
  ASSUME MatchInv, LeadInv, NEW c \in Client, Network(c)
  PROVE  LeadInv'
  <1>1. /\ \A d \in Client \ {c} : Aside(d)
        /\ UNCHANGED <<listens, screen, result>>
        /\ pend'[c] \subseteq pend[c] /\ NetStep(c)
    BY NetAside DEF Network
  <1>2. \A d \in Client : LeadWritten(d) /\ LeadShown(d) /\ LeadFollowed(d)
    BY DEF LeadInv
  <1>3. \A d \in Client : InPlay(d)' <=> InPlay(d)
    BY <1>1 DEF InPlay
  <1>4. \A d \in Client \ {c} :
          /\ View(d)' = View(d) /\ (Turn(d)' => Turn(d))
          /\ pend'[d] \subseteq pend[d]
    BY <1>1, AsideKeeps DEF Aside
  <1>5. CASE ServerPut(c)
    <2> DEFINE x == Head(up[c]).val
    <2>1. PICK r \in pend[c] : x = r.val
      BY <1>5, PutPending DEF MatchInv
    <2>2. Lead(x) \in {0, Sign(c)}
      BY <1>2, <2>1 DEF LeadWritten
    <2>3. Balanced(x)
      BY <2>2 DEF Balanced, Sign
    <2>4. server' = x /\ UNCHANGED <<clientVars, events>>
      BY <1>5 DEF ServerPut
    <2>5. View(c)' = View(c) /\ (Turn(c)' <=> Turn(c))
      BY <1>5, <2>4 DEF clientVars, View, Network, gameVars, turnVars, Turn
    <2>6. \A v, w : Coming(c, v, v, w)' => v = View(c) /\ w = View(c)
      BY <1>5, OwnPutComing DEF MatchInv
    <2>7. \A d \in Client \ {c} : \A v, w : Coming(d, v, v, w)' =>
             \/ Coming(d, v, v, w)
             \/ w = x /\ (v = x \/ Coming(d, v, v, v))
      BY <1>5, OtherPutComing DEF MatchInv
    <2> HIDE DEF x
    <2>8. Balanced(server)'
      BY <2>3, <2>4 DEF Balanced
    <2>9. LeadWritten(c)' /\ LeadFollowed(c)'
      BY <1>1, <1>2, <1>3, <2>5 DEF LeadWritten, LeadFollowed
    <2>10. LeadShown(c)'
      BY <1>1, <1>2, <2>5, <2>6 DEF LeadShown
    <2>11. ASSUME NEW d \in Client \ {c}
           PROVE  LeadWritten(d)' /\ LeadShown(d)' /\ LeadFollowed(d)'
      <3>1. LeadWritten(d)' /\ LeadFollowed(d)'
        BY <1>2, <1>3, <1>4 DEF LeadWritten, LeadFollowed
      <3>2. Lead(x) # Sign(d)
        BY <2>2, PlayersAssumption DEF Sign
      <3>3. LeadShown(d)'
        BY <1>1, <1>2, <1>4, <2>3, <2>7, <3>2 DEF LeadShown
      <3> QED
        BY <3>1, <3>3
    <2> QED
      BY <2>8, <2>9, <2>10, <2>11 DEF LeadInv
  <1>6. CASE ~ServerPut(c)
    <2>1. \A d \in Client : \A v, w : Coming(d, v, v, w)' => Coming(d, v, v, w)
      BY <1>1, <1>6, NetComing DEF MatchInv
    <2>2. Balanced(server)'
      <3>1. server' = server
        BY <1>1, <1>6 DEF NetStep, ServerApply, ServerListen, Receive,
           ReceiveData, ReceiveAck, ReceiveListened, OtherListen,
           OtherListened, Reconnect, netVars
      <3> QED
        BY <3>1 DEF LeadInv, Balanced
    <2>3. \A d \in Client \ {c} :
            LeadWritten(d)' /\ LeadShown(d)' /\ LeadFollowed(d)'
      BY <1>1, <1>2, <1>3, <1>4, <2>1, LeadKept
    <2>4. LeadWritten(c)' /\ LeadShown(c)' /\ LeadFollowed(c)'
      <3>1. LeadWritten(c)'
        BY <1>1, <1>2 DEF LeadWritten
      <3>2. CASE ~listens[c]
        BY <1>1, <3>1, <3>2 DEF LeadShown, LeadFollowed, Turn
      <3>3. CASE listens[c] /\ View(c)' = View(c) /\ (Turn(c)' <=> Turn(c))
        BY <1>1, <1>2, <1>3, <2>1, <3>3, LeadKept
      <3>4. CASE /\ listens[c] /\ View(c)' # View(c)
                 /\ Coming(c, View(c)', View(c)', View(c)')
                 /\ \A v, w : Coming(c, v, v, w)'
                      => Coming(c, View(c)', View(c)', w)
        <4>1. Balanced(View(c)') /\ Lead(View(c)') # Sign(c)
          BY <1>2, <3>4 DEF LeadShown
        <4>2. \A v, w : Coming(c, v, v, w)' =>
                          Balanced(v) /\ Balanced(w) /\ Lead(w) # Sign(c)
          BY <1>2, <2>1, <3>4 DEF LeadShown
        <4>3. LeadShown(c)'
          BY <4>1, <4>2 DEF LeadShown
        <4>4. LeadFollowed(c)'
          BY <4>1 DEF LeadFollowed
        <4> QED
          BY <3>1, <4>3, <4>4
      <3> QED
        BY <3>2, <3>3, <3>4, NetTurn
    <2> QED
      BY <2>2, <2>3, <2>4 DEF LeadInv
  <1> QED
    BY <1>5, <1>6

LEMMA NextLeadInv ==
  ASSUME Patient = Client, MatchInv, LeadInv, [GameNext]_vars
  PROVE  LeadInv'
  <1>1. CASE UNCHANGED vars \/ \E c \in Client : Apart(c)
    <2>1. UNCHANGED nodeVars /\ \A d \in Client : Aside(d)
      BY <1>1, ApartAside
    <2>2. \A d \in Client : /\ Turn(d)' => Turn(d)
                            /\ InPlay(d)' => InPlay(d)
                            /\ View(d)' = View(d)
      BY <2>1, AsideKeeps
    <2> QED
      BY <2>1, <2>2, SameLead DEF nodeVars
  <1>2. ASSUME NEW c \in Client, ObserveMap(c)
        PROVE  LeadInv'
    <2>1. /\ UNCHANGED <<netVars, clientVars>>
          /\ \A d \in Client \ {c} : Aside(d)
          /\ View(c)' = View(c) /\ (Turn(c)' => Turn(c))
          /\ InPlay(c)' => InPlay(c)
      BY <1>2, ObserveAside
    <2>2. \A d \in Client : /\ Turn(d)' => Turn(d)
                            /\ InPlay(d)' => InPlay(d)
                            /\ View(d)' = View(d)
      BY <2>1, AsideKeeps
    <2> QED
      BY <2>1, <2>2, SameLead
  <1>3. ASSUME NEW c \in Client, Enter(c) \/ Ends(c)
        PROVE  LeadInv'
    <2>1. /\ Write(c, Blank) \/ WriteThenListen(c, Blank)
          /\ \A d \in Client \ {c} : Aside(d)
      BY <1>3, EnterAside, EndsAside
    <2>2. Lead(Blank) \in {0, Sign(c)} /\ Lead(Blank) # Sign(c)
      BY BlankLead DEF Sign
    <2> QED
      BY <2>1, <2>2, BoardValues, WriteLead
  <1> QED
    BY <1>1, <1>2, <1>3, TapLead, NetworkLead, StepCases DEF Moves

(* When both players wait for their turn the colours alternate on the      *)
(* stored board (saveStones): neither player is ever two stones ahead,     *)
(* also after blanked boards and puts that are sent again.                 *)
THEOREM ColoursAlternate ==
  ASSUME Patient = Client
  PROVE  GameSpec => []StonesAlternate
  <1>1. Init => LeadInv
    BY InitLeadInv
  <1>2. MatchInv /\ LeadInv /\ [GameNext]_vars => LeadInv'
    BY NextLeadInv
  <1>3. LeadInv => StonesAlternate
    BY DEF LeadInv, Balanced, StonesAlternate
  <1> QED
    BY <1>1, <1>2, <1>3, Match, PTL DEF GameSpec
-----------------------------------------------------------------------------
(* Stones stay.  The puts on their way that bring stones, and what keeps   *)
(* the stones of a board.                                                  *)
Puts(c)     == Of(up[c], "put")
Laid(c)     == {m \in Puts(c) : m.val # Blank}
Keeps(x, y) == \A p \in Cells : x[p] # 0 => y[p] = x[p]

(* A player at its turn shows every stone stored; what is to come after a  *)
(* board that is new to it has no other stones than that board; its put    *)
(* with stones is the only one, and takes back nothing stored.             *)
TurnStays(c) == InPlay(c) /\ Turn(c) => Keeps(server, View(c))
ComingStays(c) ==
  InPlay(c) /\ listens[c] =>
    \A a, v, w : Coming(c, a, v, w) /\ a # View(c) => Keeps(w, v)
LaidStays(c) ==
  \A m \in Laid(c) : Keeps(server, m.val) /\ \A n \in Laid(c) : m = n

(* While d's stone is on its way c neither has the turn nor is to be shown *)
(* anything new, and has no stone on its way; and if a blank board goes    *)
(* before the stone, c has been shown nothing but blank boards.            *)
Blanked(c) ==
  listens[c] => View(c) = Blank /\ \A v : Coming(c, v, v, v) => v = Blank
LaidAlone(c, d) ==
  /\ InPlay(c) /\ Laid(d) # {} => ~Turn(c) /\ ~Upcoming(c)
  /\ Laid(c) = {} \/ Laid(d) = {}
  /\ \A m \in Puts(d), n \in Laid(d) :
       m.val = Blank /\ m.id < n.id => server = Blank /\ Blanked(c)

StayInv ==
  drops = 0 =>
    /\ \A c \in Client : TurnStays(c) /\ ComingStays(c) /\ LaidStays(c)
    /\ \A c, d \in Client : c # d => LaidAlone(c, d)

LEMMA BlankKept == \A y : Keeps(Blank, y)
  BY DEF Keeps, Blank

LEMMA PutsWritten ==
  ASSUME FlowInv, NEW c \in Client, NEW x \in Value,
         Write(c, x) \/ WriteThenListen(c, x)
  PROVE  /\ \E m : /\ m.val = x /\ Puts(c)' = Puts(c) \cup {m}
                   /\ \A n \in Puts(c) : ~(m.id < n.id)
         /\ \A d \in Client \ {c} : up'[d] = up[d]
         /\ UNCHANGED <<server, drops>>
  <1> DEFINE m == Put([id |-> nextId[c], val |-> x])
             s == Append(up[c], m)
  <1>1. TInv /\ OrderInv /\ Record(c, x)
    BY DEF FlowInv, OrderedInv, Write, WriteThenListen
  <1>2. /\ m \in UpMsg /\ m.val = x /\ m.id = nextId[c]
        /\ Of(s, "put") = Puts(c) \cup {m}
    BY <1>1, PutAppended DEF Puts, Put
  <1>3. /\ up'[c] = s \/ up'[c] = up[c] \o <<m, Ask>>
        /\ \A d \in Client \ {c} : up'[d] = up[d]
        /\ UNCHANGED <<server, drops>>
    BY <1>1 DEF Write, WriteThenListen, TInv, TypeOK
  <1>4. \A n \in Puts(c) : ~(m.id < n.id)
    <2> HIDE DEF m
    <2> QED
      BY <1>1, <1>2 DEF Puts, OrderInv, OrderInvOf, InLine, Sends, NewestPending,
         Unheld, Put, TInv, TypeOK, Write0
  <1> HIDE DEF m
  <1>5. s \in Seq(UpMsg) /\ up[c] \o <<m, Ask>> = Append(s, Ask)
    BY <1>1, <1>2 DEF TInv, TypeOK, Ask, UpMsg
  <1> HIDE DEF s
  <1>6. Of(up'[c], "put") = Puts(c) \cup {m}
    BY <1>2, <1>3, <1>5, AskAppended
  <1> QED
    BY <1>2, <1>3, <1>4, <1>6 DEF Puts

LEMMA PutsServed ==
  ASSUME FlowInv, NEW c \in Client, ServerPut(c)
  PROVE  /\ Puts(c) = Puts(c)' \cup {Head(up[c])}
         /\ \A n \in Puts(c)' : Head(up[c]).id < n.id
         /\ \A d \in Client \ {c} : up'[d] = up[d]
         /\ server' = Head(up[c]).val
         /\ UNCHANGED <<clientVars, events, seen, drops>>
  <1>1. /\ up[c] \in Seq(UpMsg) /\ up[c] # <<>> /\ Head(up[c]).op = "put"
        /\ up'[c] = Tail(up[c]) /\ Rising(up[c], "put")
        /\ \A d \in Client \ {c} : up'[d] = up[d]
        /\ server' = Head(up[c]).val
        /\ UNCHANGED <<clientVars, events, seen, drops>>
    BY DEF ServerPut, FlowInv, OrderedInv, TInv, TypeOK, OrderInv, OrderInvOf, InLine
  <1>2. /\ Of(up[c], "put") = Of(Tail(up[c]), "put") \cup {Head(up[c])}
        /\ \A m \in Of(Tail(up[c]), "put") : Head(up[c]).id < m.id
    BY <1>1, OfTail
  <1> QED
    BY <1>1, <1>2 DEF Puts

LEMMA PutsKept ==
  ASSUME FlowInv, NEW c \in Client, NetStep(c), ~ServerPut(c), drops' = drops
  PROVE  UNCHANGED server /\ \A d \in Client : Puts(d)' = Puts(d)
  <1> USE DEF FlowInv, OrderedInv, TInv, TypeOK
  <1>1. CASE ServerListen(c)
    <2>1. /\ up[c] \in Seq(UpMsg) /\ up[c] # <<>> /\ Head(up[c]).op # "put"
          /\ up'[c] = Tail(up[c]) /\ UNCHANGED server
          /\ \A d \in Client \ {c} : up'[d] = up[d]
      BY <1>1 DEF ServerListen
    <2>2. Of(Tail(up[c]), "put") = Of(up[c], "put")
      BY <2>1, OtherKind
    <2> QED
      BY <2>1, <2>2 DEF Puts
  <1>2. CASE Receive(c) \/ OtherListen(c) \/ OtherListened(c)
    BY <1>2 DEF Receive, ReceiveData, ReceiveAck, ReceiveListened, OtherListen,
       OtherListened, netVars, Puts
  <1>3. ~Reconnect(c)
    BY DEF Reconnect
  <1> QED
    BY <1>1, <1>2, <1>3 DEF NetStep, ServerApply

LEMMA PutsPending ==
  ASSUME FlowInv, NEW c \in Client, NEW m \in Puts(c)
  PROVE  \E w \in pend[c] : m.val = w.val
  BY DEF Puts, Put, FlowInv, OrderedInv, OrderInv, OrderInvOf, InLine, Sends, Unheld

LEMMA BlankLaid == AllBlank => \A c \in Client : Laid(c) = {}
  BY DEF AllBlank, Bare, Laid, Puts, Of

(* A player that has the turn has no stone on its way.                     *)
LEMMA TurnLaid ==
  ASSUME MatchInv, TurnInv, NEW c \in Client, InPlay(c), Turn(c)
  PROVE  Laid(c) = {} /\ (Puts(c) # {} => AllBlank)
  <1>1. Puts(c) # {} => pend[c] # {}
    BY PutsPending DEF MatchInv
  <1>2. Puts(c) # {} => AllBlank
    BY <1>1 DEF TurnInv, Unpended
  <1> QED
    BY <1>2, BlankLaid DEF Laid

LEMMA InitStayInv == Init => StayInv
  <1> SUFFICES ASSUME Init PROVE StayInv
    OBVIOUS
  <1>1. \A c \in Client : ~Turn(c) /\ ~listens[c] /\ Puts(c) = {} /\ Laid(c) = {}
    BY OfEmpty DEF Init, NodeInit, Turn, Puts, Laid
  <1> QED
    BY <1>1 DEF StayInv, TurnStays, ComingStays, LaidStays, LaidAlone

(* Nothing changes for a player with what the others see of it.            *)
LEMMA KeptStays ==
  ASSUME NEW c \in Client, UNCHANGED server,
         View(c)' = View(c), listens'[c] = listens[c],
         Turn(c)' => Turn(c), InPlay(c)' => InPlay(c),
         \A a, v, w : Coming(c, a, v, w)' => Coming(c, a, v, w)
  PROVE  /\ TurnStays(c) => TurnStays(c)'
         /\ ComingStays(c) => ComingStays(c)'
         /\ Blanked(c) => Blanked(c)'
  <1>1. TurnStays(c) => TurnStays(c)'
    BY DEF TurnStays, Keeps
  <1>2. ComingStays(c) => ComingStays(c)'
    BY DEF ComingStays, Keeps
  <1>3. Blanked(c) => Blanked(c)'
    BY DEF Blanked
  <1> QED
    BY <1>1, <1>2, <1>3

LEMMA KeptLaid ==
  ASSUME NEW c \in Client, UNCHANGED server, Laid(c)' \subseteq Laid(c), LaidStays(c)
  PROVE  LaidStays(c)'
  BY DEF LaidStays, Keeps

(* A step that leaves the network and what is shown alone.                 *)
LEMMA SameStay ==
  ASSUME StayInv, UNCHANGED <<netVars, clientVars, drops>>,
         \A d \in Client : /\ View(d)' = View(d)
                           /\ Turn(d)' => Turn(d)
                           /\ InPlay(d)' => InPlay(d)
  PROVE  StayInv'
  <1>1. UNCHANGED <<server, up, down, cache, listens, drops>>
    BY DEF netVars, clientVars
  <1>2. \A d \in Client : \A a, v, w : Coming(d, a, v, w)' <=> Coming(d, a, v, w)
    BY <1>1, SameComing
  <1>3. \A d \in Client : Puts(d)' = Puts(d) /\ Laid(d)' = Laid(d)
    BY <1>1 DEF Puts, Laid
  <1>4. \A d \in Client : Upcoming(d)' => Upcoming(d)
    BY <1>1, <1>2 DEF Upcoming
  <1>5. SUFFICES ASSUME drops = 0
                 PROVE  /\ \A c \in Client :
                             TurnStays(c)' /\ ComingStays(c)' /\ LaidStays(c)'
                        /\ \A c, d \in Client : c # d => LaidAlone(c, d)'
    BY <1>1 DEF StayInv
  <1>6. ASSUME NEW c \in Client
        PROVE  TurnStays(c)' /\ ComingStays(c)' /\ LaidStays(c)'
    BY <1>1, <1>2, <1>3, <1>5, KeptStays, KeptLaid DEF StayInv
  <1>7. ASSUME NEW c \in Client, NEW d \in Client, c # d
        PROVE  LaidAlone(c, d)'
    <2>1. LaidAlone(c, d) /\ (Blanked(c) => Blanked(c)')
      BY <1>1, <1>2, <1>5, <1>7, KeptStays DEF StayInv
    <2> QED
      BY <1>1, <1>3, <1>4, <2>1 DEF LaidAlone
  <1> QED
    BY <1>6, <1>7

(* A player that enters the match or ends it writes a blank board: behind  *)
(* its own stone, and while nobody's turn rests on what it shows.          *)
LEMMA BlankStay ==
  ASSUME MatchInv, TurnInv, StayInv, NEW c \in Client,
         Write(c, Blank) \/ WriteThenListen(c, Blank),
         InPlay(c)' /\ Turn(c)' => AllBlank,
         \A d \in Client \ {c} : Aside(d)
  PROVE  StayInv'
  <1>1. PICK m : /\ m.val = Blank /\ Puts(c)' = Puts(c) \cup {m}
                 /\ \A n \in Puts(c) : ~(m.id < n.id)
    BY PutsWritten, BoardValues DEF MatchInv
  <1>2. /\ \A d \in Client \ {c} : up'[d] = up[d]
        /\ UNCHANGED <<server, drops, down, cache>> /\ View(c)' = Blank
    BY PutsWritten, WriteAside, BoardValues DEF MatchInv
  <1>3. \A d \in Client : \A a, v, w :
          /\ d = c => ~Coming(d, a, v, w)'
          /\ d # c => (Coming(d, a, v, w)' <=> Coming(d, a, v, w))
    BY WriteComing, BoardValues DEF MatchInv
  <1>4. \A d \in Client : /\ d = c => ~Upcoming(d)'
                          /\ d # c => (Upcoming(d)' <=> Upcoming(d))
    BY WriteUpcoming, BoardValues DEF MatchInv
  <1>5. \A d \in Client \ {c} :
          /\ View(d)' = View(d) /\ (Turn(d)' <=> Turn(d))
          /\ (InPlay(d)' <=> InPlay(d)) /\ listens'[d] = listens[d]
    BY AsideKeeps DEF Aside
  <1>6. \A d \in Client : Laid(d)' = Laid(d)
    BY <1>1, <1>2 DEF Laid, Puts
  <1>7. \A d \in Client \ {c} : Puts(d)' = Puts(d)
    BY <1>2 DEF Puts
  <1>8. SUFFICES ASSUME drops = 0
                 PROVE  /\ \A e \in Client :
                             TurnStays(e)' /\ ComingStays(e)' /\ LaidStays(e)'
                        /\ \A e, f \in Client : e # f => LaidAlone(e, f)'
    BY <1>2 DEF StayInv
  <1>9. AllBlank => server = Blank /\ \A d \in Client : Laid(d) = {}
    BY BlankLaid DEF AllBlank
  <1>10. TurnStays(c)' /\ ComingStays(c)'
    <2>1. TurnStays(c)'
      BY <1>2, <1>9, BlankKept DEF TurnStays
    <2>2. ComingStays(c)'
      BY <1>3 DEF ComingStays
    <2> QED
      BY <2>1, <2>2
  <1>11. ASSUME NEW e \in Client
         PROVE  TurnStays(e)' /\ ComingStays(e)' /\ LaidStays(e)'
    <2>1. LaidStays(e)'
      BY <1>2, <1>6, <1>8, KeptLaid DEF StayInv
    <2>2. CASE e # c
      BY <1>2, <1>3, <1>5, <1>8, <2>1, <2>2, KeptStays DEF StayInv
    <2> QED
      BY <1>10, <2>1, <2>2
  <1>12. ASSUME NEW e \in Client, NEW f \in Client, e # f
         PROVE  LaidAlone(e, f)'
    <2>1. LaidAlone(e, f)
      BY <1>8, <1>12 DEF StayInv
    <2>2. CASE e = c
      <3>1. Blanked(c)'
        BY <1>2, <1>3 DEF Blanked
      <3>2. Puts(f)' = Puts(f) /\ f # c
        BY <1>7, <1>12, <2>2
      <3> QED
        BY <1>2, <1>4, <1>6, <1>9, <2>1, <2>2, <3>1, <3>2 DEF LaidAlone
    <2>3. CASE f = c
      <3>1. Blanked(e) => Blanked(e)'
        BY <1>2, <1>3, <1>5, <1>12, <2>3, KeptStays
      <3>2. \A k \in Puts(c)', n \in Laid(c) : k.id < n.id => k \in Puts(c)
        BY <1>1 DEF Laid
      <3> QED
        BY <1>2, <1>4, <1>5, <1>6, <1>12, <2>1, <2>3, <3>1, <3>2 DEF LaidAlone
    <2>4. CASE e # c /\ f # c
      BY <1>12, <2>4, PlayersAssumption
    <2> QED
      BY <2>2, <2>3, <2>4
  <1> QED
    BY <1>11, <1>12

(* A tap: the stone goes on a board that has every stone stored, and the   *)
(* tapper alone has one on its way.                                        *)
LEMMA TapStay ==
  ASSUME MatchInv, TurnInv, StayInv, Patient = Client,
         NEW c \in Client, NEW p \in Cells, Tap(c, p)
  PROVE  StayInv'
  <1> DEFINE x == firebaseData'[c]
  <1>1. /\ Write(c, x) /\ ~Turn(c)'
        /\ \A d \in Client \ {c} : Aside(d)
        /\ UNCHANGED <<screen, result>>
    BY TapAside
  <1>2. /\ Turn(c) /\ InPlay(c) /\ View(c) \in Boards /\ View(c)[p] = 0
        /\ x = [View(c) EXCEPT ![p] = ColourOf(c)] /\ x \in Value
    BY TapLays
  <1> HIDE DEF x
  <1>3. PICK m : /\ m.val = x /\ Puts(c)' = Puts(c) \cup {m}
                 /\ \A n \in Puts(c) : ~(m.id < n.id)
    BY <1>1, <1>2, PutsWritten DEF MatchInv
  <1>4. /\ \A d \in Client \ {c} : up'[d] = up[d]
        /\ UNCHANGED <<server, drops>>
    BY <1>1, <1>2, PutsWritten DEF MatchInv
  <1>5. \A d \in Client : \A a, v, w :
          /\ d = c => ~Coming(d, a, v, w)'
          /\ d # c => (Coming(d, a, v, w)' <=> Coming(d, a, v, w))
    BY <1>1, <1>2, WriteComing DEF MatchInv
  <1>6. \A d \in Client \ {c} :
          /\ View(d)' = View(d) /\ (Turn(d)' <=> Turn(d))
          /\ (InPlay(d)' <=> InPlay(d)) /\ listens'[d] = listens[d]
    BY <1>1, AsideKeeps DEF Aside
  <1>7. \A d \in Client : /\ d = c => ~Upcoming(d)'
                          /\ d # c => (Upcoming(d)' <=> Upcoming(d))
    BY <1>1, <1>2, WriteUpcoming DEF MatchInv
  <1>8. \A d \in Client \ {c} : Puts(d)' = Puts(d) /\ Laid(d)' = Laid(d)
    BY <1>4 DEF Laid, Puts
  <1>9. SUFFICES ASSUME drops = 0
                 PROVE  /\ \A e \in Client :
                             TurnStays(e)' /\ ComingStays(e)' /\ LaidStays(e)'
                        /\ \A e, f \in Client : e # f => LaidAlone(e, f)'
    BY <1>4 DEF StayInv
  <1>10. Laid(c) = {} /\ (Puts(c) # {} => AllBlank)
    BY <1>2, TurnLaid
  <1>11. Laid(c)' \subseteq {m}
    BY <1>3, <1>10 DEF Laid
  <1>12. \A d \in Client \ {c} :
           /\ Laid(d) = {}
           /\ InPlay(d) => ~Turn(d) /\ ~Upcoming(d)
    <2>1. ASSUME NEW d \in Client \ {c}
          PROVE  LaidAlone(c, d) /\ Excludes(c, d)
      BY <1>9 DEF StayInv, TurnInv
    <2> QED
      BY <1>2, <2>1 DEF LaidAlone, Excludes
  <1>13. Keeps(server, x)
    <2>1. Keeps(server, View(c))
      BY <1>2, <1>9 DEF StayInv, TurnStays
    <2> QED
      BY <1>2, <2>1 DEF Keeps, Boards
  <1>14. ASSUME NEW e \in Client
         PROVE  TurnStays(e)' /\ ComingStays(e)' /\ LaidStays(e)'
    <2>1. CASE e = c
      <3>1. TurnStays(c)' /\ ComingStays(c)'
        BY <1>1, <1>5 DEF TurnStays, ComingStays
      <3>2. LaidStays(c)'
        BY <1>3, <1>4, <1>11, <1>13 DEF LaidStays, Keeps
      <3> QED
        BY <2>1, <3>1, <3>2
    <2>2. CASE e # c
      <3>1. TurnStays(e) /\ ComingStays(e) /\ LaidStays(e)
        BY <1>9 DEF StayInv
      <3>2. LaidStays(e)'
        BY <1>4, <1>8, <2>2, <3>1, KeptLaid
      <3> QED
        BY <1>4, <1>5, <1>6, <2>2, <3>1, <3>2, KeptStays
    <2> QED
      BY <2>1, <2>2
  <1>15. ASSUME NEW e \in Client, NEW f \in Client, e # f
         PROVE  LaidAlone(e, f)'
    <2>1. CASE e = c
      <3>1. Laid(f)' = {}
        BY <1>8, <1>12, <1>15, <2>1
      <3> QED
        BY <3>1 DEF LaidAlone
    <2>2. CASE f = c
      <3>1. InPlay(e)' => ~Turn(e)' /\ ~Upcoming(e)'
        BY <1>6, <1>7, <1>12, <1>15, <2>2
      <3>2. Laid(e)' = {}
        BY <1>8, <1>12, <1>15, <2>2
      <3>3. ASSUME NEW k \in Puts(c)', NEW n \in Laid(c)',
                   k.val = Blank, k.id < n.id
            PROVE  server' = Blank /\ Blanked(e)'
        <4>1. n = m /\ m.val # Blank
          BY <1>11 DEF Laid
        <4>2. Puts(c) # {}
          BY <1>3, <3>3, <4>1
        <4>3. AllBlank /\ e # c
          BY <1>10, <1>15, <2>2, <4>2
        <4>4. server' = Blank
          BY <1>4, <4>3 DEF AllBlank
        <4>5. Blanked(e)
          BY <4>3, BlankShows, BlankUpcoming DEF Blanked, Upcoming
        <4>6. Blanked(e)'
          BY <1>4, <1>5, <1>6, <4>3, <4>5, KeptStays
        <4> QED
          BY <4>4, <4>6
      <3> QED
        BY <2>2, <3>1, <3>2, <3>3 DEF LaidAlone
    <2>3. CASE e # c /\ f # c
      BY <1>15, <2>3, PlayersAssumption
    <2> QED
      BY <2>1, <2>2, <2>3
  <1> QED
    BY <1>14, <1>15

(* The server takes a put: one with stones is alone on its way, and one    *)
(* without leaves nothing to be kept.                                      *)
LEMMA PutStay ==
  ASSUME MatchInv, TurnInv, StayInv, NEW c \in Client, Network(c), ServerPut(c)
  PROVE  StayInv'
  <1> DEFINE m == Head(up[c])
             x == m.val
  <1>1. /\ Puts(c) = Puts(c)' \cup {m} /\ server' = x
        /\ \A n \in Puts(c)' : m.id < n.id
        /\ \A d \in Client \ {c} : up'[d] = up[d]
        /\ UNCHANGED <<clientVars, events, drops>>
    BY PutsServed DEF MatchInv
  <1>2. \A d \in Client : /\ View(d)' = View(d) /\ (Turn(d)' <=> Turn(d))
                          /\ InPlay(d)' <=> InPlay(d)
                          /\ listens'[d] = listens[d]
    BY <1>1 DEF Network, gameVars, turnVars, clientVars, View, Turn, InPlay
  <1>3. \A a, v, w : Coming(c, a, v, w)' => a = View(c) /\ v = View(c)
    BY OwnPutComing DEF MatchInv
  <1>4. ~Upcoming(c)'
    BY OwnPutUpcoming
  <1>5. \A d \in Client \ {c} : \A a, v, w : Coming(d, a, v, w)' =>
          \/ Coming(d, a, v, w)
          \/ w = x /\ ((a = x /\ v = x) \/ Coming(d, a, a, a))
    BY OtherPutComing DEF MatchInv
  <1>6. \A d \in Client \ {c} :
          Upcoming(d)' => Upcoming(d) \/ x # View(d)
    BY NetUpcoming
  <1> HIDE DEF m
  <1> HIDE DEF x
  <1>7. SUFFICES ASSUME drops = 0
                 PROVE  /\ \A e \in Client :
                             TurnStays(e)' /\ ComingStays(e)' /\ LaidStays(e)'
                        /\ \A e, f \in Client : e # f => LaidAlone(e, f)'
    BY <1>1 DEF StayInv
  <1>8. /\ \A e \in Client : TurnStays(e) /\ ComingStays(e) /\ LaidStays(e)
        /\ \A e, f \in Client : e # f => LaidAlone(e, f)
    BY <1>7 DEF StayInv
  <1>9. /\ \A d \in Client \ {c} : Puts(d)' = Puts(d) /\ Laid(d)' = Laid(d)
        /\ Laid(c)' \subseteq Laid(c)
    BY <1>1 DEF Laid, Puts
  <1>10. ComingStays(c)'
    BY <1>2, <1>3 DEF ComingStays
  <1>11. CASE x # Blank
    <2>1. m \in Laid(c)
      BY <1>1, <1>11 DEF Laid, x
    <2>2. Laid(c)' = {}
      <3>1. \A n \in Laid(c)' : n = m /\ m.id < m.id /\ m.id \in Nat
        <4>1. \A n \in Puts(c) : n.id \in Nat
          BY DEF Puts, Put, MatchInv, FlowInv, OrderedInv, OrderInv, OrderInvOf,
             InLine, Sends, Unheld, TInv, TypeOK, Write0
        <4> QED
          BY <1>1, <1>8, <1>9, <2>1, <4>1 DEF LaidStays, Laid
      <3> QED
        BY <3>1
    <2>3. \A d \in Client \ {c} : Laid(d) = {} /\ Laid(d)' = {}
      BY <1>8, <1>9, <2>1 DEF LaidAlone
    <2>4. \A d \in Client \ {c} : InPlay(d) => ~Turn(d) /\ ~Upcoming(d)
      BY <1>8, <2>1 DEF LaidAlone
    <2>5. ~(InPlay(c) /\ Turn(c))
      BY <2>1, TurnLaid
    <2>6. \A e \in Client : Laid(e)' = {}
      BY <2>2, <2>3
    <2>7. ASSUME NEW e \in Client
          PROVE  TurnStays(e)' /\ LaidStays(e)'
      <3>1. ~(InPlay(e) /\ Turn(e))
        BY <2>4, <2>5
      <3>2. ~(InPlay(e)' /\ Turn(e)')
        BY <1>2, <3>1
      <3> QED
        BY <2>6, <3>2 DEF TurnStays, LaidStays
    <2>8. ASSUME NEW d \in Client \ {c}
          PROVE  ComingStays(d)'
      <3> SUFFICES ASSUME InPlay(d), listens[d], NEW a, NEW v, NEW w,
                          Coming(d, a, v, w)', a # View(d)
                   PROVE  Keeps(w, v)
        BY <1>2 DEF ComingStays, Keeps
      <3>1. ~Coming(d, a, a, a)
        BY <2>4 DEF Upcoming
      <3>2. Coming(d, a, v, w) \/ (w = x /\ v = x)
        BY <1>5, <3>1
      <3>3. CASE Coming(d, a, v, w)
        BY <1>8, <3>3 DEF ComingStays
      <3>4. CASE w = x /\ v = x
        BY <3>4 DEF Keeps
      <3> QED
        BY <3>2, <3>3, <3>4
    <2>9. \A e, f \in Client : e # f => LaidAlone(e, f)'
      BY <2>6 DEF LaidAlone
    <2> QED
      BY <1>10, <2>7, <2>8, <2>9
  <1>12. CASE x = Blank
    <2>1. server' = Blank
      BY <1>1, <1>12
    <2>2. ASSUME NEW e \in Client
          PROVE  TurnStays(e)'
      BY <2>1, BlankKept DEF TurnStays
    <2>3. ASSUME NEW e \in Client
          PROVE  LaidStays(e)'
      <3>1. Laid(e)' \subseteq Laid(e)
        BY <1>9
      <3> QED
        BY <1>8, <2>1, <3>1, BlankKept DEF LaidStays
    <2>4. ASSUME NEW d \in Client \ {c}
          PROVE  ComingStays(d)'
      <3> SUFFICES ASSUME InPlay(d), listens[d], NEW a, NEW v, NEW w,
                          Coming(d, a, v, w)', a # View(d)
                   PROVE  Keeps(w, v)
        BY <1>2 DEF ComingStays, Keeps
      <3>1. Coming(d, a, v, w) \/ w = Blank
        BY <1>5, <1>12
      <3> QED
        BY <1>8, <3>1, BlankKept DEF ComingStays
    <2>5. ASSUME NEW d \in Client \ {c}
          PROVE  LaidAlone(c, d)'
      <3>1. LaidAlone(c, d)
        BY <1>8
      <3>2. Blanked(c) => Blanked(c)'
        BY <1>2, <1>3 DEF Blanked
      <3> QED
        BY <1>2, <1>4, <1>9, <2>1, <3>1, <3>2 DEF LaidAlone
    <2>6. ASSUME NEW d \in Client \ {c}
          PROVE  LaidAlone(d, c)'
      <3>1. LaidAlone(d, c)
        BY <1>8
      <3>2. Laid(c)' # {} => Blanked(d)
        BY <1>1, <1>9, <1>12, <3>1 DEF LaidAlone, Laid, x
      <3>3. Blanked(d) => Blanked(d)'
        BY <1>2, <1>5, <1>12 DEF Blanked
      <3>4. Blanked(d) /\ Upcoming(d)' => Upcoming(d)
        BY <1>2, <1>6, <1>12 DEF Blanked, Upcoming
      <3>5. Puts(c)' \subseteq Puts(c)
        BY <1>1
      <3> QED
        BY <1>2, <1>9, <2>1, <3>1, <3>2, <3>3, <3>4, <3>5 DEF LaidAlone
    <2>7. \A e, f \in Client : e # f => LaidAlone(e, f)'
      BY <2>5, <2>6, PlayersAssumption
    <2> QED
      BY <1>10, <2>2, <2>3, <2>4, <2>7
  <1> QED
    BY <1>11, <1>12

(* The other steps of the network bring nothing new; a player that is      *)
(* shown something is so while no stone of the other one is on its way.    *)
LEMMA NetStay ==
  ASSUME MatchInv, StayInv, NEW c \in Client, Network(c), ~ServerPut(c)
  PROVE  StayInv'
  <1>1. NetStep(c) /\ drops \in Nat
    BY DEF Network, MatchInv, FlowInv, OrderedInv, TInv, TypeOK
  <1>2. SUFFICES ASSUME drops' = 0
                 PROVE  /\ \A e \in Client :
                             TurnStays(e)' /\ ComingStays(e)' /\ LaidStays(e)'
                        /\ \A e, f \in Client : e # f => LaidAlone(e, f)'
    BY DEF StayInv
  <1>3. drops = 0
    BY <1>1, <1>2 DEF NetStep, ServerApply, ServerPut, ServerListen, Receive, ReceiveData,
       ReceiveAck, ReceiveListened, OtherListen, OtherListened, Reconnect
  <1>4. /\ \A e \in Client : TurnStays(e) /\ ComingStays(e) /\ LaidStays(e)
        /\ \A e, f \in Client : e # f => LaidAlone(e, f)
    BY <1>3 DEF StayInv
  <1>5. UNCHANGED server /\ \A d \in Client : Puts(d)' = Puts(d)
    BY <1>1, <1>2, <1>3, PutsKept DEF MatchInv
  <1>6. \A d \in Client : Laid(d)' = Laid(d)
    BY <1>5 DEF Laid
  <1>7. /\ UNCHANGED <<listens, screen, result>>
        /\ \A d \in Client \ {c} : Aside(d)
    BY NetAside
  <1>8. \A d \in Client : InPlay(d)' <=> InPlay(d)
    BY <1>7 DEF InPlay
  <1>9. \A d \in Client : \A a, v, w : Coming(d, a, v, w)' => Coming(d, a, v, w)
    BY <1>1, NetComing DEF MatchInv
  <1>10. \A d \in Client : Upcoming(d)' => Upcoming(d)
    BY NetUpcoming
  <1>11. \A d \in Client \ {c} : View(d)' = View(d) /\ (Turn(d)' => Turn(d))
    BY <1>7, AsideKeeps
  <1>12. \A e \in Client : LaidStays(e)'
    BY <1>4, <1>5, <1>6, KeptLaid
  <1>13. \A d \in Client \ {c} :
           TurnStays(d)' /\ ComingStays(d)' /\ (Blanked(d) => Blanked(d)')
    BY <1>4, <1>5, <1>7, <1>8, <1>9, <1>11, KeptStays
  <1>14. CASE View(c)' = View(c) /\ (Turn(c)' => Turn(c))
    <2>1. TurnStays(c)' /\ ComingStays(c)' /\ (Blanked(c) => Blanked(c)')
      BY <1>4, <1>5, <1>7, <1>8, <1>9, <1>14, KeptStays
    <2>2. ASSUME NEW e \in Client, NEW f \in Client, e # f
          PROVE  LaidAlone(e, f)'
      <3>1. LaidAlone(e, f) /\ (Turn(e)' => Turn(e)) /\ (Blanked(e) => Blanked(e)')
        BY <1>4, <1>11, <1>13, <1>14, <2>1, <2>2
      <3> QED
        BY <1>5, <1>6, <1>8, <1>10, <3>1 DEF LaidAlone
    <2> QED
      BY <1>12, <1>13, <2>1, <2>2
  <1>15. CASE listens[c] /\ View(c)' # View(c)
    <2>1. PICK x : x = View(c)'
      OBVIOUS
    <2>2. /\ Coming(c, x, x, x) /\ Coming(c, x, x, server)
          /\ \A a, v, w : Coming(c, a, v, w)' => Coming(c, x, v, w)
      BY <1>1, <1>5, <1>15, <2>1, ViewComing DEF MatchInv
    <2>3. Upcoming(c) /\ x # View(c)
      BY <1>15, <2>1, <2>2 DEF Upcoming
    <2>4. TurnStays(c)'
      <3>1. InPlay(c) => Keeps(server, x)
        BY <1>4, <1>15, <2>2, <2>3 DEF ComingStays
      <3> QED
        BY <1>5, <1>8, <2>1, <3>1 DEF TurnStays, Keeps
    <2>5. ComingStays(c)'
      <3>1. InPlay(c) => \A a, v, w : Coming(c, a, v, w)' => Keeps(w, v)
        BY <1>4, <1>15, <2>2, <2>3 DEF ComingStays
      <3> QED
        BY <1>8, <3>1 DEF ComingStays, Keeps
    <2>6. Blanked(c) => Blanked(c)'
      BY <1>9, <1>15, <2>1, <2>2 DEF Blanked
    <2>7. ASSUME NEW e \in Client, NEW f \in Client, e # f
          PROVE  LaidAlone(e, f)'
      <3>1. LaidAlone(e, f) /\ (Blanked(e) => Blanked(e)')
        BY <1>4, <1>13, <2>6, <2>7
      <3>2. e = c => ~InPlay(e) \/ Laid(f) = {}
        BY <2>3, <3>1 DEF LaidAlone
      <3>3. e # c => (Turn(e)' => Turn(e))
        BY <1>11
      <3> QED
        BY <1>5, <1>6, <1>8, <1>10, <3>1, <3>2, <3>3 DEF LaidAlone
    <2> QED
      BY <1>12, <1>13, <2>4, <2>5, <2>7
  <1>16. CASE ~listens[c]
    <2>1. ~Turn(c)' /\ ~listens'[c]
      BY <1>7, <1>16 DEF Turn
    <2>2. TurnStays(c)' /\ ComingStays(c)' /\ Blanked(c)' /\ ~Upcoming(c)'
      BY <2>1 DEF TurnStays, ComingStays, Blanked, Upcoming
    <2>3. ASSUME NEW e \in Client, NEW f \in Client, e # f
          PROVE  LaidAlone(e, f)'
      <3>1. LaidAlone(e, f) /\ (Turn(e)' => Turn(e)) /\ (Blanked(e) => Blanked(e)')
        BY <1>4, <1>11, <1>13, <2>1, <2>2, <2>3
      <3> QED
        BY <1>5, <1>6, <1>8, <1>10, <3>1 DEF LaidAlone
    <2> QED
      BY <1>12, <1>13, <2>2, <2>3
  <1> QED
    BY <1>14, <1>15, <1>16, NetTurn

LEMMA NextStayInv ==
  ASSUME Patient = Client, MatchInv, TurnInv, StayInv, [GameNext]_vars
  PROVE  StayInv'
  <1>1. CASE UNCHANGED vars \/ \E c \in Client : Apart(c)
    <2>1. UNCHANGED nodeVars /\ \A d \in Client : Aside(d)
      BY <1>1, ApartAside
    <2>2. \A d \in Client : /\ Turn(d)' => Turn(d)
                            /\ InPlay(d)' => InPlay(d)
                            /\ View(d)' = View(d)
      BY <2>1, AsideKeeps
    <2> QED
      BY <2>1, <2>2, SameStay DEF nodeVars
  <1>2. ASSUME NEW c \in Client, ObserveMap(c)
        PROVE  StayInv'
    <2>1. /\ UNCHANGED <<netVars, clientVars>>
          /\ \A d \in Client \ {c} : Aside(d)
          /\ View(c)' = View(c) /\ (Turn(c)' => Turn(c))
          /\ InPlay(c)' => InPlay(c)
      BY <1>2, ObserveAside
    <2>2. \A d \in Client : /\ Turn(d)' => Turn(d)
                            /\ InPlay(d)' => InPlay(d)
                            /\ View(d)' = View(d)
      BY <2>1, AsideKeeps
    <2>3. UNCHANGED drops
      BY <1>2 DEF ObserveMap, Deliver
    <2> QED
      BY <2>1, <2>2, <2>3, SameStay
  <1>3. ASSUME NEW c \in Client, Enter(c)
        PROVE  StayInv'
    <2>1. /\ WriteThenListen(c, Blank) /\ screen[c] = "lobby"
          /\ \A d \in Client \ {c} : Aside(d)
          /\ Turn(c)' <=> c # Challenger
      BY <1>3, EnterAside
    <2>2. Turn(c)' => AllBlank
      BY <2>1, PlayersAssumption DEF TurnInv, Waiting
    <2> QED
      BY <2>1, <2>2, BlankStay
  <1>4. ASSUME NEW c \in Client, Ends(c)
        PROVE  StayInv'
    <2>1. /\ Write(c, Blank) /\ ~InPlay(c)'
          /\ \A d \in Client \ {c} : Aside(d)
      BY <1>4, EndsAside
    <2> QED
      BY <2>1, BlankStay
  <1> QED
    BY <1>1, <1>2, <1>3, <1>4, TapStay, PutStay, NetStay, StepCases DEF Moves

(* Only a put at the server changes the stored board.                      *)
LEMMA StoredByPut ==
  ASSUME FlowInv, [Next]_nodeVars
  PROVE  server' = server \/ \E c \in Client : ServerPut(c)
  BY DEF Next, nodeVars, netVars, Write, WriteThenListen, Listen, NetStep,
     ServerApply, ServerListen, Receive, ReceiveData, ReceiveAck,
     ReceiveListened, OtherListen, OtherListened, Reconnect, Deliver

LEMMA StoredKeeps ==
  ASSUME MatchInv, StayInv, [GameNext]_vars, drops = 0, server' # Blank
  PROVE  Keeps(server, server')
  <1>1. CASE server' = server
    BY <1>1 DEF Keeps
  <1>2. ASSUME NEW c \in Client, ServerPut(c)
        PROVE  Keeps(server, server')
    <2>1. Head(up[c]) \in Puts(c) /\ server' = Head(up[c]).val
      BY <1>2, PutsServed DEF MatchInv
    <2>2. Head(up[c]) \in Laid(c)
      BY <2>1 DEF Laid
    <2>3. Keeps(server, Head(up[c]).val)
      BY <2>2 DEF StayInv, LaidStays
    <2> QED
      BY <2>1, <2>3
  <1>3. FlowInv /\ [Next]_nodeVars
    BY NodeSteps DEF MatchInv, GameInv
  <1>4. server' = server \/ \E c \in Client : ServerPut(c)
    BY <1>3, StoredByPut
  <1> QED
    BY <1>1, <1>2, <1>4

(* When both players wait for their turn no put takes a stone off the      *)
(* stored board, unless it blanks it, as long as no connection was lost    *)
(* and puts sent again (saveStones writes the whole board): for any size   *)
(* of the board, any clocks and any number of taps.                        *)
THEOREM StoredStonesStay ==
  ASSUME Patient = Client
  PROVE  GameSpec => StonesStay
  <1>1. Init => StayInv
    BY InitStayInv
  <1>2. MatchInv /\ TurnInv /\ StayInv /\ [GameNext]_vars => StayInv'
    BY NextStayInv
  <1>3. MatchInv /\ StayInv /\ [GameNext]_vars =>
          [drops = 0 /\ server' # Blank =>
             \A p \in Cells : server[p] # 0 => server'[p] = server[p]]_vars
    <2> SUFFICES ASSUME MatchInv, StayInv, [GameNext]_vars, drops = 0,
                        server' # Blank
                 PROVE  \A p \in Cells : server[p] # 0 => server'[p] = server[p]
      OBVIOUS
    <2>1. Keeps(server, server')
      BY StoredKeeps
    <2> QED
      BY <2>1 DEF Keeps
  <1> QED
    BY <1>1, <1>2, <1>3, Turns, PTL DEF GameSpec, StonesStay
=============================================================================
