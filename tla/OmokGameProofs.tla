--------------------------- MODULE OmokGameProofs ---------------------------
(* A match is a use of the shared location of FirebaseNode, whose theorems *)
(* therefore hold in it; its boards agree, known stones are kept, and a    *)
(* decided match shows its result, for any size of the board, any limits   *)
(* and any players, patient or not.                                        *)
EXTENDS OmokGame, FirebaseNodeDelivery, FiniteSetTheorems

(* Every step of the match is one of the database client, or none.         *)
LEMMA BoardValues == Blank \in Value /\ Value = Boards
  BY BoardAssumption DEF Blank, Boards, Colour

LEMMA Colours == \A c \in Client : ColourOf(c) \in Colour
  BY DEF ColourOf, Colour

LEMMA LaidBoard ==
  ASSUME GameTypeOK, NEW c \in Client, NEW p \in Cells, Tap(c, p)
  PROVE  /\ firebaseData' \in [Client -> Boards]
         /\ firebaseData'[c] \in Value
         /\ firebaseData'[c] = [firebaseData[c] EXCEPT ![p] = ColourOf(c)]
         /\ \A d \in Client : d # c => firebaseData'[d] = firebaseData[d]
  <1> DEFINE b == [firebaseData[c] EXCEPT ![p] = ColourOf(c)]
  <1>1. firebaseData[c] \in Boards
    BY DEF GameTypeOK, BoardOK
  <1>2. b \in Boards
    BY <1>1, Colours DEF Boards
  <1>3. firebaseData' = [firebaseData EXCEPT ![c] = b]
    BY DEF Tap
  <1> HIDE DEF b
  <1>4. /\ firebaseData' \in [Client -> Boards] /\ firebaseData'[c] = b
        /\ \A d \in Client : d # c => firebaseData'[d] = firebaseData[d]
    BY <1>2, <1>3 DEF GameTypeOK, BoardOK
  <1> QED
    BY <1>2, <1>4, BoardValues DEF b

LEMMA NodeSteps == GameTypeOK /\ [GameNext]_vars => [Next]_nodeVars
  <1> SUFFICES ASSUME GameTypeOK, [GameNext]_vars
               PROVE  [Next]_nodeVars
    OBVIOUS
  <1>1. CASE UNCHANGED vars
    BY <1>1 DEF vars
  <1>2. ASSUME NEW c \in Client, Enter(c) \/ TimeOver(c) \/ GameEnd(c)
        PROVE  Next
    BY <1>2, BoardValues DEF Enter, TimeOver, GameEnd, ResetBtn, Next
  <1>3. ASSUME NEW c \in Client, NEW p \in Cells, Tap(c, p)
        PROVE  Next
    <2>1. firebaseData'[c] \in Value
      BY <1>3, LaidBoard
    <2> QED
      BY <1>3, <2>1 DEF Tap, Next
  <1>4. ASSUME NEW c \in Client, ObserveMap(c) \/ Network(c)
        PROVE  Next
    BY <1>4 DEF ObserveMap, Network, Next
  <1>5. ASSUME NEW c \in Client, Tick(c) \/ ScoreReply(c) \/ ScoreCallback(c)
        PROVE  UNCHANGED nodeVars
    BY <1>5 DEF Tick, ScoreReply, ScoreCallback
  <1> QED
    BY <1>1, <1>2, <1>3, <1>4, <1>5 DEF GameNext
-----------------------------------------------------------------------------
LEMMA InitTypes == Init => GameTypeOK
  <1> SUFFICES ASSUME Init PROVE GameTypeOK
    OBVIOUS
  <1>1. TypeOK
    BY InitTInv DEF Init, TInv
  <1>2. TurnOK
    BY GameAssumption DEF Init, TurnOK
  <1>3. BoardOK
    BY BoardValues DEF Init, BoardOK
  <1>4. ScoreOK
    BY DEF Init, ScoreOK, Count0
  <1> QED
    BY <1>1, <1>2, <1>3, <1>4 DEF GameTypeOK

LEMMA VerdictRange == \A b : Verdict(b) \in {0, 1, 2}
  BY DEF Verdict

LEMMA NextTurnOK ==
  ASSUME GameTypeOK, [GameNext]_vars
  PROVE  TurnOK'
  <1> USE GameAssumption DEF GameTypeOK, TurnOK
  <1>1. CASE UNCHANGED <<screen, turnVars, clockVars>>
    BY <1>1 DEF turnVars, clockVars
  <1>2. ASSUME NEW c \in Client, Enter(c)
        PROVE  TurnOK'
    BY <1>2 DEF Enter, turnVars, StartsClock
  <1>3. ASSUME NEW c \in Client, ObserveMap(c)
        PROVE  TurnOK'
    BY <1>3 DEF ObserveMap, PassTurn
  <1>4. ASSUME NEW c \in Client, Tick(c)
        PROVE  TurnOK'
    BY <1>4 DEF Tick, turnVars
  <1>5. ASSUME NEW c \in Client, TimeOver(c)
        PROVE  TurnOK'
    BY <1>5 DEF TimeOver, turnVars
  <1>6. ASSUME NEW c \in Client, GameEnd(c)
        PROVE  TurnOK'
    BY <1>6 DEF GameEnd, turnVars, clockVars
  <1>7. CASE \/ UNCHANGED vars
             \/ \E c \in Client : \/ \E p \in Cells : Tap(c, p)
                                  \/ ScoreReply(c) \/ ScoreCallback(c)
                                  \/ Network(c)
    BY <1>1, <1>7 DEF vars, gameVars, Tap, ScoreReply, ScoreCallback, Network
  <1> QED
    BY <1>2, <1>3, <1>4, <1>5, <1>6, <1>7 DEF GameNext

(* The board a player observes, and what the judge makes of it.            *)
LEMMA Observed ==
  ASSUME GameTypeOK, NEW c \in Client, ObserveMap(c)
  PROVE  \E b \in Boards :
           /\ events[c] # <<>> /\ b = Head(events[c])
           /\ seen' = [seen EXCEPT ![c] = b]
           /\ events' = [events EXCEPT ![c] = Tail(@)]
           /\ face' = [face EXCEPT ![c] = Painted(c, b)]
           /\ enabled' = [enabled EXCEPT ![c] =
                            IF IsDraw(b) THEN {} ELSE @ \ News(c, b)]
           /\ binaryMap' = [binaryMap EXCEPT ![c] = b]
           /\ firebaseData' = [firebaseData EXCEPT ![c] = b]
           /\ Judge(c, b) /\ ShowResult(c, b)
           /\ UNCHANGED <<netVars, clientVars, drops, screen, ticking, score,
                          answers, vs, taps>>
  <1>1. events[c] # <<>> /\ events[c] \in Seq(Value)
    BY DEF ObserveMap, Deliver, GameTypeOK, TypeOK
  <1>2. Head(events[c]) \in Boards
    BY <1>1, TailFacts, BoardValues
  <1> QED
    BY <1>1, <1>2 DEF ObserveMap, Deliver, Refresh

LEMMA PaintedBoard ==
  ASSUME GameTypeOK, NEW c \in Client, NEW b \in Boards
  PROVE  Painted(c, b) \in Boards
  <1>1. face[c] \in Boards
    BY DEF GameTypeOK, BoardOK
  <1> QED
    BY <1>1 DEF Painted, Boards

LEMMA NextBoardOK ==
  ASSUME GameTypeOK, [GameNext]_vars
  PROVE  BoardOK'
  <1>1. ASSUME NEW c \in Client, NEW p \in Cells, Tap(c, p)
        PROVE  BoardOK'
    <2>1. firebaseData' \in [Client -> Boards]
      BY <1>1, LaidBoard
    <2> QED
      BY <1>1, <2>1 DEF Tap, GameTypeOK, BoardOK
  <1>2. ASSUME NEW c \in Client, ObserveMap(c)
        PROVE  BoardOK'
    <2> PICK b \in Boards :
          /\ face' = [face EXCEPT ![c] = Painted(c, b)]
          /\ enabled' = [enabled EXCEPT ![c] =
                           IF IsDraw(b) THEN {} ELSE @ \ News(c, b)]
          /\ binaryMap' = [binaryMap EXCEPT ![c] = b]
          /\ firebaseData' = [firebaseData EXCEPT ![c] = b]
          /\ Judge(c, b)
      BY <1>2, Observed
    <2>1. /\ binaryMap' \in [Client -> Boards] /\ face' \in [Client -> Boards]
          /\ firebaseData' \in [Client -> Boards]
      BY PaintedBoard DEF GameTypeOK, BoardOK
    <2>2. enabled' \in [Client -> SUBSET Cells]
      BY DEF GameTypeOK, BoardOK
    <2>3. winner' \in [Client -> BOOLEAN] /\ gameOver' \in [Client -> BOOLEAN]
      BY DEF Judge, GameTypeOK, BoardOK
    <2> QED
      BY <2>1, <2>2, <2>3 DEF BoardOK
  <1>3. ASSUME NEW c \in Client, TimeOver(c) \/ GameEnd(c)
        PROVE  BoardOK'
    <2>1. /\ ResetBtn(c)
          /\ \E e \in SUBSET Cells : enabled' = [enabled EXCEPT ![c] = e]
      BY <1>3 DEF TimeOver, GameEnd
    <2> QED
      BY <2>1, BoardValues DEF ResetBtn, GameTypeOK, BoardOK
  <1>4. CASE \/ UNCHANGED vars
             \/ \E c \in Client : \/ Enter(c) \/ Tick(c) \/ ScoreReply(c)
                                  \/ ScoreCallback(c) \/ Network(c)
    <2>1. UNCHANGED boardVars
      BY <1>4 DEF vars, gameVars, Enter, Tick, ScoreReply, ScoreCallback, Network
    <2> QED
      BY <2>1 DEF boardVars, GameTypeOK, BoardOK
  <1> QED
    BY <1>1, <1>2, <1>3, <1>4 DEF GameNext

LEMMA AskForType ==
  ASSUME GameTypeOK, NEW c \in Client, NEW won
  PROVE  /\ Outcome(won) \in Field
         /\ AskFor(c, Outcome(won)) => asks' \in [Client -> Seq(Field)]
  <1>1. Outcome(won) \in Field
    BY DEF Outcome, Field
  <1>2. asks[c] \in Seq(Field)
    BY DEF GameTypeOK, ScoreOK
  <1>3. Append(asks[c], Outcome(won)) \in Seq(Field)
    BY <1>1, <1>2, AppendFacts
  <1> QED
    BY <1>1, <1>3 DEF AskFor, GameTypeOK, ScoreOK

LEMMA NextScoreOK ==
  ASSUME GameTypeOK, [GameNext]_vars
  PROVE  ScoreOK'
  <1>1. ASSUME NEW c \in Client, NEW p \in Cells, Tap(c, p)
        PROVE  ScoreOK'
    <2>1. UNCHANGED <<result, creditVars, vs>>
      BY <1>1 DEF Tap
    <2>2. taps' \in Nat
      <3>1. taps \in Nat
        BY DEF GameTypeOK, ScoreOK
      <3>2. taps' = taps + 1
        BY <1>1 DEF Tap
      <3> QED
        BY <3>1, <3>2
    <2> QED
      BY <2>1, <2>2 DEF creditVars, GameTypeOK, ScoreOK
  <1>2. ASSUME NEW c \in Client, ObserveMap(c)
        PROVE  ScoreOK'
    <2>1. PICK b \in Boards :
            ShowResult(c, b) /\ UNCHANGED <<score, answers, vs, taps>>
      BY <1>2, Observed
    <2>2. /\ asks' \in [Client -> Seq(Field)]
          /\ result' \in [Client -> {"none", "empty", "draw", "win", "lose"}]
      BY <2>1, AskForType DEF ShowResult, GameTypeOK, ScoreOK, Field
    <2> QED
      BY <2>1, <2>2 DEF GameTypeOK, ScoreOK
  <1>3. ASSUME NEW c \in Client, TimeOver(c)
        PROVE  ScoreOK'
    <2>1. /\ asks' \in [Client -> Seq(Field)]
          /\ result' \in [Client -> {"none", "empty", "draw", "win", "lose"}]
      BY <1>3, AskForType DEF TimeOver, GameTypeOK, ScoreOK, Field
    <2> QED
      BY <1>3, <2>1 DEF TimeOver, ResetBtn, GameTypeOK, ScoreOK
  <1>4. ASSUME NEW c \in Client, GameEnd(c)
        PROVE  ScoreOK'
    BY <1>4 DEF GameEnd, ResetBtn, creditVars, GameTypeOK, ScoreOK
  <1>5. ASSUME NEW c \in Client, ScoreReply(c)
        PROVE  ScoreOK'
    <2> DEFINE q == asks[c]
               r == [i \in DOMAIN q |-> [field |-> q[i], count |-> score[c][q[i]]]]
    <2>1. q \in Seq(Field) /\ score[c] \in [Field -> Nat]
      BY DEF GameTypeOK, ScoreOK, Count0
    <2>2. r \in Seq(Answer0)
      <3>1. \A i \in DOMAIN q : q[i] \in Field /\ score[c][q[i]] \in Nat
        BY <2>1
      <3>2. Len(q) \in Nat /\ DOMAIN q = 1..Len(q)
        BY <2>1
      <3> HIDE DEF q
      <3> QED
        BY <3>1, <3>2 DEF Answer0
    <2>3. answers' = [answers EXCEPT ![c] = @ \o r]
      BY <1>5 DEF ScoreReply
    <2> HIDE DEF r
    <2>4. answers' \in [Client -> Seq(Answer0)]
      <3>1. answers[c] \in Seq(Answer0)
        BY DEF GameTypeOK, ScoreOK
      <3>2. answers[c] \o r \in Seq(Answer0)
        BY <2>2, <3>1
      <3> QED
        BY <2>3, <3>2 DEF GameTypeOK, ScoreOK
    <2>5. asks' = [asks EXCEPT ![c] = <<>>] /\ <<>> \in Seq(Field)
          /\ UNCHANGED <<result, score, vs, taps>>
      BY <1>5 DEF ScoreReply
    <2> QED
      BY <2>4, <2>5 DEF GameTypeOK, ScoreOK
  <1>6. ASSUME NEW c \in Client, ScoreCallback(c)
        PROVE  ScoreOK'
    <2> DEFINE a == Head(answers[c])
    <2>1. a \in Answer0 /\ Tail(answers[c]) \in Seq(Answer0)
      <3>1. answers[c] \in Seq(Answer0) /\ answers[c] # <<>>
        BY <1>6 DEF ScoreCallback, GameTypeOK, ScoreOK
      <3> QED
        BY <3>1, TailFacts
    <2> HIDE DEF a
    <2>2. score[c] \in Count0
      BY DEF GameTypeOK, ScoreOK
    <2>3. Credited(score[c], a) \in Count0
      BY <2>1, <2>2 DEF Credited, Count0, Answer0, Field
    <2> QED
      BY <1>6, <2>1, <2>3 DEF ScoreCallback, GameTypeOK, ScoreOK, a
  <1>7. CASE \/ UNCHANGED vars
             \/ \E c \in Client : Enter(c) \/ Tick(c) \/ Network(c)
    <2>1. UNCHANGED <<result, creditVars, vs, taps>>
      BY <1>7 DEF vars, gameVars, Enter, Tick, Network
    <2> QED
      BY <2>1 DEF creditVars, GameTypeOK, ScoreOK
  <1> QED
    BY <1>1, <1>2, <1>3, <1>4, <1>5, <1>6, <1>7 DEF GameNext

GameInv == GameTypeOK /\ TInv /\ NetInv /\ EventInv

LEMMA InitGameInv == Init => GameInv
  BY InitTypes, InitTInv, InitNetInv, InitEventInv DEF Init, GameInv

LEMMA NextGameInv == GameInv /\ [GameNext]_vars => GameInv'
  <1> SUFFICES ASSUME GameInv, [GameNext]_vars PROVE GameInv'
    OBVIOUS
  <1>1. [Next]_nodeVars
    BY NodeSteps DEF GameInv
  <1>2. TInv' /\ NetInv' /\ EventInv'
    BY <1>1, NextTInv, NextNetInv, NextEventInv DEF GameInv
  <1>3. TurnOK' /\ BoardOK' /\ ScoreOK'
    BY NextTurnOK, NextBoardOK, NextScoreOK DEF GameInv
  <1> QED
    BY <1>2, <1>3 DEF GameInv, GameTypeOK, TInv

LEMMA Playing == GameSpec => []GameInv
  BY InitGameInv, NextGameInv, PTL DEF GameSpec

(* The variables of the match keep their types, whoever taps what and when *)
(* (Map.swift, PlayGameVC.swift, Datas.swift).                             *)
THEOREM GameTypes == GameSpec => []GameTypeOK
  <1>1. GameInv => GameTypeOK
    BY DEF GameInv
  <1> QED
    BY <1>1, Playing, PTL

(* The match uses the database client only as FirebaseNode says: Map.init  *)
(* writes and listens, taps and resets write, the closure takes the events *)
(* one by one.                                                             *)
THEOREM MatchUsesDatabase == GameSpec => Spec
  <1>1. Init => NodeInit
    BY DEF Init
  <1>2. GameInv /\ [GameNext]_vars => [Next]_nodeVars
    BY NodeSteps DEF GameInv
  <1> QED
    BY <1>1, <1>2, Playing, PTL DEF GameSpec, Spec
-----------------------------------------------------------------------------
(* A stone a player knows of is never taken back or recoloured by its taps *)
(* (didTapBtns, observeMap): KnownStonesKept is inductive by itself.       *)
Kept(c) ==
  \A p \in Cells :
    binaryMap[c][p] # 0 => /\ face[c][p] = binaryMap[c][p]
                           /\ firebaseData[c][p] = binaryMap[c][p]
                           /\ p \notin enabled[c]

LEMMA UnchangedKept ==
  ASSUME NEW c \in Client, Kept(c), binaryMap'[c] = binaryMap[c],
         face'[c] = face[c], firebaseData'[c] = firebaseData[c],
         enabled'[c] = enabled[c]
  PROVE  Kept(c)'
  BY DEF Kept

LEMMA TapKept ==
  ASSUME GameTypeOK, NEW c \in Client, NEW p \in Cells, Tap(c, p), Kept(c)
  PROVE  Kept(c)'
  <1>1. /\ firebaseData'[c] = [firebaseData[c] EXCEPT ![p] = ColourOf(c)]
        /\ firebaseData[c] \in Boards /\ p \in enabled[c]
        /\ UNCHANGED <<binaryMap, face, enabled>>
    BY LaidBoard DEF Tap, MayTap, GameTypeOK, BoardOK
  <1> QED
    BY <1>1 DEF Kept, Boards

LEMMA ObserveKept ==
  ASSUME GameTypeOK, NEW c \in Client, ObserveMap(c), Kept(c)
  PROVE  Kept(c)'
  <1>1. PICK b \in Boards :
          /\ binaryMap'[c] = b /\ firebaseData'[c] = b
          /\ face'[c] = Painted(c, b)
          /\ enabled'[c] = IF IsDraw(b) THEN {} ELSE enabled[c] \ News(c, b)
    BY Observed DEF GameTypeOK, BoardOK
  <1>2. ASSUME NEW p \in Cells, b[p] # 0
        PROVE  face'[c][p] = b[p] /\ p \notin enabled'[c]
    BY <1>1, <1>2 DEF Kept, Painted, News
  <1> QED
    BY <1>1, <1>2 DEF Kept

LEMMA ResetKept ==
  ASSUME GameTypeOK, NEW c \in Client, ResetBtn(c)
  PROVE  Kept(c)'
  BY DEF ResetBtn, Kept, Blank, GameTypeOK, BoardOK

LEMMA NextKept ==
  ASSUME GameTypeOK, KnownStonesKept, [GameNext]_vars
  PROVE  KnownStonesKept'
  <1> SUFFICES ASSUME NEW d \in Client
               PROVE  Kept(d)'
    BY DEF KnownStonesKept, Kept
  <1>1. Kept(d)
    BY DEF KnownStonesKept, Kept
  <1>2. ASSUME NEW c \in Client, NEW p \in Cells, Tap(c, p)
        PROVE  Kept(d)'
    <2>1. CASE d = c
      BY <1>1, <1>2, <2>1, TapKept
    <2>2. CASE d # c
      BY <1>1, <1>2, <2>2, LaidBoard, UnchangedKept DEF Tap
    <2> QED
      BY <2>1, <2>2
  <1>3. ASSUME NEW c \in Client, ObserveMap(c)
        PROVE  Kept(d)'
    <2>1. CASE d = c
      BY <1>1, <1>3, <2>1, ObserveKept
    <2>2. CASE d # c
      BY <1>1, <1>3, <2>2, Observed, UnchangedKept DEF GameTypeOK, BoardOK
    <2> QED
      BY <2>1, <2>2
  <1>4. ASSUME NEW c \in Client, TimeOver(c) \/ GameEnd(c)
        PROVE  Kept(d)'
    <2>1. /\ ResetBtn(c)
          /\ \E e \in SUBSET Cells : enabled' = [enabled EXCEPT ![c] = e]
      BY <1>4 DEF TimeOver, GameEnd
    <2>2. CASE d = c
      BY <2>1, <2>2, ResetKept
    <2>3. CASE d # c
      BY <1>1, <2>1, <2>3, UnchangedKept DEF ResetBtn, GameTypeOK, BoardOK
    <2> QED
      BY <2>2, <2>3
  <1>5. CASE \/ UNCHANGED vars
             \/ \E c \in Client : \/ Enter(c) \/ Tick(c) \/ ScoreReply(c)
                                  \/ ScoreCallback(c) \/ Network(c)
    <2>1. UNCHANGED boardVars
      BY <1>5 DEF vars, gameVars, Enter, Tick, ScoreReply, ScoreCallback, Network
    <2> QED
      BY <1>1, <2>1, UnchangedKept DEF boardVars
  <1> QED
    BY <1>2, <1>3, <1>4, <1>5 DEF GameNext

(* A stone a player has been told of stays on its screen in its colour,    *)
(* its button stays dead, and the player's next write contains it.         *)
THEOREM StonesKept == GameSpec => []KnownStonesKept
  <1>1. Init => KnownStonesKept
    BY DEF Init, KnownStonesKept, Blank
  <1>2. GameInv /\ KnownStonesKept /\ [GameNext]_vars => KnownStonesKept'
    BY NextKept DEF GameInv
  <1> QED
    BY <1>1, <1>2, Playing, PTL DEF GameSpec
-----------------------------------------------------------------------------
(* A player in the lobby has seen nothing of the match, has no clock and no *)
(* board; one that entered observes, and when no event is queued, the board *)
(* it judges and the board it lays stones on are the one last observed.     *)
Abreast(c) ==
  /\ screen[c] = "lobby" <=> ~listens[c]
  /\ screen[c] = "lobby" => ~ticking[c]
  /\ listens[c] /\ events[c] = <<>> =>
       binaryMap[c] = seen[c] /\ firebaseData[c] = seen[c]

(* Abreast(d) is about nothing but these.                                  *)
LEMMA UnchangedAbreast ==
  ASSUME NEW d \in Client, Abreast(d),
         screen'[d] = screen[d], listens'[d] = listens[d],
         ticking'[d] = ticking[d], seen'[d] = seen[d],
         events'[d] = events[d] \/ events'[d] # <<>>,
         binaryMap'[d] = binaryMap[d], firebaseData'[d] = firebaseData[d]
  PROVE  Abreast(d)'
  BY DEF Abreast

(* A write queues an event, or shows what was shown already.               *)
LEMMA WriteShows ==
  ASSUME GameInv, NEW c \in Client, NEW v \in Value, Write(c, v)
  PROVE  /\ UNCHANGED <<listens, seen>>
         /\ \A d \in Client : d # c => events'[d] = events[d]
         /\ events'[c] = events[c] \/ events'[c] # <<>>
         /\ listens[c] /\ events'[c] = <<>> => events[c] = <<>> /\ seen[c] = v
  <1>1. events[c] \in Seq(Value) /\ events \in [Client -> Seq(Value)]
    BY DEF GameInv, TInv, TypeOK
  <1>2. Append(events[c], v) # <<>>
    BY <1>1
  <1>3. \/ events' = events
        \/ events' = [events EXCEPT ![c] = Append(@, v)]
    BY DEF Write, Raise
  <1>4. ASSUME listens[c], events'[c] = <<>>
        PROVE  events[c] = <<>> /\ seen[c] = v
    <2>1. events' = events
      BY <1>1, <1>2, <1>3, <1>4
    <2>2. View(c) = v
      <3>1. v # Null
        BY NullAssumption
      <3> QED
        BY <1>1, <1>2, <1>4, <3>1 DEF Write, Raise
    <2>3. events[c] = <<>> /\ LastOf(seen[c], events[c]) = View(c)
      BY <1>4, <2>1 DEF GameInv, EventInv, EventInvOf
    <2> QED
      BY <2>2, <2>3 DEF LastOf
  <1> QED
    BY <1>1, <1>2, <1>3, <1>4 DEF Write

LEMMA EnterAbreast ==
  ASSUME GameInv, NEW c \in Client, Enter(c), NEW d \in Client, Abreast(d)
  PROVE  Abreast(d)'
  <1>1. /\ screen' = [screen EXCEPT ![c] = "game"]
        /\ listens' = [listens EXCEPT ![c] = TRUE]
        /\ ticking' = [ticking EXCEPT ![c] = StartsClock(c)]
        /\ events' = [events EXCEPT ![c] = Append(@, Blank)]
        /\ UNCHANGED <<seen, boardVars>>
    BY DEF Enter, WriteThenListen
  <1>2. events[c] \in Seq(Value) /\ Append(events[c], Blank) # <<>>
    <2>1. events[c] \in Seq(Value)
      BY DEF GameInv, TInv, TypeOK
    <2> QED
      BY <2>1
  <1>3. CASE d = c
    BY <1>1, <1>2, <1>3 DEF GameInv, TInv, TypeOK, GameTypeOK, TurnOK, Abreast
  <1>4. CASE d # c
    BY <1>1, <1>4, UnchangedAbreast
       DEF GameInv, TInv, TypeOK, GameTypeOK, TurnOK, boardVars
  <1> QED
    BY <1>3, <1>4

LEMMA TapAbreast ==
  ASSUME GameInv, NEW c \in Client, NEW p \in Cells, Tap(c, p),
         NEW d \in Client, Abreast(d)
  PROVE  Abreast(d)'
  <1>1. /\ Write(c, firebaseData'[c]) /\ firebaseData'[c] \in Value
        /\ \A e \in Client : e # c => firebaseData'[e] = firebaseData[e]
        /\ UNCHANGED <<screen, ticking, binaryMap>>
    BY LaidBoard DEF Tap, clockVars, GameInv
  <1>2. CASE d # c
    BY <1>1, <1>2, WriteShows, UnchangedAbreast
  <1>3. CASE d = c
    BY <1>1, <1>3, WriteShows DEF Abreast
  <1> QED
    BY <1>2, <1>3

LEMMA ObserveAbreast ==
  ASSUME GameInv, NEW c \in Client, ObserveMap(c), NEW d \in Client, Abreast(d)
  PROVE  Abreast(d)'
  <1>1. PICK b \in Boards :
          /\ seen' = [seen EXCEPT ![c] = b]
          /\ events' = [events EXCEPT ![c] = Tail(@)]
          /\ binaryMap' = [binaryMap EXCEPT ![c] = b]
          /\ firebaseData' = [firebaseData EXCEPT ![c] = b]
          /\ UNCHANGED <<listens, screen, ticking>>
    BY Observed DEF GameInv, clientVars
  <1>2. CASE d = c
    BY <1>1, <1>2 DEF Abreast, GameInv, TInv, TypeOK, GameTypeOK, BoardOK
  <1>3. CASE d # c
    BY <1>1, <1>3, UnchangedAbreast
       DEF GameInv, TInv, TypeOK, GameTypeOK, BoardOK
  <1> QED
    BY <1>2, <1>3

LEMMA ResetAbreast ==
  ASSUME GameInv, NEW c \in Client, TimeOver(c) \/ GameEnd(c),
         NEW d \in Client, Abreast(d)
  PROVE  Abreast(d)'
  <1>1. /\ Write(c, Blank) /\ Blank \in Value
        /\ binaryMap' = [binaryMap EXCEPT ![c] = Blank]
        /\ firebaseData' = [firebaseData EXCEPT ![c] = Blank]
    BY BoardValues DEF TimeOver, GameEnd, ResetBtn
  <1>2. CASE d # c
    <2>1. screen'[d] = screen[d] /\ ticking'[d] = ticking[d]
      BY <1>2 DEF TimeOver, GameEnd, clockVars, GameInv, GameTypeOK, TurnOK
    <2> QED
      BY <1>1, <1>2, <2>1, WriteShows, UnchangedAbreast
         DEF GameInv, GameTypeOK, BoardOK
  <1>3. CASE d = c
    <2>1. binaryMap'[c] = Blank /\ firebaseData'[c] = Blank
      BY <1>1 DEF GameInv, GameTypeOK, BoardOK
    <2>2. /\ screen[c] # "lobby" /\ screen'[c] # "lobby"
      BY <1>3 DEF Abreast, TimeOver, GameEnd, GameInv, GameTypeOK, TurnOK
    <2> QED
      BY <1>1, <1>3, <2>1, <2>2, WriteShows DEF Abreast
  <1> QED
    BY <1>2, <1>3

LEMMA NetworkAbreast ==
  ASSUME GameInv, NEW c \in Client, Network(c), NEW d \in Client, Abreast(d)
  PROVE  Abreast(d)'
  <1>1. UNCHANGED <<screen, ticking, binaryMap, firebaseData>>
    BY DEF Network, gameVars, clockVars, boardVars
  <1>2. UNCHANGED <<listens, seen>>
    BY DEF Network, NetStep, ServerApply, ServerPut, ServerListen, Receive,
       ReceiveData, ReceiveAck, ReceiveListened, OtherListen, OtherListened,
       Reconnect, clientVars
  <1>3. events' = events \/ \E v : Raise(c, v)
    BY DEF Network, NetStep, ServerApply, ServerPut, ServerListen, Receive,
       ReceiveData, ReceiveAck, ReceiveListened, OtherListen, OtherListened,
       Reconnect
  <1>4. events'[d] = events[d] \/ events'[d] # <<>>
    <2>1. events \in [Client -> Seq(Value)]
      BY DEF GameInv, TInv, TypeOK
    <2>2. \A v : Append(events[c], v) # <<>>
      BY <2>1
    <2> QED
      BY <1>3, <2>1, <2>2 DEF Raise
  <1> QED
    BY <1>1, <1>2, <1>4, UnchangedAbreast

AbreastInv == \A c \in Client : Abreast(c)

LEMMA NextAbreastInv ==
  ASSUME GameInv, AbreastInv, [GameNext]_vars
  PROVE  AbreastInv'
  <1> SUFFICES ASSUME NEW d \in Client
               PROVE  Abreast(d)'
    BY DEF AbreastInv
  <1>1. CASE \/ UNCHANGED vars
             \/ \E c \in Client : Tick(c) \/ ScoreReply(c) \/ ScoreCallback(c)
    <2>1. UNCHANGED <<screen, listens, ticking, seen, events, binaryMap,
                      firebaseData>>
      BY <1>1 DEF vars, gameVars, clockVars, boardVars, nodeVars, clientVars,
         Tick, ScoreReply, ScoreCallback
    <2> QED
      BY <2>1, UnchangedAbreast DEF AbreastInv
  <1>2. CASE \E c \in Client : \/ Enter(c) \/ \E p \in Cells : Tap(c, p)
                              \/ ObserveMap(c) \/ TimeOver(c) \/ GameEnd(c)
                              \/ Network(c)
    BY <1>2, EnterAbreast, TapAbreast, ObserveAbreast, ResetAbreast,
       NetworkAbreast DEF AbreastInv
  <1> QED
    BY <1>1, <1>2 DEF GameNext

LEMMA Keeping == GameSpec => [](GameInv /\ AbreastInv)
  <1>1. Init => AbreastInv
    BY DEF Init, NodeInit, AbreastInv, Abreast
  <1>2. GameInv /\ AbreastInv /\ [GameNext]_vars => AbreastInv'
    BY NextAbreastInv
  <1> QED
    BY <1>1, <1>2, Playing, PTL DEF GameSpec

(* When a player that entered has nothing under way, the board it judges   *)
(* and the board of its next stone are the stored one (observeMap): the    *)
(* match inherits this from ObserversConverge.                             *)
THEOREM BoardsConverge == GameSpec => []BoardsAgree
  <1>1. AbreastInv /\ Converges => BoardsAgree
    BY DEF AbreastInv, Abreast, Converges, Quiet, BoardsAgree
  <1> QED
    BY <1>1, Keeping, MatchUsesDatabase, ObserversConverge, PTL
-----------------------------------------------------------------------------
(* The board of a player in the lobby is blank and undecided.              *)
Undecided(c) == screen[c] = "lobby" => binaryMap[c] = Blank /\ ~gameOver[c]

Shows(c) ==
  screen[c] = "game" /\ (IsDraw(binaryMap[c]) \/ gameOver[c])
    => result[c] # "none"

ResultInv == \A c \in Client : Undecided(c) /\ Shows(c)

LEMMA BlankIsNoDraw == ~IsDraw(Blank)
  <1>1. Stones(Blank, 0) = Cells
    BY DEF Stones, Blank
  <1>2. IsFiniteSet(Index)
    BY SizeAssumption, FS_Interval DEF Index
  <1>3. IsFiniteSet(Cells)
    BY <1>2, FS_Product DEF Cells
  <1>4. Cardinality(Cells) \in Nat
    BY <1>3, FS_CardinalityType
  <1> QED
    BY <1>1, <1>4, DrawAssumption, GameAssumption DEF IsDraw

LEMMA UnchangedResult ==
  ASSUME NEW d \in Client, Undecided(d), Shows(d), screen'[d] = screen[d],
         binaryMap'[d] = binaryMap[d], gameOver'[d] = gameOver[d],
         result'[d] = result[d]
  PROVE  Undecided(d)' /\ Shows(d)'
  BY DEF Undecided, Shows, IsDraw, Stones

LEMMA EnterResult ==
  ASSUME GameInv, NEW c \in Client, Enter(c),
         NEW d \in Client, Undecided(d), Shows(d)
  PROVE  Undecided(d)' /\ Shows(d)'
  <1>1. /\ screen[c] = "lobby" /\ screen' = [screen EXCEPT ![c] = "game"]
        /\ UNCHANGED <<binaryMap, gameOver, result>>
    BY DEF Enter, boardVars
  <1>2. CASE d = c
    <2>1. screen'[d] = "game" /\ ~gameOver'[d] /\ binaryMap'[d] = Blank
      BY <1>1, <1>2 DEF Undecided, GameInv, GameTypeOK, TurnOK
    <2>2. ~IsDraw(binaryMap'[d])
      BY <2>1, BlankIsNoDraw
    <2> QED
      BY <2>1, <2>2 DEF Undecided, Shows, IsDraw, Stones
  <1>3. CASE d # c
    BY <1>1, <1>3, UnchangedResult DEF GameInv, GameTypeOK, TurnOK
  <1> QED
    BY <1>2, <1>3

(* The board is judged and the result shown in one closure.                *)
LEMMA ObserveResult ==
  ASSUME GameInv, NEW c \in Client, ObserveMap(c), Abreast(c),
         NEW d \in Client, Undecided(d), Shows(d)
  PROVE  Undecided(d)' /\ Shows(d)'
  <1>1. PICK b \in Boards :
          /\ events[c] # <<>>
          /\ binaryMap' = [binaryMap EXCEPT ![c] = b]
          /\ Judge(c, b) /\ ShowResult(c, b) /\ UNCHANGED screen
    BY Observed DEF GameInv
  <1>2. screen[c] # "lobby"
    <2>1. listens[c]
      BY <1>1 DEF GameInv, EventInv, EventInvOf
    <2> QED
      BY <2>1 DEF Abreast
  <1>3. CASE d = c
    <2>1. binaryMap'[c] = b
      BY <1>1 DEF GameInv, GameTypeOK, BoardOK
    <2>2. IsDraw(b) \/ gameOver'[c] => result'[c] # "none"
      BY <1>1 DEF ShowResult, Outcome, GameInv, GameTypeOK, ScoreOK
    <2>3. IsDraw(binaryMap[c])' <=> IsDraw(b)
      BY <2>1 DEF IsDraw, Stones
    <2> QED
      BY <1>1, <1>2, <1>3, <2>2, <2>3 DEF Undecided, Shows
  <1>4. CASE d # c
    <2>1. binaryMap'[d] = binaryMap[d] /\ gameOver'[d] = gameOver[d]
      BY <1>1, <1>4 DEF Judge, GameInv, GameTypeOK, BoardOK
    <2>2. result'[d] = result[d]
      BY <1>1, <1>4 DEF ShowResult, GameInv, GameTypeOK, ScoreOK
    <2> QED
      BY <1>1, <2>1, <2>2, UnchangedResult
  <1> QED
    BY <1>3, <1>4

LEMMA ResetResult ==
  ASSUME GameInv, NEW c \in Client, TimeOver(c) \/ GameEnd(c), Abreast(c),
         NEW d \in Client, Undecided(d), Shows(d)
  PROVE  Undecided(d)' /\ Shows(d)'
  <1>1. CASE d = c
    <2>1. CASE TimeOver(c)
      <3>1. screen[c] # "lobby" /\ UNCHANGED screen
        BY <2>1 DEF TimeOver, Abreast
      <3>2. result'[c] # "none"
        BY <2>1 DEF TimeOver, Outcome, GameInv, GameTypeOK, ScoreOK
      <3> QED
        BY <1>1, <3>1, <3>2 DEF Undecided, Shows
    <2>2. CASE GameEnd(c)
      <3>1. screen'[c] = "back"
        BY <2>2 DEF GameEnd, GameInv, GameTypeOK, TurnOK
      <3> QED
        BY <1>1, <3>1 DEF Undecided, Shows
    <2> QED
      BY <2>1, <2>2
  <1>2. CASE d # c
    <2>1. screen'[d] = screen[d] /\ result'[d] = result[d]
      BY <1>2 DEF TimeOver, GameEnd, GameInv, GameTypeOK, TurnOK, ScoreOK
    <2>2. binaryMap'[d] = binaryMap[d] /\ gameOver'[d] = gameOver[d]
      BY <1>2 DEF TimeOver, GameEnd, ResetBtn, GameInv, GameTypeOK, BoardOK
    <2> QED
      BY <2>1, <2>2, UnchangedResult
  <1> QED
    BY <1>1, <1>2

LEMMA NextResultInv ==
  ASSUME GameInv, AbreastInv, ResultInv, [GameNext]_vars
  PROVE  ResultInv'
  <1> SUFFICES ASSUME NEW d \in Client
               PROVE  Undecided(d)' /\ Shows(d)'
    BY DEF ResultInv
  <1>1. CASE \/ UNCHANGED vars
             \/ \E c \in Client : \/ \E p \in Cells : Tap(c, p)
                                  \/ Tick(c) \/ ScoreReply(c)
                                  \/ ScoreCallback(c) \/ Network(c)
    <2>1. UNCHANGED <<screen, binaryMap, gameOver, result>>
      BY <1>1 DEF vars, gameVars, boardVars, Tap, Tick, ScoreReply,
         ScoreCallback, Network
    <2> QED
      BY <2>1, UnchangedResult DEF ResultInv
  <1>2. CASE \E c \in Client : \/ Enter(c) \/ ObserveMap(c)
                              \/ TimeOver(c) \/ GameEnd(c)
    BY <1>2, EnterResult, ObserveResult, ResetResult DEF ResultInv, AbreastInv
  <1> QED
    BY <1>1, <1>2 DEF GameNext

(* A full or decided board has its result, and with it the way out of the  *)
(* match, on the screen (observeMap, timeOver, gameEnd).                   *)
THEOREM ResultsAreShown == GameSpec => []ResultShown
  <1>1. Init => ResultInv
    BY DEF Init, ResultInv, Undecided, Shows
  <1>2. GameInv /\ AbreastInv /\ ResultInv /\ [GameNext]_vars => ResultInv'
    BY NextResultInv
  <1>3. ResultInv => ResultShown
    BY DEF ResultInv, Shows, ResultShown
  <1> QED
    BY <1>1, <1>2, <1>3, Keeping, PTL DEF GameSpec
=============================================================================
