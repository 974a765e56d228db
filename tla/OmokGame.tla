------------------------------ MODULE OmokGame ------------------------------
(***************************************************************************)
(* One match between two apps: Map.swift, the stones and globals of        *)
(* OmokDatas.swift, the clock of PlayGameVC.swift and the turn that both   *)
(* take from amIChallenger (Datas.swift).  The board is the one shared     *)
(* location game/map/<room> of module FirebaseNode; every handler of the   *)
(* app runs on the main thread and is one step.                            *)
(*                                                                         *)
(* The match starts when the challenge has been accepted (both users' "vs" *)
(* hold "ok") and each app is about to present its PlayGameVC.  The win    *)
(* and loss counts of the users are read and written at the server; no one *)
(* but their owner's app touches them, so their writes take effect at once *)
(* here, and so do the writes of "vs", which no handler of this module     *)
(* reads.                                                                  *)
(***************************************************************************)
EXTENDS FirebaseNode, CheckStones

CONSTANTS
  Challenger, Challenged,
  DrawLimit,   \* fewer empty cells than this are a draw (5)
  TimeLimit,   \* seconds of the clock (61)
  Clocked,     \* bound: the players whose clock runs in this run
  Playable,    \* bound: the cells the players tap
  MaxTaps,     \* bound: taps in the match
  Patient      \* bound: the players that wait for their turn by themselves

ASSUME PlayersAssumption ==
  Client = {Challenger, Challenged} /\ Challenger # Challenged
ASSUME BoardAssumption == Value = Boards
ASSUME GameAssumption ==
  /\ DrawLimit \in Nat /\ TimeLimit \in Nat \ {0} /\ MaxTaps \in Nat
  /\ Clocked \subseteq Client /\ Playable \subseteq Cells
  /\ Patient \subseteq Client
ASSUME DrawAssumption == DrawLimit <= Cardinality(Cells)

VARIABLES
  screen,        \* player -> "lobby", then "game", then "back" in the lobby
  amIChallenger, \* player -> the global that is toggled at every event
  timeOverLoser, \* player -> "me" or "vs": who loses if the clock runs out
  timeValue,     \* player -> seconds left on the clock
  ticking,       \* player -> is the timer valid?
  binaryMap,     \* player -> the board as last observed or reset
  firebaseData,  \* player -> the board the next tap is laid on
  face,          \* player -> the colours its buttons show
  enabled,       \* player -> the buttons that take taps
  winner,        \* player -> the global the judge sets
  gameOver,      \* player -> the other one
  result,        \* player -> what the result button shows, "none" if hidden
  score,         \* player -> the win and loss counts of its user record
  asks,          \* player -> reads of a count not yet answered
  answers,       \* player -> counts read, queued for the main thread
  vs,            \* player -> the "vs" field of its user record
  taps           \* taps so far

boardVars  == <<binaryMap, firebaseData, face, enabled, winner, gameOver>>
turnVars   == <<amIChallenger, timeOverLoser>>
clockVars  == <<timeValue, ticking>>
creditVars == <<score, asks, answers>>
gameVars   == <<screen, turnVars, clockVars, boardVars, result, creditVars,
                vs, taps>>
vars       == <<nodeVars, gameVars>>

Field  == {"win", "lose"}
Count0 == [Field -> Nat]
Answer0 == [field : Field, count : Nat]

(* The colour of a player's stones.  Mutants: firstAmI is never cleared;   *)
(* the colours are off by one.                                             *)
ColourAlwaysOne(c) == 1
ColourShifted(c) == IF c = Challenger THEN 2 ELSE 3
ColourOf(c) == IF c = Challenger THEN 1 ELSE 2

(* The player holds the turn, as the highlight on its screen tells (myTurn)*)
MyTurn(c) == timeOverLoser[c] = "me"

Init ==
  /\ NodeInit
  /\ server = Blank
  /\ screen        = [c \in Client |-> "lobby"]
  /\ amIChallenger = [c \in Client |-> c = Challenger]
  /\ timeOverLoser = [c \in Client |-> "none"]
  /\ timeValue     = [c \in Client |-> TimeLimit]
  /\ ticking       = [c \in Client |-> FALSE]
  /\ binaryMap     = [c \in Client |-> Blank]
  /\ firebaseData  = [c \in Client |-> Blank]
  /\ face          = [c \in Client |-> Blank]
  /\ enabled       = [c \in Client |-> Cells]
  /\ winner        = [c \in Client |-> FALSE]
  /\ gameOver      = [c \in Client |-> FALSE]
  /\ result        = [c \in Client |-> "none"]
  /\ score         = [c \in Client |-> [f \in Field |-> 0]]
  /\ asks          = [c \in Client |-> <<>>]
  /\ answers       = [c \in Client |-> <<>>]
  /\ vs            = [c \in Client |-> "ok"]
  /\ taps          = 0
-----------------------------------------------------------------------------
(* The timer viewDidLoad schedules; the mutant runs only one player's.     *)
ClockOfOther(c) == c = Challenged
StartsClock(c) == c \in Clocked

(* PlayGameVC is presented: viewDidLoad starts the clock, the board's cell *)
(* forces Map.init, which blanks the room and observes it.                 *)
Enter(c) ==
  /\ screen[c] = "lobby"
  /\ screen'  = [screen EXCEPT ![c] = "game"]
  /\ ticking' = [ticking EXCEPT ![c] = StartsClock(c)]
  /\ WriteThenListen(c, Blank)
  /\ UNCHANGED <<turnVars, timeValue, boardVars, result, creditVars, vs, taps>>

(* didTapBtns and saveStones.  The turn is handed over only as a number to *)
(* print; a Patient player looks at the highlight, and taps only    *)
(* once its screen has caught up with the events it was sent.              *)
MayTap(c, p) ==
  /\ screen[c] = "game" /\ seen[c] # Null /\ result[c] = "none"
  /\ p \in enabled[c]

Tap(c, p) ==
  /\ MayTap(c, p)
  /\ taps < MaxTaps /\ p \in Playable
  /\ c \in Patient => MyTurn(c) /\ events[c] = <<>>
  /\ taps' = taps + 1
  /\ firebaseData' = [firebaseData EXCEPT ![c][p] = ColourOf(c)]
  /\ Write(c, firebaseData'[c])
  /\ UNCHANGED <<screen, turnVars, clockVars, binaryMap, face, enabled, winner,
                 gameOver, result, creditVars, vs>>
-----------------------------------------------------------------------------
(* amIChallenger.toggle(): its willSet tells PlayGameVC, whose myTurn      *)
(* restarts the clock's count.                                             *)
PassTurn(c) ==
  /\ amIChallenger' = [amIChallenger EXCEPT ![c] = ~@]
  /\ timeOverLoser' =
       [timeOverLoser EXCEPT ![c] = IF amIChallenger[c] THEN "vs" ELSE "me"]
  /\ timeValue' = [timeValue EXCEPT ![c] = TimeLimit]

(* checkStones: without a line the two globals keep what they had.         *)
Judge(c, b) ==
  LET v == Verdict(b)
  IN /\ winner'   = [winner EXCEPT ![c] = IF v = 0 THEN @ ELSE v = 2]
     /\ gameOver' = [gameOver EXCEPT ![c] = v # 0 \/ @]

(* The cells whose value in b is news to player c; the mutant compares b   *)
(* with the board the player lays its stones on.                           *)
NewsToLaid(c, b) == {p \in Cells : b[p] # firebaseData[c][p]}
News(c, b) == {p \in Cells : b[p] # binaryMap[c][p]}

(* A stone colours the button; a cell that becomes empty keeps its colour. *)
Painted(c, b) ==
  [p \in Cells |-> IF p \in News(c, b) /\ b[p] # 0 THEN b[p] ELSE face[c][p]]

IsDraw(b) == Cardinality(Stones(b, 0)) < DrawLimit

(* The read of a count that showing a result starts.                       *)
Outcome(won)    == IF won THEN "win" ELSE "lose"
AskFor(c, field) == asks' = [asks EXCEPT ![c] = Append(@, field)]

(* Mutants of ShowResult: a draw shows nothing; the result is looked at    *)
(* before the board is judged.                                             *)
ShowNoDraw(c, b) ==
  \/ /\ gameOver'[c]
     /\ result' = [result EXCEPT ![c] = Outcome(winner'[c])]
     /\ AskFor(c, Outcome(winner'[c]))
  \/ /\ ~gameOver'[c]
     /\ UNCHANGED <<result, asks>>
ShowBeforeJudging(c, b) ==
  \/ /\ IsDraw(b)
     /\ result' = [result EXCEPT ![c] = "draw"]
     /\ UNCHANGED asks
  \/ /\ ~IsDraw(b) /\ gameOver[c]
     /\ result' = [result EXCEPT ![c] = Outcome(winner[c])]
     /\ AskFor(c, Outcome(winner[c]))
  \/ /\ ~IsDraw(b) /\ ~gameOver[c]
     /\ UNCHANGED <<result, asks>>

(* What the closure shows once the board is judged.                        *)
ShowResult(c, b) ==
  \/ /\ IsDraw(b)
     /\ result' = [result EXCEPT ![c] = "draw"]
     /\ UNCHANGED asks
  \/ /\ ~IsDraw(b) /\ gameOver'[c]
     /\ result' = [result EXCEPT ![c] = Outcome(winner'[c])]
     /\ AskFor(c, Outcome(winner'[c]))
  \/ /\ ~IsDraw(b) /\ ~gameOver'[c]
     /\ UNCHANGED <<result, asks>>

(* Both boards of the player are replaced; the mutant forgets the one the  *)
(* next stone is laid on.                                                  *)
RefreshJudged(c, b) ==
  /\ binaryMap' = [binaryMap EXCEPT ![c] = b]
  /\ UNCHANGED firebaseData
Refresh(c, b) ==
  /\ binaryMap'    = [binaryMap EXCEPT ![c] = b]
  /\ firebaseData' = [firebaseData EXCEPT ![c] = b]

(* observeMap's closure, called with the oldest queued board.              *)
ObserveMap(c) ==
  /\ Deliver(c)
  /\ LET b == Head(events[c])
     IN /\ face'    = [face EXCEPT ![c] = Painted(c, b)]
        /\ enabled' = [enabled EXCEPT ![c] =
                         IF IsDraw(b) THEN {} ELSE @ \ News(c, b)]
        /\ Refresh(c, b)
        /\ Judge(c, b)
        /\ ShowResult(c, b)
  /\ PassTurn(c)
  /\ UNCHANGED <<screen, ticking, score, answers, vs, taps>>
-----------------------------------------------------------------------------
(* resetBtn, but for which buttons end up enabled and whether the result   *)
(* button is shown: its two callers go on to set these.                    *)
ResetBtn(c) ==
  /\ face'         = [face EXCEPT ![c] = Blank]
  /\ winner'       = [winner EXCEPT ![c] = FALSE]
  /\ gameOver'     = [gameOver EXCEPT ![c] = FALSE]
  /\ binaryMap'    = [binaryMap EXCEPT ![c] = Blank]
  /\ firebaseData' = [firebaseData EXCEPT ![c] = Blank]
  /\ Write(c, Blank)
  /\ vs' = [d \in Client |-> ""]

(* One second passes; the timer goes on in the lobby if no one stopped it. *)
Tick(c) ==
  /\ ticking[c] /\ timeValue[c] > 1
  /\ timeValue' = [timeValue EXCEPT ![c] = @ - 1]
  /\ UNCHANGED <<nodeVars, screen, turnVars, ticking, boardVars, result,
                 creditVars, vs, taps>>

(* The last second: the timer stops, the board is reset, timeOver disables *)
(* the buttons and shows the result.                                       *)
TimeOver(c) ==
  /\ ticking[c] /\ timeValue[c] = 1
  /\ timeValue' = [timeValue EXCEPT ![c] = 0]
  /\ ticking' = [ticking EXCEPT ![c] = FALSE]
  /\ ResetBtn(c)
  /\ enabled' = [enabled EXCEPT ![c] = {}]
  /\ \/ /\ timeOverLoser[c] = "none"
        /\ result' = [result EXCEPT ![c] = "empty"]
        /\ UNCHANGED asks
     \/ /\ timeOverLoser[c] # "none"
        /\ result' = [result EXCEPT ![c] = Outcome(~MyTurn(c))]
        /\ AskFor(c, Outcome(~MyTurn(c)))
  /\ UNCHANGED <<screen, turnVars, score, answers, taps>>

(* The player taps the result: gameEnd resets the board and dismisses.     *)
GameEnd(c) ==
  /\ screen[c] = "game" /\ result[c] # "none"
  /\ screen'  = [screen EXCEPT ![c] = "back"]
  /\ result'  = [result EXCEPT ![c] = "none"]
  /\ ResetBtn(c)
  /\ enabled' = [enabled EXCEPT ![c] = Cells]
  /\ UNCHANGED <<turnVars, clockVars, creditVars, taps>>
-----------------------------------------------------------------------------
(* The server answers every outstanding read of player c's counts.         *)
ScoreReply(c) ==
  /\ asks[c] # <<>>
  /\ asks' = [asks EXCEPT ![c] = <<>>]
  /\ answers' = [answers EXCEPT ![c] =
       @ \o [i \in DOMAIN asks[c] |->
               [field |-> asks[c][i], count |-> score[c][asks[c][i]]]]]
  /\ UNCHANGED <<nodeVars, screen, turnVars, clockVars, boardVars, result,
                 score, vs, taps>>

(* The two callbacks of observeSingleEvent.  The one for a win adds one to *)
(* the count it read; the one for a loss adds only if there is no count.   *)
Credited(s, a) ==
  IF a.field = "win" THEN [s EXCEPT !["win"] = a.count + 1] ELSE s

ScoreCallback(c) ==
  /\ answers[c] # <<>>
  /\ score'   = [score EXCEPT ![c] = Credited(@, Head(answers[c]))]
  /\ answers' = [answers EXCEPT ![c] = Tail(@)]
  /\ UNCHANGED <<nodeVars, screen, turnVars, clockVars, boardVars, result,
                 asks, vs, taps>>

Network(c) == NetStep(c) /\ UNCHANGED gameVars
-----------------------------------------------------------------------------
GameNext ==
  \E c \in Client :
    \/ Enter(c)
    \/ \E p \in Cells : Tap(c, p)
    \/ ObserveMap(c)
    \/ Tick(c) \/ TimeOver(c) \/ GameEnd(c)
    \/ ScoreReply(c) \/ ScoreCallback(c)
    \/ Network(c)

GameSpec == Init /\ [][GameNext]_vars

(* Timers fire, the main thread runs, the network delivers; a player need  *)
(* neither tap a cell nor close the result.                                *)
GameFairness ==
  \A c \in Client :
    /\ WF_vars(ServerApply(c) /\ UNCHANGED gameVars)
    /\ WF_vars(Receive(c) /\ UNCHANGED gameVars)
    /\ WF_vars(OtherListened(c) /\ UNCHANGED gameVars)
    /\ WF_vars(ObserveMap(c))
    /\ WF_vars(Tick(c) \/ TimeOver(c))
    /\ WF_vars(ScoreReply(c)) /\ WF_vars(ScoreCallback(c))

FairGameSpec == GameSpec /\ GameFairness
-----------------------------------------------------------------------------
TurnOK ==
  /\ screen        \in [Client -> {"lobby", "game", "back"}]
  /\ amIChallenger \in [Client -> BOOLEAN]
  /\ timeOverLoser \in [Client -> {"none", "me", "vs"}]
  /\ timeValue     \in [Client -> 0..TimeLimit]
  /\ ticking       \in [Client -> BOOLEAN]

BoardOK ==
  /\ binaryMap     \in [Client -> Boards]
  /\ firebaseData  \in [Client -> Boards]
  /\ face          \in [Client -> Boards]
  /\ enabled       \in [Client -> SUBSET Cells]
  /\ winner        \in [Client -> BOOLEAN]
  /\ gameOver      \in [Client -> BOOLEAN]

ScoreOK ==
  /\ result        \in [Client -> {"none", "empty", "draw", "win", "lose"}]
  /\ score         \in [Client -> Count0]
  /\ asks          \in [Client -> Seq(Field)]
  /\ answers       \in [Client -> Seq(Answer0)]
  /\ vs            \in [Client -> {"ok", ""}]
  /\ taps          \in Nat

GameTypeOK == TypeOK /\ TurnOK /\ BoardOK /\ ScoreOK

(* Once a player that entered has nothing under way, the board it judges   *)
(* and the board it would lay its next stone on are the stored one.        *)
BoardsAgree ==
  \A c \in Client :
    screen[c] # "lobby" /\ Quiet(c) =>
      binaryMap[c] = server /\ firebaseData[c] = server

(* A stone a player has been told of is on its screen in its colour, its   *)
(* button is dead, and the player's own next write contains it: taps alone *)
(* never take back or recolour what the tapper could see.                  *)
KnownStonesKept ==
  \A c \in Client, p \in Cells :
    binaryMap[c][p] # 0 =>
      /\ face[c][p] = binaryMap[c][p]
      /\ firebaseData[c][p] = binaryMap[c][p]
      /\ p \notin enabled[c]

(* Player c is to move: its screen is up to date and gives it the turn.    *)
ToMove(c) ==
  screen[c] = "game" /\ seen[c] # Null /\ events[c] = <<>>
    /\ result[c] = "none" /\ MyTurn(c)

(* Two players that wait for their turn are never both to move.            *)
OneToMove == \A c, d \in Client : ToMove(c) /\ ToMove(d) => c = d

(* A decided match shows its result: as long as the board is full or has   *)
(* been judged decided, the button that leads out of the screen is there.  *)
ResultShown ==
  \A c \in Client :
    screen[c] = "game" /\ (IsDraw(binaryMap[c]) \/ gameOver[c])
      => result[c] # "none"

(* The colours alternate: neither player is two stones ahead.              *)
Lead(b) == Cardinality(Stones(b, 1)) - Cardinality(Stones(b, 2))
StonesAlternate == Lead(server) \in -1..1

(* The stored board only gains stones, unless it is blanked - as long as   *)
(* no connection was lost: a put that is sent again brings back the board  *)
(* its sender had seen (FPersistentConnection:836).                        *)
StonesStay ==
  [][drops = 0 /\ server' # Blank =>
       \A p \in Cells : server[p] # 0 => server'[p] = server[p]]_vars

(* A decided match counts one win and one loss: once both players are told *)
(* who won and the reads that this started have come back, one record has  *)
(* one more win and one has one more loss.                                 *)
Told(c) == result[c] \in {"win", "lose"} /\ asks[c] = <<>> /\ answers[c] = <<>>
OneWinOneLoss ==
  (\A c \in Client : Told(c)) =>
    /\ score[Challenger]["win"] + score[Challenged]["win"] = 1
    /\ score[Challenger]["lose"] + score[Challenged]["lose"] = 1

(* A player whose clock runs is not left in the match for ever: whatever   *)
(* the other one does, it comes to see a result.                           *)
MatchEnds ==
  \A c \in Clocked :
    screen[c] = "game" ~> (result[c] # "none" \/ screen[c] = "back")
=============================================================================
