---------------------------- MODULE FirebaseNode ----------------------------
(***************************************************************************)
(* One location of the Firebase realtime database, shared by the clients   *)
(* that write it with updateChildValues and listen to it with              *)
(* observe(.value).  The model is the client SDK vendored under            *)
(* src/N5mok/Pods/FirebaseDatabase: the tree of pending writes that        *)
(* shadows the server's data, the queue of outstanding puts, the answers   *)
(* held back while a listen is unanswered, the events queued for the main  *)
(* thread, and the reconnection that sends everything unanswered again.    *)
(* The server is external: it applies each client's messages in order and  *)
(* pushes every write to the other listening clients.                      *)
(*                                                                         *)
(* Connection loss and re-establishment are one step (Reconnect): what a   *)
(* client does while offline only grows its outstanding puts, exactly as   *)
(* if it had done it just before the loss.                                 *)
(***************************************************************************)
EXTENDS Integers, Sequences, FiniteSets

CONSTANTS
  Client,       \* the connected apps
  Value,        \* the values the location can hold
  Null,         \* "not known yet"
  MaxWrites,    \* bound: client -> how often it writes
  MaxDrops,     \* bound: connection losses
  OtherListens  \* whether a client may also await listens of other locations

ASSUME NullAssumption == Null \notin Value
ASSUME BoundAssumption ==
  MaxWrites \in [Client -> Nat] /\ MaxDrops \in Nat /\ OtherListens \in BOOLEAN

VARIABLES
  server,    \* the value stored by the server
  watching,  \* the clients the server pushes changes to
  up,        \* client -> messages on their way to the server
  down,      \* client -> messages on their way to the client
  listens,   \* client -> has it registered its observer?
  asked,     \* client -> is the listen of this location unanswered?
  busy,      \* client -> is a listen of another location unanswered?
  pend,      \* client -> its writes in the pending write tree
  latest,    \* client -> the value of its newest write
  nextId,    \* client -> the id of its next write
  held,      \* client -> ids answered while a listen is unanswered (putsToAck)
  cache,     \* client -> the server's data as the client knows it
  events,    \* client -> values queued for the main thread
  seen,      \* client -> the last value its observer was called with
  drops      \* number of connection losses so far

netVars    == <<server, watching, up, down>>
clientVars == <<listens, asked, busy, pend, latest, nextId, held, cache>>
nodeVars   == <<netVars, clientVars, events, seen, drops>>

Write0     == [id : Nat, val : Value]
UpMsg      == [op : {"put"}, id : Nat, val : Value]
                \cup [op : {"listen"}]
DownMsg    == [op : {"data", "listened"}, val : Value]
                \cup [op : {"ack"}, id : Nat, val : Value \cup {Null}]

(* Mutant of Put: the write record goes out in place of its value.         *)
PutRecord(w) == [op |-> "put", id |-> w.id, val |-> w]
Put(w)   == [op |-> "put", id |-> w.id, val |-> w.val]
Ask      == [op |-> "listen"]
-----------------------------------------------------------------------------
(* Writes are answered in order, so whenever a write is pending the newest *)
(* one is, and it shadows everything else (NewestShadows below).           *)
(* Mutant of Shown: the server's data is never shadowed.                   *)
ShownUnshadowed(p, l, k) == k
Shown(p, l, k) == IF p = {} THEN k ELSE l
View(c) == Shown(pend[c], latest[c], cache[c])

(* Mutant of Raise: an event although nothing changed.                     *)
RaiseAlways(c, v) ==
  events' = IF v = Null THEN events ELSE [events EXCEPT ![c] = Append(@, v)]

(* The view of client c becomes v; its observer is called if it changed.   *)
Raise(c, v) ==
  events' = IF v \in {Null, View(c)} THEN events
            ELSE [events EXCEPT ![c] = Append(@, v)]

NodeInit ==
  /\ server \in Value
  /\ watching = {}
  /\ up      = [c \in Client |-> <<>>]
  /\ down    = [c \in Client |-> <<>>]
  /\ listens = [c \in Client |-> FALSE]
  /\ asked   = [c \in Client |-> FALSE]
  /\ busy    = [c \in Client |-> FALSE]
  /\ pend    = [c \in Client |-> {}]
  /\ latest  = [c \in Client |-> Null]
  /\ nextId  = [c \in Client |-> 0]
  /\ held    = [c \in Client |-> {}]
  /\ cache   = [c \in Client |-> Null]
  /\ events  = [c \in Client |-> <<>>]
  /\ seen    = [c \in Client |-> Null]
  /\ drops   = 0
-----------------------------------------------------------------------------
(* updateChildValues: into the pending write tree, an event if the view    *)
(* changes, a put on the wire.                                             *)
Record(c, v) ==
  /\ nextId[c] < MaxWrites[c]
  /\ pend'   = [pend EXCEPT ![c] = @ \cup {[id |-> nextId[c], val |-> v]}]
  /\ latest' = [latest EXCEPT ![c] = v]
  /\ nextId' = [nextId EXCEPT ![c] = @ + 1]

Write(c, v) ==
  /\ Record(c, v)
  /\ up' = [up EXCEPT ![c] = Append(@, Put([id |-> nextId[c], val |-> v]))]
  /\ IF listens[c] THEN Raise(c, v) ELSE UNCHANGED events
  /\ UNCHANGED <<server, watching, down, listens, asked, busy, held, cache,
                 seen, drops>>

(* observe(.value): the first event is queued at once when a pending write *)
(* already tells the value.                                                *)
Listen(c) ==
  /\ ~listens[c]
  /\ listens' = [listens EXCEPT ![c] = TRUE]
  /\ asked'   = [asked EXCEPT ![c] = TRUE]
  /\ up'      = [up EXCEPT ![c] = Append(@, Ask)]
  /\ events'  = IF pend[c] = {} THEN events
                ELSE [events EXCEPT ![c] = Append(@, latest[c])]
  /\ UNCHANGED <<server, watching, down, busy, pend, latest, nextId, held,
                 cache, seen, drops>>

(* Map.init: the board is written and then observed in one handler.        *)
WriteThenListen(c, v) ==
  /\ ~listens[c]
  /\ Record(c, v)
  /\ listens' = [listens EXCEPT ![c] = TRUE]
  /\ asked'   = [asked EXCEPT ![c] = TRUE]
  /\ up'      = [up EXCEPT ![c] =
                   @ \o <<Put([id |-> nextId[c], val |-> v]), Ask>>]
  /\ events'  = [events EXCEPT ![c] = Append(@, v)]
  /\ UNCHANGED <<server, watching, down, busy, held, cache, seen, drops>>
-----------------------------------------------------------------------------
(* The server takes the next message of client c.  The data it pushes to a *)
(* listening writer just before the answer travels in the answer.          *)
ServerPut(c) ==
  /\ up[c] # <<>> /\ Head(up[c]).op = "put"
  /\ LET m == Head(up[c])
         answer == [op |-> "ack", id |-> m.id,
                    val |-> IF c \in watching THEN m.val ELSE Null]
         push == [op |-> "data", val |-> m.val]
     IN /\ server' = m.val
        /\ down' = [d \in Client |->
                      IF d = c THEN Append(down[d], answer)
                      ELSE IF d \in watching THEN Append(down[d], push)
                      ELSE down[d]]
  /\ up' = [up EXCEPT ![c] = Tail(@)]
  /\ UNCHANGED <<watching, clientVars, events, seen, drops>>

ServerListen(c) ==
  /\ up[c] # <<>> /\ Head(up[c]).op = "listen"
  /\ watching' = watching \cup {c}
  /\ down' = [down EXCEPT ![c] = Append(@, [op |-> "listened", val |-> server])]
  /\ up' = [up EXCEPT ![c] = Tail(@)]
  /\ UNCHANGED <<server, clientVars, events, seen, drops>>

ServerApply(c) == ServerPut(c) \/ ServerListen(c)
-----------------------------------------------------------------------------
(* Client c takes a push: the server cache changes, the view only if no    *)
(* write shadows it.                                                       *)
ReceiveData(c) ==
  /\ down[c] # <<>> /\ Head(down[c]).op = "data"
  /\ LET v == Head(down[c]).val
     IN /\ cache' = [cache EXCEPT ![c] = v]
        /\ Raise(c, Shown(pend[c], latest[c], v))
  /\ down' = [down EXCEPT ![c] = Tail(@)]
  /\ UNCHANGED <<server, watching, up, listens, asked, busy, pend, latest,
                 nextId, held, seen, drops>>

(* Answers wait in putsToAck while some listen is unanswered; the mutant   *)
(* acknowledges at once.                                                   *)
NeverHold(c) == FALSE
Hold(c) == asked[c] \/ busy[c]

(* The answer to a put: the write leaves the pending tree, or is held.     *)
ReceiveAck(c) ==
  /\ down[c] # <<>> /\ Head(down[c]).op = "ack"
  /\ LET m == Head(down[c])
         k == IF m.val = Null THEN cache[c] ELSE m.val
         p == IF Hold(c) THEN pend[c] ELSE {w \in pend[c] : w.id # m.id}
     IN /\ cache' = [cache EXCEPT ![c] = k]
        /\ pend' = [pend EXCEPT ![c] = p]
        /\ held' = [held EXCEPT ![c] = IF Hold(c) THEN @ \cup {m.id} ELSE @]
        /\ IF listens[c] THEN Raise(c, Shown(p, latest[c], k))
           ELSE UNCHANGED events
  /\ down' = [down EXCEPT ![c] = Tail(@)]
  /\ UNCHANGED <<server, watching, up, listens, asked, busy, latest, nextId,
                 seen, drops>>

(* The writes client c keeps once putsToAck is emptied; the mutant keeps   *)
(* them all.                                                               *)
UnheldNone(c) == pend[c]
Unheld(c) == {w \in pend[c] : w.id \notin held[c]}

(* The answer to the listen, with the data pushed just before it.          *)
ReceiveListened(c) ==
  /\ down[c] # <<>> /\ Head(down[c]).op = "listened"
  /\ LET v == Head(down[c]).val
         p == IF busy[c] THEN pend[c] ELSE Unheld(c)
     IN /\ cache' = [cache EXCEPT ![c] = v]
        /\ pend' = [pend EXCEPT ![c] = p]
        /\ held' = [held EXCEPT ![c] = IF busy[c] THEN @ ELSE {}]
        /\ Raise(c, Shown(p, latest[c], v))
  /\ asked' = [asked EXCEPT ![c] = FALSE]
  /\ down' = [down EXCEPT ![c] = Tail(@)]
  /\ UNCHANGED <<server, watching, up, listens, busy, latest, nextId, seen,
                 drops>>

Receive(c) == ReceiveData(c) \/ ReceiveAck(c) \/ ReceiveListened(c)

(* Client c listens to another location, or gets the answer to it.         *)
OtherListen(c) ==
  /\ OtherListens /\ ~busy[c]
  /\ busy' = [busy EXCEPT ![c] = TRUE]
  /\ UNCHANGED <<netVars, listens, asked, pend, latest, nextId, held, cache,
                 events, seen, drops>>

OtherListened(c) ==
  /\ busy[c]
  /\ busy' = [busy EXCEPT ![c] = FALSE]
  /\ LET p == IF asked[c] THEN pend[c] ELSE Unheld(c)
     IN /\ pend' = [pend EXCEPT ![c] = p]
        /\ held' = [held EXCEPT ![c] = IF asked[c] THEN @ ELSE {}]
        /\ IF listens[c] THEN Raise(c, Shown(p, latest[c], cache[c]))
           ELSE UNCHANGED events
  /\ UNCHANGED <<netVars, listens, asked, latest, nextId, cache, seen, drops>>

(* The main thread calls the observer with the oldest queued value.        *)
Deliver(c) ==
  /\ events[c] # <<>>
  /\ seen'   = [seen EXCEPT ![c] = Head(events[c])]
  /\ events' = [events EXCEPT ![c] = Tail(@)]
  /\ UNCHANGED <<netVars, clientVars, drops>>

(* The connection is lost and restored: listens first, then every          *)
(* unanswered put in the order of its id, whether the server had applied   *)
(* it or not.                                                              *)
InOrder(S) ==
  {q \in [1..Cardinality(S) -> S] :
     /\ \A s \in S : \E i \in DOMAIN q : q[i] = s
     /\ \A i, j \in DOMAIN q : i < j => q[i].id < q[j].id}

(* The puts sent again; the mutant restores the listens only.              *)
ResentNone(c) == {}
Resent(c) == Unheld(c)

Reconnect(c) ==
  /\ drops < MaxDrops
  /\ drops' = drops + 1
  /\ watching' = watching \ {c}
  /\ down' = [down EXCEPT ![c] = <<>>]
  /\ \E q \in InOrder(Resent(c)) :
       up' = [up EXCEPT ![c] =
                (IF listens[c] THEN <<Ask>> ELSE <<>>)
                  \o [i \in DOMAIN q |-> Put(q[i])]]
  /\ asked' = [asked EXCEPT ![c] = listens[c]]
  /\ UNCHANGED <<server, listens, busy, pend, latest, nextId, held, cache,
                 events, seen>>
-----------------------------------------------------------------------------
NetStep(c) == \/ ServerApply(c) \/ Receive(c)
              \/ OtherListen(c) \/ OtherListened(c) \/ Reconnect(c)

Next ==
  \E c \in Client :
    \/ \E v \in Value : Write(c, v) \/ WriteThenListen(c, v)
    \/ Listen(c)
    \/ NetStep(c)
    \/ Deliver(c)

Spec == NodeInit /\ [][Next]_nodeVars

(* The server, the connection's thread and the main thread keep running;   *)
(* nobody is obliged to write, to listen or to lose the connection.        *)
Fairness ==
  \A c \in Client : /\ WF_nodeVars(ServerApply(c))
                    /\ WF_nodeVars(Receive(c))
                    /\ WF_nodeVars(OtherListened(c))
                    /\ WF_nodeVars(Deliver(c))

FairSpec == Spec /\ Fairness
-----------------------------------------------------------------------------
TypeOK ==
  /\ server \in Value
  /\ watching \in SUBSET Client
  /\ up      \in [Client -> Seq(UpMsg)]
  /\ down    \in [Client -> Seq(DownMsg)]
  /\ listens \in [Client -> BOOLEAN]
  /\ asked   \in [Client -> BOOLEAN]
  /\ busy    \in [Client -> BOOLEAN]
  /\ pend    \in [Client -> SUBSET Write0]
  /\ latest  \in [Client -> Value \cup {Null}]
  /\ nextId  \in [Client -> Nat]
  /\ held    \in [Client -> SUBSET Nat]
  /\ cache   \in [Client -> Value \cup {Null}]
  /\ events  \in [Client -> Seq(Value)]
  /\ seen    \in [Client -> Value \cup {Null}]
  /\ drops   \in Nat

Quiet(c) == up[c] = <<>> /\ down[c] = <<>> /\ events[c] = <<>> /\ ~busy[c]

(* Once nothing of a listening client is on its way any more, the value    *)
(* its observer was last called with is the one the server stores: no      *)
(* answer, push or reconnection may leave it behind for good.              *)
Converges == \A c \in Client : listens[c] /\ Quiet(c) => seen[c] = server

(* The observer is never called twice in a row with the same value.  The   *)
(* board's observer hands the turn over at every call (Map.swift:141), so  *)
(* one repeated call would leave both players with the same turn.  (This   *)
(* is what answers are held back for: Map.init writes before it listens,   *)
(* and without the write its view would be unknown until the listen is     *)
(* answered, and its own board news again.)                                *)
Changing(e, s) ==
  /\ s # <<>> => s[1] # e
  /\ \A i \in 1..(Len(s) - 1) : s[i] # s[i + 1]
EventsChange == \A c \in Client : Changing(seen[c], events[c])

LastOf(e, s) == IF s = <<>> THEN e ELSE s[Len(s)]

(* A listening client that has a write under way shows that write, as the  *)
(* last thing its observer is, or is about to be, called with; what others *)
(* wrote meanwhile does not show.                                          *)
NewestShadows ==
  \A c \in Client :
    pend[c] # {} =>
      /\ [id |-> nextId[c] - 1, val |-> latest[c]] \in pend[c]
      /\ listens[c] => latest[c] = LastOf(seen[c], events[c])

(* A client takes the answer to a write without a call of its observer.    *)
AckTakenSilently ==
  \A c \in Client : /\ down[c] # <<>> /\ Head(down[c]).op = "ack"
                    /\ down'[c] = Tail(down[c])
                    => events'[c] = events[c]

(* The answer to a write never changes what the writer shows: its own      *)
(* value was there before, and stays, although the server's data has come  *)
(* to stand in for the pending write, with what others wrote in between.   *)
AcksAreSilent == [][AckTakenSilently]_nodeVars

(* Every listening client eventually shows what the server stores: always  *)
(* again, whatever the connection loses.                                   *)
EventuallyShown == \A c \in Client : []<>(listens[c] => seen[c] = server)
-----------------------------------------------------------------------------
(* What holds between the two ends of a connection, and makes Converges    *)
(* and EventsChange inductive.                                             *)
PutUnder(s, id) == \E i \in 1..Len(s) : s[i].op = "put" /\ s[i].id = id
AckUnder(s, id) == \E i \in 1..Len(s) : s[i].op = "ack" /\ s[i].id = id
AskUnder(s)     == \E i \in 1..Len(s) : s[i].op = "listen"
AnswerUnder(s)  == \E i \in 1..Len(s) : s[i].op = "listened"
Mute(s)         == \A i \in 1..Len(s) : s[i].op = "ack" /\ s[i].val = Null

(* The last value on its way in s, or else k, is v.                        *)
Bound(s, k, v) ==
  \/ \E i \in 1..Len(s) : /\ s[i].val = v
                          /\ \A j \in (i + 1)..Len(s) : s[j].val = Null
  \/ k = v /\ \A j \in 1..Len(s) : s[j].val = Null

(* No pending write is forgotten: it or its answer is on its way, or the   *)
(* answer is held.                                                         *)
Tracked(c) ==
  \A w \in pend[c] : \/ PutUnder(up[c], w.id) \/ AckUnder(down[c], w.id)
                     \/ w.id \in held[c]

Asking(c) ==
  /\ held[c] # {} => asked[c] \/ busy[c]
  /\ asked[c] => AskUnder(up[c]) \/ AnswerUnder(down[c])
  /\ listens[c] => c \in watching \/ AskUnder(up[c])
  /\ listens[c] /\ ~asked[c] => cache[c] # Null

(* A watched client has, or is about to get, the stored value.             *)
Fresh(c) == c \in watching => Bound(down[c], cache[c], server)

Unaware(c) ==
  ~listens[c] => /\ c \notin watching /\ ~asked[c] /\ cache[c] = Null
                 /\ Mute(down[c]) /\ ~AskUnder(up[c])

NetInvOf(c) == Tracked(c) /\ Asking(c) /\ Fresh(c) /\ Unaware(c)
NetInv == \A c \in Client : NetInvOf(c)

(* The observer is up to date with the view, once the queue is worked off. *)
EventInvOf(c) ==
  /\ Changing(seen[c], events[c])
  /\ IF listens[c] THEN LastOf(seen[c], events[c]) = View(c)
     ELSE events[c] = <<>> /\ seen[c] = Null
EventInv == \A c \in Client : EventInvOf(c)
=============================================================================
