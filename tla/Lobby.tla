-------------------------------- MODULE Lobby --------------------------------
(***************************************************************************)
(* How a match comes about: FindGameVC, PopUpVC, ChallengerVC and the      *)
(* user records of Datas.swift.  Each user has a record at the server with *)
(* a field "vs": free, the name of a challenger, or "ok".  Every app       *)
(* observes its own vs, and that of each user it has challenged - these    *)
(* observers are never taken away.  One app shows one screen at a time: a  *)
(* second view controller presented on FindGameVC is ignored by UIKit.     *)
(*                                                                         *)
(* A write takes effect at the server at once, and the apps that observe   *)
(* the field are told later, one by one and in order: what module          *)
(* FirebaseNode shows of one field, without its delay of the writes.  The  *)
(* match itself is module OmokGame; here it is a screen that is left with  *)
(* resetBtn.                                                               *)
(***************************************************************************)
EXTENDS Integers, Sequences, FiniteSets, SequencesExt

CONSTANTS
  Names,      \* the users, sorted by name as downloadUsersInfo sorts them
  Registered, \* those whose record exists when the run starts
  Free, Ok,   \* the values "" and "ok" of vs
  Missing,    \* no value at all
  MaxActs,    \* bound: taps of all users together
  MaxReloads  \* bound: uploads, refreshes and logouts of all users together

User == Range(Names)

ASSUME NamesAssumption == IsInjective(Names)
ASSUME MarksAssumption ==
  /\ Registered \subseteq User
  /\ {Free, Ok, Missing} \cap User = {}
  /\ Free # Ok /\ Free # Missing /\ Ok # Missing
ASSUME ActsAssumption == MaxActs \in Nat /\ MaxReloads \in Nat

VARIABLES
  vs,        \* user -> the field of its record
  complete,  \* the users whose record has every field a download reads
  loggedIn,  \* the users whose loginState is true
  uploads,   \* user -> profile images to come, if they do: each uploads
  loading,   \* user -> is a download of the records under way?
  list,      \* user -> loginUsers, the users its table shows, by name
  screen,    \* user -> what its app shows
  asking,    \* user -> popUpVC.vs
  offer,     \* user -> challengerVC.vs
  rival,     \* user -> playerVS
  amI,       \* user -> amIChallenger
  firstAmI,  \* user -> who lays the first stone
  room,      \* user -> the room of the global map, <<>> before its first use
  watched,   \* user -> the users it has challenged, whose vs it observes
  news,      \* user -> changes of observed fields, queued for the main thread
  acts, reloads

records == <<vs, complete, loggedIn>>
lists   == <<uploads, loading, list, reloads>>
roles   == <<rival, amI, firstAmI, room>>
vars    == <<records, lists, roles, screen, asking, offer, watched, news, acts>>

Init ==
  /\ vs       = [u \in User |-> IF u \in Registered THEN Free ELSE Missing]
  /\ complete = Registered
  /\ loggedIn = Registered
  /\ uploads  = [u \in User |-> 0]
  /\ loading  = [u \in User |-> FALSE]
  /\ list     = [u \in User |-> {}]
  /\ screen   = [u \in User |-> "login"]
  /\ asking   = [u \in User |-> Free]
  /\ offer    = [u \in User |-> Free]
  /\ rival    = [u \in User |-> Free]
  /\ amI      = [u \in User |-> FALSE]
  /\ firstAmI = [u \in User |-> FALSE]
  /\ room     = [u \in User |-> <<>>]
  /\ watched  = [u \in User |-> {}]
  /\ news     = [u \in User |-> <<>>]
  /\ acts = 0 /\ reloads = 0
-----------------------------------------------------------------------------
Change(x, v) == [of |-> x, val |-> v]

Observing(u) == (IF screen[u] = "login" THEN {} ELSE {u}) \cup watched[u]

(* A field x is written: each app that observes it is told if it changes.  *)
Notice(u, x, v) ==
  IF x \in Observing(u) /\ vs[x] # v THEN <<Change(x, v)>> ELSE <<>>

Put(x, v) ==
  /\ vs'   = [vs EXCEPT ![x] = v]
  /\ news' = [u \in User |-> news[u] \o Notice(u, x, v)]

(* One handler writes the same to two fields, x first; when they are one,  *)
(* the second write changes nothing.                                       *)
PutBoth(x, y, v) ==
  /\ vs'   = [z \in User |-> IF z \in {x, y} THEN v ELSE vs[z]]
  /\ news' = [u \in User |->
                news[u] \o Notice(u, x, v)
                        \o (IF x = y THEN <<>> ELSE Notice(u, y, v))]

Act == acts < MaxActs /\ acts' = acts + 1

(* The global map is made, and its room named, when it is first used.      *)
Enter(u, r) ==
  /\ screen' = [screen EXCEPT ![u] = "game"]
  /\ room' = [room EXCEPT ![u] =
                IF @ # <<>> THEN @
                ELSE IF amI[u] THEN <<u, r>> ELSE <<r, u>>]
-----------------------------------------------------------------------------
(* viewDidLoad and loadProfile: the list is asked for, the own vs observed *)
(* from now on, its present value first, and each of two images uploads    *)
(* the record when it has come.                                            *)
LoadProfile(u) ==
  /\ screen[u] = "login"
  /\ screen'  = [screen EXCEPT ![u] = "list"]
  /\ loading' = [loading EXCEPT ![u] = TRUE]
  /\ uploads' = [uploads EXCEPT ![u] = 2]
  /\ news'    = [news EXCEPT ![u] = Append(@, Change(u, vs[u]))]
  /\ UNCHANGED <<records, list, reloads, roles, asking, offer, watched, acts>>

Reload == reloads < MaxReloads /\ reloads' = reloads + 1

(* uploadUserInfo, and the download in its completion.  The counts of a    *)
(* new record are written once the server has said that there are none.    *)
UploadUserInfo(u) ==
  /\ uploads[u] > 0
  /\ Reload
  /\ uploads'  = [uploads EXCEPT ![u] = @ - 1]
  /\ loggedIn' = loggedIn \cup {u}
  /\ loading'  = [loading EXCEPT ![u] = TRUE]
  /\ Put(u, Free)
  /\ UNCHANGED <<complete, list, roles, screen, asking, offer,
                 watched, acts>>

CountsUploaded(u) ==
  /\ u \in loggedIn \ complete
  /\ complete' = complete \cup {u}
  /\ UNCHANGED <<vs, loggedIn, lists, roles, screen, asking, offer, watched,
                 news, acts>>

(* downloadUsersInfo: the forced casts trap on a record that is not yet    *)
(* complete.                                                               *)
Records == {u \in User : vs[u] # Missing}
Readable == Records \subseteq complete

DownloadUsersInfo(u) ==
  /\ loading[u] /\ screen[u] # "crashed"
  /\ loading' = [loading EXCEPT ![u] = FALSE]
  /\ \/ /\ Readable
        /\ list' = [list EXCEPT ![u] = loggedIn]
        /\ UNCHANGED <<screen, uploads>>
     \/ /\ ~Readable
        /\ screen'  = [screen EXCEPT ![u] = "crashed"]
        /\ uploads' = [uploads EXCEPT ![u] = 0]
        /\ UNCHANGED list
  /\ UNCHANGED <<records, reloads, roles, asking, offer, watched, news, acts>>

ReloadTblView(u) ==
  /\ screen[u] = "list"
  /\ Reload
  /\ loading' = [loading EXCEPT ![u] = TRUE]
  /\ UNCHANGED <<records, uploads, list, roles, screen, asking, offer, watched,
                 news, acts>>

(* The record says so, the other apps see it when they refresh.            *)
Logout(u) ==
  /\ screen[u] = "list"
  /\ Reload
  /\ loggedIn' = loggedIn \ {u}
  /\ screen'   = [screen EXCEPT ![u] = "out"]
  /\ UNCHANGED <<vs, complete, uploads, loading, list, roles, asking, offer,
                 watched, news, acts>>
-----------------------------------------------------------------------------
(* didTapCellBtn: sender is the button, whose tag is 0 in every row (the   *)
(* rows number their cells), so the opponent is the second user of the     *)
(* list whichever row is tapped.                                           *)
Before(x, y) ==
  \E i, j \in DOMAIN Names : i < j /\ Names[i] = x /\ Names[j] = y
Opponents(u) ==
  {y \in list[u] : \E x \in list[u] : {z \in list[u] : Before(z, y)} = {x}}

(* Mutant of Claims: the challenger does not take the first stone.         *)
ClaimsTurnOnly(u) ==
  /\ amI' = [amI EXCEPT ![u] = TRUE]
  /\ UNCHANGED firstAmI
(* Mutant of Claims: the challenger does not know that it is one.          *)
ClaimsStoneOnly(u) ==
  /\ firstAmI' = [firstAmI EXCEPT ![u] = TRUE]
  /\ UNCHANGED amI
Claims(u) ==
  /\ amI'      = [amI EXCEPT ![u] = TRUE]
  /\ firstAmI' = [firstAmI EXCEPT ![u] = TRUE]

DidTapCellBtn(u) ==
  /\ screen[u] = "list"
  /\ Act
  /\ \E x \in Opponents(u) : asking' = [asking EXCEPT ![u] = x]
  /\ Claims(u)
  /\ screen' = [screen EXCEPT ![u] = "popup"]
  /\ UNCHANGED <<records, lists, rival, room, offer, watched, news>>

(* PopUpVC, yes: disabled when the opponent is the user itself.  The       *)
(* pop-up stays.                                                           *)
Challenge(u) ==
  /\ screen[u] = "popup" /\ asking[u] # u
  /\ Act
  /\ Put(asking[u], u)
  /\ rival'   = [rival EXCEPT ![u] = asking[u]]
  /\ watched' = [watched EXCEPT ![u] = @ \cup {asking[u]}]
  /\ UNCHANGED <<complete, loggedIn, lists, amI, firstAmI, room, screen,
                 asking, offer>>

(* resetVS, of both pop-ups.                                               *)
ResetVS(u, x) == PutBoth(x, u, Free)

Withdraw(u) ==
  /\ screen[u] = "popup"
  /\ Act
  /\ ResetVS(u, asking[u])
  /\ screen' = [screen EXCEPT ![u] = "list"]
  /\ UNCHANGED <<complete, loggedIn, lists, roles, asking, offer, watched>>

(* ChallengerVC, yes and no.  The mutant keeps the opponent of the last    *)
(* match.                                                                  *)
KeepRival(u) == UNCHANGED rival
TakeRival(u) == rival' = [rival EXCEPT ![u] = offer[u]]

Accept(u) ==
  /\ screen[u] = "challenged" /\ offer[u] \in User
  /\ Act
  /\ PutBoth(u, offer[u], Ok)
  /\ TakeRival(u)
  /\ Enter(u, offer[u])
  /\ UNCHANGED <<complete, loggedIn, lists, amI, firstAmI, asking, offer,
                 watched>>

Refuse(u) ==
  /\ screen[u] = "challenged" /\ offer[u] \in User
  /\ Act
  /\ ResetVS(u, offer[u])
  /\ screen' = [screen EXCEPT ![u] = "list"]
  /\ UNCHANGED <<complete, loggedIn, lists, roles, asking, offer, watched>>

(* Either button of a challenge without a name asks for the record of ""   *)
(* and the library throws; the first write of yes may have been sent.      *)
AnswerNobody(u) ==
  /\ screen[u] = "challenged" /\ offer[u] = Free
  /\ screen'  = [screen EXCEPT ![u] = "crashed"]
  /\ uploads' = [uploads EXCEPT ![u] = 0]
  /\ \/ Put(u, Ok)
     \/ UNCHANGED <<vs, news>>
  /\ UNCHANGED <<complete, loggedIn, loading, list, reloads, roles, asking,
                 offer, watched, acts>>

(* gameEnd and resetBtn.                                                   *)
LeaveMatch(u) ==
  /\ screen[u] = "game"
  /\ Act
  /\ PutBoth(u, rival[u], Free)
  /\ screen' = [screen EXCEPT ![u] = "list"]
  /\ UNCHANGED <<complete, loggedIn, lists, roles, asking, offer, watched>>
-----------------------------------------------------------------------------
(* popUpFlag's observer of the own vs: anything but "" and "ok" is taken   *)
(* for a challenge, wherever the user is; the pop-up shows on the list     *)
(* only.  The mutant takes "ok" for a challenger's name.                   *)
IsOfferOrOk(v) == v # Free
IsOffer(v) == v \notin {Free, Ok}

(* data ?? "".  The mutant takes the name as it comes.                     *)
NameAsIs(v) == v
NameIn(v) == IF v = Missing THEN Free ELSE v

VsChanged(u, v) ==
  \/ /\ IsOffer(v)
     /\ offer'    = [offer EXCEPT ![u] = NameIn(v)]
     /\ amI'      = [amI EXCEPT ![u] = FALSE]
     /\ firstAmI' = [firstAmI EXCEPT ![u] = FALSE]
     /\ screen'   = [screen EXCEPT ![u] = IF @ = "list" THEN "challenged" ELSE @]
     /\ UNCHANGED <<rival, room>>
  \/ /\ ~IsOffer(v)
     /\ UNCHANGED <<roles, offer, screen>>

(* The observer that PopUpVC's yes leaves behind: "ok" opens the match if  *)
(* the pop-up is on the screen, whoever it is for.                         *)
Accepted(u, v) == v = Ok

RivalVsChanged(u, v) ==
  \/ /\ Accepted(u, v) /\ screen[u] = "popup"
     /\ Enter(u, rival[u])
     /\ UNCHANGED <<rival, amI, firstAmI, offer>>
  \/ /\ ~(Accepted(u, v) /\ screen[u] = "popup")
     /\ UNCHANGED <<roles, offer, screen>>

Observe(u) ==
  /\ news[u] # <<>> /\ screen[u] # "crashed"
  /\ LET c == Head(news[u])
     IN IF c.of = u THEN VsChanged(u, c.val) ELSE RivalVsChanged(u, c.val)
  /\ news' = [news EXCEPT ![u] = Tail(@)]
  /\ UNCHANGED <<records, lists, asking, watched, acts>>
-----------------------------------------------------------------------------
Next ==
  \E u \in User :
    \/ LoadProfile(u) \/ UploadUserInfo(u) \/ CountsUploaded(u)
    \/ DownloadUsersInfo(u) \/ ReloadTblView(u) \/ Logout(u)
    \/ DidTapCellBtn(u) \/ Challenge(u) \/ Withdraw(u)
    \/ Accept(u) \/ Refuse(u) \/ AnswerNobody(u) \/ LeaveMatch(u)
    \/ Observe(u)

Spec == Init /\ [][Next]_vars
-----------------------------------------------------------------------------
Screens == {"login", "list", "popup", "challenged", "game", "out", "crashed"}
Pairs   == {<<>>} \cup (User \X User)
Field   == User \cup {Free, Ok, Missing}
Change0 == [of : User, val : Field]

RecordsOK ==
  vs \in [User -> Field] /\ complete \subseteq User /\ loggedIn \subseteq User
ListsOK ==
  /\ uploads \in [User -> 0..2] /\ loading \in [User -> BOOLEAN]
  /\ list \in [User -> SUBSET User] /\ reloads \in 0..MaxReloads
RolesOK ==
  /\ rival \in [User -> User \cup {Free}] /\ room \in [User -> Pairs]
  /\ amI \in [User -> BOOLEAN] /\ firstAmI \in [User -> BOOLEAN]
ScreensOK ==
  /\ screen \in [User -> Screens]
  /\ asking \in [User -> User \cup {Free}]
  /\ offer \in [User -> User \cup {Free}]
NewsOK ==
  watched \in [User -> SUBSET User] /\ news \in [User -> Seq(Change0)]

TypeOK ==
  RecordsOK /\ ListsOK /\ RolesOK /\ ScreensOK /\ NewsOK /\ acts \in 0..MaxActs

(* Who is asked whether to accept a challenge was challenged by the one it *)
(* is told of.                                                             *)
OffersAreReal ==
  \A u \in User :
    screen[u] = "challenged" /\ offer[u] # Free
      => offer[u] \in User /\ u \in watched[offer[u]]

(* A match is played with somebody who was challenged or challenged: the   *)
(* opponent the app knows (playerVS) is not that of an earlier match.      *)
RivalsAgreed ==
  \A u \in User :
    screen[u] = "game" =>
      /\ rival[u] \in User
      /\ rival[u] \in watched[u] \/ u \in watched[rival[u]]

InMatch(u, w) ==
  u # w /\ screen[u] = "game" /\ screen[w] = "game"
    /\ rival[u] = w /\ rival[w] = u

(* The roles are clear: w challenges nobody, and nobody challenges u.  (A  *)
(* newcomer u is challenged by its empty vs, so it is none.)               *)
Challengers(w) == {x \in User : w \in watched[x]}
ClearRoles(u, w) ==
  u \in Registered /\ Challengers(u) = {} /\ watched[w] = {}

(* Two players of one match have different colours, whatever was withdrawn *)
(* or refused before and whoever else u challenges or w is challenged by,  *)
(* as long as the roles are clear.  (They must be: a challenge that comes  *)
(* in, during a match too, takes the first stone from the challenged; and  *)
(* the observer of an earlier challenge, which stays, takes w back into a  *)
(* match with its last opponent, now as the challenger, when the user it   *)
(* once challenged accepts somebody else.)                                 *)
ColoursDiffer ==
  \A u, w \in User :
    InMatch(u, w) /\ ClearRoles(u, w) => firstAmI[u] /\ ~firstAmI[w]

(* Two players who have met nobody else play on the same board: the apps   *)
(* name the room alone, each from what it knows, and once for all.         *)
SharedRoom ==
  \A u, w \in User :
    InMatch(u, w) /\ ClearRoles(u, w)
      /\ watched[u] = {w} /\ Challengers(w) = {u}
      => room[u] = room[w]

(* A user who accepts a challenge plays against the challenger alone.      *)
OneRival ==
  \A u, w, x \in User :
    screen[u] = "game" /\ screen[w] = "game" /\ rival[u] = x /\ rival[w] = x
      => u = w
=============================================================================
