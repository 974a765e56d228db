---------------------------- MODULE LobbyProofs ----------------------------
(* Offers, opponents, colours and rooms of Lobby agree for any number of   *)
(* users, taps, uploads and refreshes.                                     *)
EXTENDS Lobby, FiniteSetTheorems, TLAPS

(* The news an app has still to take.                                      *)
Told(u) == {news[u][i] : i \in 1..Len(news[u])}

(* A name in a vs is that of a challenger of the user, and the vs of a     *)
(* registered user is never without a value.                               *)
Valid(u, v) ==
  /\ v \in User => v \in Challengers(u)
  /\ u \in Registered => v # Missing

(* So are the stored vs, and those an app has still to be told of.         *)
Posted(u) ==
  /\ Valid(u, vs[u])
  /\ \A c \in Told(u) : /\ c.of \in {u} \cup watched[u]
                        /\ c.of = u => Valid(u, c.val)

(* Where a name is used there is one: an offer is that of a challenger, an *)
(* opponent was challenged or challenged.                                  *)
Met(u) ==
  /\ screen[u] = "popup" => asking[u] \in User
  /\ screen[u] = "game" => rival[u] \in User /\ room[u] # <<>>
  /\ watched[u] # {} => rival[u] \in User
  /\ offer[u] \in User => offer[u] \in Challengers(u)
  /\ rival[u] \in User => rival[u] \in watched[u] \cup Challengers(u)

(* Nobody challenged u: it lays the first stone of every match.            *)
Challenger(u) ==
  u \in Registered /\ Challengers(u) = {} =>
    /\ screen[u] = "popup" \/ watched[u] # {} => amI[u] /\ firstAmI[u]
    /\ room[u] # <<>> => \E x \in watched[u] : room[u] = <<u, x>>

(* w challenged nobody: whoever challenged it lays the first stone.        *)
Challenged(w) ==
  watched[w] = {} =>
    /\ screen[w] \in {"challenged", "game"} => ~amI[w] /\ ~firstAmI[w]
    /\ room[w] # <<>> => \E x \in Challengers(w) : room[w] = <<x, w>>

Known(u) == Met(u) /\ Challenger(u) /\ Challenged(u)

LobbyInv == TypeOK /\ \A u \in User : Posted(u) /\ Known(u)
-----------------------------------------------------------------------------
LEMMA NamesFacts ==
  /\ Free \notin User /\ Ok \notin User /\ Missing \notin User
  /\ Free # Ok /\ Free # Missing /\ Ok # Missing
  BY MarksAssumption

LEMMA InitLobbyInv == Init => LobbyInv
  <1> SUFFICES ASSUME Init PROVE LobbyInv
    OBVIOUS
  <1>1. TypeOK
    BY ActsAssumption, MarksAssumption
       DEF Init, TypeOK, RecordsOK, ListsOK, RolesOK, ScreensOK, NewsOK,
           Screens, Pairs, Field
  <1>2. ASSUME NEW u \in User
        PROVE  Posted(u) /\ Known(u)
    BY NamesFacts DEF Init, Posted, Told, Valid, Known, Met, Challenger, Challenged
  <1> QED
    BY <1>1, <1>2 DEF LobbyInv
-----------------------------------------------------------------------------
(* What a handler that writes v to the fields S does.                      *)
Writes(S, v) ==
  /\ vs' = [x \in User |-> IF x \in S THEN v ELSE vs[x]]
  /\ vs' \in [User -> Field]
  /\ news' \in [User -> Seq(Change0)]
  /\ \A u \in User : \A c \in Told(u)' :
       c \in Told(u) \/ \E x \in S \cap Observing(u) : c = Change(x, v)

LEMMA NoticeFacts ==
  ASSUME NEW q \in Seq(Change0), NEW u \in User, NEW x \in User, NEW v \in Field
  PROVE  LET s == q \o Notice(u, x, v)
         IN /\ s \in Seq(Change0)
            /\ \A i \in 1..Len(s) : \/ \E j \in 1..Len(q) : s[i] = q[j]
                                    \/ x \in Observing(u) /\ s[i] = Change(x, v)
  <1>1. CASE Notice(u, x, v) = <<>>
    BY <1>1
  <1>2. CASE x \in Observing(u) /\ Notice(u, x, v) = <<Change(x, v)>>
    <2> DEFINE c == Change(x, v)
    <2>1. c \in Change0
      BY DEF Change, Change0
    <2> HIDE DEF c
    <2> QED
      BY <1>2, <2>1 DEF c
  <1> QED
    BY <1>1, <1>2 DEF Notice

LEMMA PutWrites ==
  ASSUME TypeOK, NEW x \in User, NEW v \in Field, Put(x, v)
  PROVE  Writes({x}, v)
  <1>1. /\ vs' = [z \in User |-> IF z \in {x} THEN v ELSE vs[z]]
        /\ vs' \in [User -> Field]
    BY DEF Put, TypeOK, RecordsOK, Field
  <1>2. ASSUME NEW u \in User
        PROVE  /\ news'[u] \in Seq(Change0)
               /\ \A c \in Told(u)' :
                    \/ c \in Told(u)
                    \/ x \in Observing(u) /\ c = Change(x, v)
    <2>1. news[u] \in Seq(Change0) /\ news'[u] = news[u] \o Notice(u, x, v)
      BY DEF Put, TypeOK, NewsOK
    <2> DEFINE s == news[u] \o Notice(u, x, v)
    <2>2. /\ s \in Seq(Change0)
          /\ \A i \in 1..Len(s) : \/ \E j \in 1..Len(news[u]) : s[i] = news[u][j]
                                  \/ x \in Observing(u) /\ s[i] = Change(x, v)
      BY <2>1, NoticeFacts
    <2>3. news'[u] = s
      BY <2>1
    <2> HIDE DEF s
    <2> QED
      BY <2>2, <2>3 DEF Told
  <1>3. news' \in [User -> Seq(Change0)]
    BY <1>2 DEF Put
  <1> QED
    BY <1>1, <1>2, <1>3 DEF Writes

LEMMA PutBothWrites ==
  ASSUME TypeOK, NEW x \in User, NEW y \in User, NEW v \in Field,
         PutBoth(x, y, v)
  PROVE  Writes({x, y}, v)
  <1>1. /\ vs' = [z \in User |-> IF z \in {x, y} THEN v ELSE vs[z]]
        /\ vs' \in [User -> Field]
    BY DEF PutBoth, TypeOK, RecordsOK, Field
  <1>2. ASSUME NEW u \in User
        PROVE  /\ news'[u] \in Seq(Change0)
               /\ \A c \in Told(u)' :
                    \/ c \in Told(u)
                    \/ \E z \in {x, y} \cap Observing(u) : c = Change(z, v)
    <2> DEFINE q == news[u] \o Notice(u, x, v)
    <2>1. /\ news[u] \in Seq(Change0)
          /\ news'[u] = q \o (IF x = y THEN <<>> ELSE Notice(u, y, v))
      BY DEF PutBoth, TypeOK, NewsOK
    <2>2. /\ q \in Seq(Change0)
          /\ \A i \in 1..Len(q) :
               q[i] \in Told(u) \/ (x \in Observing(u) /\ q[i] = Change(x, v))
      <3>1. /\ q \in Seq(Change0)
            /\ \A i \in 1..Len(q) :
                 \/ \E j \in 1..Len(news[u]) : q[i] = news[u][j]
                 \/ x \in Observing(u) /\ q[i] = Change(x, v)
        BY <2>1, NoticeFacts
      <3>2. \A j \in 1..Len(news[u]) : news[u][j] \in Told(u)
        BY DEF Told
      <3> HIDE DEF q
      <3> QED
        BY <3>1, <3>2
    <2> HIDE DEF q
    <2>3. CASE x = y
      <3>1. news'[u] = q
        BY <2>1, <2>2, <2>3
      <3> QED
        BY <2>2, <3>1 DEF Told
    <2>4. CASE x # y
      <3> DEFINE s == q \o Notice(u, y, v)
      <3>1. news'[u] = s
        BY <2>1, <2>4
      <3>2. /\ s \in Seq(Change0)
            /\ \A i \in 1..Len(s) :
                 \/ \E j \in 1..Len(q) : s[i] = q[j]
                 \/ y \in Observing(u) /\ s[i] = Change(y, v)
        BY <2>2, NoticeFacts
      <3> HIDE DEF s
      <3> QED
        BY <2>2, <3>1, <3>2 DEF Told
    <2> QED
      BY <2>3, <2>4
  <1>3. news' \in [User -> Seq(Change0)]
    BY <1>2 DEF PutBoth
  <1> QED
    BY <1>1, <1>2, <1>3 DEF Writes

(* Writing a valid value keeps all that is posted.                         *)
LEMMA WritesPosted ==
  ASSUME LobbyInv, NEW S \in SUBSET User, NEW v \in Field, Writes(S, v),
         \A u \in User : watched[u] \subseteq watched'[u],
         \A u \in S : Valid(u, v)',
         NEW d \in User
  PROVE  Posted(d)'
  <1>1. \A x : Valid(d, x) => Valid(d, x)'
    BY DEF Valid, Challengers
  <1>2. Posted(d) /\ watched[d] \subseteq watched'[d]
    BY DEF LobbyInv
  <1>3. Valid(d, vs[d])'
    BY <1>1, <1>2 DEF Writes, Posted
  <1>4. ASSUME NEW c \in Told(d)'
        PROVE  c.of \in {d} \cup watched'[d] /\ (c.of = d => Valid(d, c.val)')
    <2>1. CASE c \in Told(d)
      BY <1>1, <1>2, <2>1 DEF Posted
    <2>2. CASE \E x \in S \cap Observing(d) : c = Change(x, v)
      BY <1>2, <2>2 DEF Observing, Change
    <2> QED
      BY <2>1, <2>2 DEF Writes
  <1> QED
    BY <1>3, <1>4 DEF Posted

LEMMA FreeOrOk ==
  \A u \in User : Valid(u, Free)' /\ Valid(u, Ok)'
  BY NamesFacts DEF Valid

(* Posted(d) is about nothing but these, and so is Known(d).               *)
LEMMA Unposted ==
  ASSUME NEW d \in User, Posted(d), UNCHANGED <<vs, watched>>,
         Told(d)' \subseteq Told(d)
  PROVE  Posted(d)'
  BY DEF Posted, Valid, Challengers

LEMMA Unknown ==
  ASSUME NEW d \in User, Known(d), watched'[d] = watched[d],
         Challengers(d) \subseteq Challengers(d)',
         screen'[d] = screen[d], asking'[d] = asking[d], offer'[d] = offer[d],
         rival'[d] = rival[d], amI'[d] = amI[d], firstAmI'[d] = firstAmI[d],
         room'[d] = room[d]
  PROVE  Known(d)'
  BY DEF Known, Met, Challenger, Challenged
-----------------------------------------------------------------------------
LEMMA ReloadType == ListsOK /\ Reload => reloads' \in 0..MaxReloads
  BY ActsAssumption DEF ListsOK, Reload

LEMMA ActType == TypeOK /\ Act => acts' \in 0..MaxActs
  BY ActsAssumption DEF TypeOK, Act

LEMMA LoadProfileInv ==
  ASSUME LobbyInv, NEW u \in User, LoadProfile(u)
  PROVE  LobbyInv'
  <1> DEFINE c == Change(u, vs[u])
  <1>1. /\ c \in Change0 /\ news[u] \in Seq(Change0) /\ screen[u] = "login"
        /\ news' = [news EXCEPT ![u] = Append(@, c)]
        /\ UNCHANGED <<vs, watched>>
    BY DEF LoadProfile, records, LobbyInv, TypeOK, RecordsOK, NewsOK, Change, Change0
  <1>2. /\ news' \in [User -> Seq(Change0)] /\ Told(u)' \subseteq Told(u) \cup {c}
        /\ \A d \in User : d # u => news'[d] = news[d]
    <2> HIDE DEF c
    <2> QED
      BY <1>1 DEF Told, LobbyInv, TypeOK, NewsOK
  <1>3. TypeOK'
    <2>1. RecordsOK' /\ RolesOK' /\ acts' \in 0..MaxActs
      BY DEF LoadProfile, records, roles, LobbyInv, TypeOK, RecordsOK, RolesOK
    <2>2. ListsOK' /\ ScreensOK'
      BY DEF LoadProfile, LobbyInv, TypeOK, ListsOK, ScreensOK, Screens
    <2>3. NewsOK'
      BY <1>1, <1>2 DEF LobbyInv, TypeOK, NewsOK
    <2> QED
      BY <2>1, <2>2, <2>3 DEF TypeOK
  <1>4. Posted(u)'
    BY <1>1, <1>2 DEF Posted, LobbyInv, Valid, Challengers, Change
  <1>5. \A d \in User : d # u => Posted(d)'
    BY <1>1, <1>2, Unposted DEF LobbyInv, Told
  <1>6. \A d \in User : Known(d)'
    BY DEF LoadProfile, LobbyInv, TypeOK, ScreensOK, Known, Met, Challenger,
       Challenged, Challengers, roles
  <1> QED
    BY <1>3, <1>4, <1>5, <1>6 DEF LobbyInv

LEMMA UploadUserInfoInv ==
  ASSUME LobbyInv, NEW u \in User, UploadUserInfo(u)
  PROVE  LobbyInv'
  <1>1. Writes({u}, Free)
    BY PutWrites DEF UploadUserInfo, LobbyInv, Field
  <1>2. TypeOK'
    <2>1. RecordsOK' /\ NewsOK'
      BY <1>1 DEF UploadUserInfo, Writes, LobbyInv, TypeOK, RecordsOK, NewsOK
    <2>2. ListsOK'
      BY ReloadType DEF UploadUserInfo, LobbyInv, TypeOK, ListsOK
    <2>3. RolesOK' /\ ScreensOK' /\ acts' \in 0..MaxActs
      BY DEF UploadUserInfo, LobbyInv, TypeOK, RolesOK, ScreensOK, roles
    <2> QED
      BY <2>1, <2>2, <2>3 DEF TypeOK
  <1>3. \A d \in User : Posted(d)'
    BY <1>1, WritesPosted, FreeOrOk DEF UploadUserInfo, Field
  <1>4. \A d \in User : Known(d)'
    BY Unknown DEF UploadUserInfo, LobbyInv, roles, Challengers
  <1> QED
    BY <1>2, <1>3, <1>4 DEF LobbyInv

(* The counts, the list and the login state are nothing to a match.        *)
LEMMA ListInv ==
  ASSUME LobbyInv, NEW u \in User,
         \/ CountsUploaded(u) \/ DownloadUsersInfo(u)
         \/ ReloadTblView(u) \/ Logout(u)
  PROVE  LobbyInv'
  <1>1. TypeOK'
    <2>1. RecordsOK'
      BY DEF CountsUploaded, DownloadUsersInfo, ReloadTblView, Logout,
         LobbyInv, TypeOK, RecordsOK, records
    <2>2. ListsOK'
      <3>1. CASE DownloadUsersInfo(u)
        BY <3>1 DEF DownloadUsersInfo, LobbyInv, TypeOK, RecordsOK, ListsOK
      <3>2. CASE CountsUploaded(u)
        BY <3>2 DEF CountsUploaded, LobbyInv, TypeOK, ListsOK, lists
      <3>3. CASE ReloadTblView(u) \/ Logout(u)
        BY <3>3, ReloadType
           DEF ReloadTblView, Logout, LobbyInv, TypeOK, ListsOK
      <3> QED
        BY <3>1, <3>2, <3>3
    <2>3. RolesOK' /\ NewsOK' /\ acts' \in 0..MaxActs
      BY DEF CountsUploaded, DownloadUsersInfo, ReloadTblView, Logout,
         LobbyInv, TypeOK, RolesOK, NewsOK, roles
    <2>4. ScreensOK'
      BY DEF CountsUploaded, DownloadUsersInfo, ReloadTblView, Logout,
         LobbyInv, TypeOK, ScreensOK, Screens
    <2> QED
      BY <2>1, <2>2, <2>3, <2>4 DEF TypeOK
  <1>2. /\ UNCHANGED <<vs, news, watched, roles, asking, offer>>
        /\ \A d \in User : screen'[d] \in {screen[d], "crashed", "out"}
    BY DEF CountsUploaded, DownloadUsersInfo, ReloadTblView, Logout, LobbyInv,
       TypeOK, ScreensOK, records, roles
  <1>3. \A d \in User : Posted(d)'
    BY <1>2, Unposted DEF LobbyInv, Told
  <1>4. \A d \in User : Known(d)'
    BY <1>2 DEF LobbyInv, Known, Met, Challenger, Challenged, Challengers, roles
  <1> QED
    BY <1>1, <1>3, <1>4 DEF LobbyInv
-----------------------------------------------------------------------------
LEMMA DidTapCellBtnInv ==
  ASSUME LobbyInv, NEW u \in User, DidTapCellBtn(u)
  PROVE  LobbyInv'
  <1>1. PICK x \in User : asking' = [asking EXCEPT ![u] = x]
    BY DEF DidTapCellBtn, Opponents, LobbyInv, TypeOK, ListsOK
  <1>2. TypeOK'
    <2>1. RecordsOK' /\ ListsOK' /\ NewsOK' /\ acts' \in 0..MaxActs
      BY ActType DEF DidTapCellBtn, LobbyInv, TypeOK, RecordsOK, ListsOK,
         NewsOK, records, lists
    <2>2. RolesOK'
      BY DEF DidTapCellBtn, Claims, LobbyInv, TypeOK, RolesOK
    <2>3. ScreensOK'
      BY <1>1 DEF DidTapCellBtn, LobbyInv, TypeOK, ScreensOK, Screens
    <2> QED
      BY <2>1, <2>2, <2>3 DEF TypeOK
  <1>3. \A d \in User : Posted(d)'
    BY Unposted DEF DidTapCellBtn, LobbyInv, Told, records
  <1>4. ASSUME NEW d \in User
        PROVE  Known(d)'
    <2>1. CASE d = u
      <3>1. /\ screen'[u] = "popup" /\ asking'[u] \in User
            /\ amI'[u] /\ firstAmI'[u]
            /\ UNCHANGED <<rival, room, offer, watched>>
        BY <1>1 DEF DidTapCellBtn, Claims, LobbyInv, TypeOK, RolesOK, ScreensOK
      <3> QED
        BY <2>1, <3>1 DEF LobbyInv, Known, Met, Challenger, Challenged, Challengers
    <2>2. CASE d # u
      BY <1>1, <2>2, Unknown DEF DidTapCellBtn, Claims, LobbyInv, TypeOK, RolesOK,
         ScreensOK, Challengers
    <2> QED
      BY <2>1, <2>2
  <1> QED
    BY <1>2, <1>3, <1>4 DEF LobbyInv

LEMMA ChallengeInv ==
  ASSUME LobbyInv, NEW u \in User, Challenge(u)
  PROVE  LobbyInv'
  <1>1. PICK x \in User :
          /\ Put(x, u) /\ screen[u] = "popup"
          /\ rival' = [rival EXCEPT ![u] = x]
          /\ watched' = [watched EXCEPT ![u] = @ \cup {x}]
          /\ UNCHANGED <<complete, loggedIn, lists, amI, firstAmI, room, screen,
                          asking, offer>>
    BY DEF Challenge, LobbyInv, Known, Met
  <1>2. Writes({x}, u)
    BY <1>1, PutWrites DEF LobbyInv, Field
  <1>3. TypeOK'
    <2>1. RecordsOK'
      BY <1>1, <1>2 DEF Writes, LobbyInv, TypeOK, RecordsOK
    <2>2. NewsOK'
      BY <1>1, <1>2 DEF Writes, LobbyInv, TypeOK, NewsOK
    <2>3. ListsOK' /\ ScreensOK' /\ acts' \in 0..MaxActs
      BY ActType DEF Challenge, LobbyInv, TypeOK, ListsOK, ScreensOK, lists
    <2>4. RolesOK'
      BY <1>1 DEF LobbyInv, TypeOK, RolesOK
    <2> QED
      BY <2>1, <2>2, <2>3, <2>4 DEF TypeOK
  <1>4. /\ rival'[u] = x /\ x \in watched'[u] /\ watched[u] \subseteq watched'[u]
        /\ watched'[u] = watched[u] \cup {x}
        /\ \A d \in User : d # u => rival'[d] = rival[d] /\ watched'[d] = watched[d]
        /\ \A d \in User : Challengers(d) \subseteq Challengers(d)'
    BY <1>1 DEF LobbyInv, TypeOK, RolesOK, NewsOK, Challengers
  <1>5. \A d \in User : Posted(d)'
    <2>1. Valid(x, u)'
      BY <1>4, NamesFacts DEF Valid, Challengers
    <2> QED
      BY <1>1, <1>2, <1>4, <2>1, WritesPosted DEF Field
  <1>6. Known(u)'
    <2>1. Known(u)
      BY DEF LobbyInv
    <2>2. Met(u)'
      BY <1>1, <1>4, <2>1 DEF Known, Met
    <2>3. Challenger(u)'
      BY <1>1, <1>4, <2>1 DEF Known, Challenger
    <2>4. Challenged(u)'
      BY <1>4 DEF Challenged
    <2> QED
      BY <2>2, <2>3, <2>4 DEF Known
  <1>7. \A d \in User : d # u => Known(d)'
    BY <1>1, <1>4, Unknown DEF LobbyInv
  <1> QED
    BY <1>3, <1>5, <1>6, <1>7 DEF LobbyInv

(* Withdrawing, refusing and leaving go back to the list and free both vs. *)
LEMMA BackInv ==
  ASSUME LobbyInv, NEW u \in User, Withdraw(u) \/ Refuse(u) \/ LeaveMatch(u)
  PROVE  LobbyInv'
  <1>1. /\ screen' = [screen EXCEPT ![u] = "list"] /\ Act
        /\ UNCHANGED <<complete, loggedIn, lists, roles, asking, offer, watched>>
    BY DEF Withdraw, Refuse, LeaveMatch
  <1>2. \E S \in SUBSET User : Writes(S, Free)
    <2>1. PICK x \in User : PutBoth(x, u, Free) \/ PutBoth(u, x, Free)
      BY DEF Withdraw, Refuse, LeaveMatch, ResetVS, LobbyInv, Known, Met
    <2>2. Free \in Field /\ {x, u} \subseteq User /\ {u, x} \subseteq User
      BY DEF Field
    <2> QED
      BY <2>1, <2>2, PutBothWrites DEF LobbyInv
  <1>3. TypeOK'
    <2>1. RecordsOK' /\ NewsOK'
      BY <1>1, <1>2 DEF Writes, LobbyInv, TypeOK, RecordsOK, NewsOK
    <2>2. ListsOK' /\ RolesOK' /\ acts' \in 0..MaxActs
      BY <1>1, ActType DEF LobbyInv, TypeOK, ListsOK, RolesOK, lists, roles
    <2>3. ScreensOK'
      BY <1>1 DEF LobbyInv, TypeOK, ScreensOK, Screens
    <2> QED
      BY <2>1, <2>2, <2>3 DEF TypeOK
  <1>4. \A d \in User : Posted(d)'
    BY <1>1, <1>2, WritesPosted, FreeOrOk DEF Field
  <1>5. ASSUME NEW d \in User
        PROVE  Known(d)'
    <2>1. /\ UNCHANGED <<rival, amI, firstAmI, room, asking, offer, watched>>
          /\ screen'[d] \in {screen[d], "list"}
      BY <1>1 DEF LobbyInv, TypeOK, ScreensOK, roles
    <2> QED
      BY <2>1 DEF LobbyInv, Known, Met, Challenger, Challenged, Challengers
  <1> QED
    BY <1>3, <1>4, <1>5 DEF LobbyInv

LEMMA AcceptInv ==
  ASSUME LobbyInv, NEW u \in User, Accept(u)
  PROVE  LobbyInv'
  <1> DEFINE x == offer[u]
  <1>1. /\ x \in User /\ screen[u] = "challenged" /\ Act
        /\ rival' = [rival EXCEPT ![u] = x]
        /\ screen' = [screen EXCEPT ![u] = "game"]
        /\ room' = [room EXCEPT ![u] = IF @ # <<>> THEN @
                                      ELSE IF amI[u] THEN <<u, x>> ELSE <<x, u>>]
        /\ UNCHANGED <<complete, loggedIn, lists, amI, firstAmI, asking, offer,
                        watched>>
    BY DEF Accept, TakeRival, Enter
  <1>2. Writes({u, x}, Ok)
    BY <1>1, PutBothWrites DEF Accept, LobbyInv, Field
  <1>3. x \in Challengers(u)
    BY <1>1 DEF LobbyInv, Known, Met
  <1> HIDE DEF x
  <1>4. TypeOK'
    <2>1. RecordsOK' /\ NewsOK'
      BY <1>1, <1>2 DEF Writes, LobbyInv, TypeOK, RecordsOK, NewsOK
    <2>2. ListsOK' /\ acts' \in 0..MaxActs
      BY <1>1, ActType DEF LobbyInv, TypeOK, ListsOK, lists
    <2>3. ScreensOK'
      BY <1>1 DEF LobbyInv, TypeOK, ScreensOK, Screens
    <2>4. RolesOK'
      BY <1>1 DEF LobbyInv, TypeOK, RolesOK, Pairs
    <2> QED
      BY <2>1, <2>2, <2>3, <2>4 DEF TypeOK
  <1>5. \A d \in User : Posted(d)'
    BY <1>1, <1>2, WritesPosted, FreeOrOk DEF Field
  <1>6. Known(u)'
    <2>1. /\ rival'[u] = x /\ screen'[u] = "game"
          /\ room'[u] = (IF room[u] # <<>> THEN room[u]
                        ELSE IF amI[u] THEN <<u, x>> ELSE <<x, u>>)
          /\ Challengers(u)' = Challengers(u)
      BY <1>1 DEF LobbyInv, TypeOK, RolesOK, ScreensOK, Challengers
    <2>2. <<u, x>> # <<>> /\ <<x, u>> # <<>>
      OBVIOUS
    <2>3. Known(u)
      BY DEF LobbyInv
    <2>4. Met(u)'
      BY <1>1, <1>3, <2>1, <2>2, <2>3 DEF Known, Met
    <2>5. Challenger(u)'
      BY <1>3, <2>1 DEF Challenger
    <2>6. Challenged(u)'
      BY <1>1, <1>3, <2>1, <2>3 DEF Known, Challenged
    <2> QED
      BY <2>4, <2>5, <2>6 DEF Known
  <1>7. \A d \in User : d # u => Known(d)'
    BY <1>1, Unknown DEF LobbyInv, TypeOK, RolesOK, ScreensOK, Challengers
  <1> QED
    BY <1>4, <1>5, <1>6, <1>7 DEF LobbyInv

LEMMA AnswerNobodyInv ==
  ASSUME LobbyInv, NEW u \in User, AnswerNobody(u)
  PROVE  LobbyInv'
  <1>1. /\ screen' = [screen EXCEPT ![u] = "crashed"]
        /\ uploads' = [uploads EXCEPT ![u] = 0]
        /\ UNCHANGED <<complete, loggedIn, loading, list, reloads, roles, asking,
                        offer, watched, acts>>
    BY DEF AnswerNobody
  <1>2. Writes({u}, Ok) \/ UNCHANGED <<vs, news>>
    BY PutWrites DEF AnswerNobody, LobbyInv, Field
  <1>3. TypeOK'
    <2>1. RecordsOK' /\ NewsOK'
      BY <1>1, <1>2 DEF Writes, LobbyInv, TypeOK, RecordsOK, NewsOK
    <2>2. ListsOK' /\ RolesOK' /\ acts' \in 0..MaxActs
      BY <1>1 DEF LobbyInv, TypeOK, ListsOK, RolesOK, roles
    <2>3. ScreensOK'
      BY <1>1 DEF LobbyInv, TypeOK, ScreensOK, Screens
    <2> QED
      BY <2>1, <2>2, <2>3 DEF TypeOK
  <1>4. \A d \in User : Posted(d)'
    <2>1. CASE Writes({u}, Ok)
      BY <1>1, <2>1, WritesPosted, FreeOrOk DEF Field
    <2>2. CASE UNCHANGED <<vs, news>>
      BY <1>1, <2>2, Unposted DEF LobbyInv, Told
    <2> QED
      BY <1>2, <2>1, <2>2
  <1>5. ASSUME NEW d \in User
        PROVE  Known(d)'
    <2>1. /\ UNCHANGED <<rival, amI, firstAmI, room, asking, offer, watched>>
          /\ screen'[d] \in {screen[d], "crashed"}
      BY <1>1 DEF LobbyInv, TypeOK, ScreensOK, roles
    <2> QED
      BY <2>1 DEF LobbyInv, Known, Met, Challenger, Challenged, Challengers
  <1> QED
    BY <1>3, <1>4, <1>5 DEF LobbyInv
-----------------------------------------------------------------------------
(* An app learns of a change: no name without a challenger of that name,   *)
(* and the opponent is known when the match opens.                         *)
LEMMA VsChangedKnown ==
  ASSUME LobbyInv, NEW u \in User, NEW v \in Field, Valid(u, v),
         VsChanged(u, v), UNCHANGED <<watched, asking>>
  PROVE  RolesOK' /\ ScreensOK' /\ \A d \in User : Known(d)'
  <1>1. CASE ~IsOffer(v) /\ UNCHANGED <<roles, offer, screen>>
    <2>1. RolesOK' /\ ScreensOK'
      BY <1>1 DEF LobbyInv, TypeOK, RolesOK, ScreensOK, roles
    <2> QED
      BY <1>1, <2>1, Unknown DEF LobbyInv, roles, Challengers
  <1>2. CASE /\ IsOffer(v)
             /\ offer'    = [offer EXCEPT ![u] = NameIn(v)]
             /\ amI'      = [amI EXCEPT ![u] = FALSE]
             /\ firstAmI' = [firstAmI EXCEPT ![u] = FALSE]
             /\ screen'   = [screen EXCEPT
                               ![u] = IF @ = "list" THEN "challenged" ELSE @]
             /\ UNCHANGED <<rival, room>>
    <2>1. v \in User \/ v = Missing
      BY <1>2 DEF IsOffer, Field
    <2>2. RolesOK'
      BY <1>2 DEF LobbyInv, TypeOK, RolesOK
    <2>3. ScreensOK'
      BY <1>2, <2>1 DEF LobbyInv, TypeOK, ScreensOK, Screens, NameIn
    <2>4. /\ offer'[u] = NameIn(v) /\ ~amI'[u] /\ ~firstAmI'[u]
          /\ screen'[u] \in {screen[u], "challenged"}
          /\ Known(u) /\ Challengers(u)' = Challengers(u)
      BY <1>2 DEF LobbyInv, TypeOK, RolesOK, ScreensOK, Challengers
    <2>5. Met(u)'
      BY <1>2, <2>4, NamesFacts DEF Known, Met, NameIn, Valid
    <2>6. Challenger(u)'
      BY <2>1, <2>4 DEF Challenger, Valid
    <2>7. Challenged(u)'
      BY <1>2, <2>4 DEF Known, Challenged
    <2>8. \A d \in User : d # u => Known(d)'
      BY <1>2, Unknown DEF LobbyInv, TypeOK, RolesOK, ScreensOK, Challengers
    <2> QED
      BY <2>2, <2>3, <2>5, <2>6, <2>7, <2>8 DEF Known
  <1> QED
    BY <1>1, <1>2 DEF VsChanged

LEMMA RivalVsChangedKnown ==
  ASSUME LobbyInv, NEW u \in User, NEW v \in Field, watched[u] # {},
         RivalVsChanged(u, v), UNCHANGED <<watched, asking>>
  PROVE  RolesOK' /\ ScreensOK' /\ \A d \in User : Known(d)'
  <1>1. CASE UNCHANGED <<roles, offer, screen>>
    <2>1. RolesOK' /\ ScreensOK'
      BY <1>1 DEF LobbyInv, TypeOK, RolesOK, ScreensOK, roles
    <2> QED
      BY <1>1, <2>1, Unknown DEF LobbyInv, roles, Challengers
  <1>2. CASE /\ screen[u] = "popup" /\ Enter(u, rival[u])
             /\ UNCHANGED <<rival, amI, firstAmI, offer>>
    <2>1. PICK x \in User : x = rival[u]
      BY DEF LobbyInv, Known, Met
    <2>2. RolesOK'
      BY <1>2, <2>1 DEF Enter, LobbyInv, TypeOK, RolesOK, Pairs
    <2>3. ScreensOK'
      BY <1>2 DEF Enter, LobbyInv, TypeOK, ScreensOK, Screens
    <2>4. /\ screen'[u] = "game" /\ Known(u) /\ Challengers(u)' = Challengers(u)
          /\ room'[u] = (IF room[u] # <<>> THEN room[u]
                        ELSE IF amI[u] THEN <<u, x>> ELSE <<x, u>>)
      BY <1>2, <2>1 DEF Enter, LobbyInv, TypeOK, RolesOK, ScreensOK, Challengers
    <2>5. <<u, x>> # <<>> /\ <<x, u>> # <<>>
      OBVIOUS
    <2>6. Met(u)'
      BY <1>2, <2>1, <2>4, <2>5 DEF Known, Met
    <2>7. Challenger(u)'
      <3>1. Challengers(u) = {} => x \in watched[u]
        BY <2>1, <2>4 DEF Known, Met
      <3> QED
        BY <1>2, <2>4, <3>1 DEF Known, Challenger
    <2>8. Challenged(u)'
      BY DEF Challenged
    <2>9. \A d \in User : d # u => Known(d)'
      BY <1>2, Unknown DEF Enter, LobbyInv, TypeOK, RolesOK, ScreensOK, Challengers
    <2> QED
      BY <2>2, <2>3, <2>6, <2>7, <2>8, <2>9 DEF Known
  <1> QED
    BY <1>1, <1>2 DEF RivalVsChanged

LEMMA ObserveInv ==
  ASSUME LobbyInv, NEW u \in User, Observe(u)
  PROVE  LobbyInv'
  <1> DEFINE c == Head(news[u])
  <1>1. /\ news[u] \in Seq(Change0) /\ news[u] # <<>>
        /\ news' = [news EXCEPT ![u] = Tail(@)]
        /\ IF c.of = u THEN VsChanged(u, c.val) ELSE RivalVsChanged(u, c.val)
        /\ UNCHANGED <<records, lists, asking, watched, acts>>
    BY DEF Observe, LobbyInv, TypeOK, NewsOK
  <1>2. /\ c \in Change0 /\ c \in Told(u) /\ Tail(news[u]) \in Seq(Change0)
        /\ Told(u)' \subseteq Told(u)
    BY <1>1 DEF Told, LobbyInv, TypeOK, NewsOK
  <1> HIDE DEF c
  <1>3. c.val \in Field /\ c.of \in {u} \cup watched[u]
        /\ (c.of = u => Valid(u, c.val))
    BY <1>2 DEF Change0, LobbyInv, Posted
  <1>4. RolesOK' /\ ScreensOK' /\ \A d \in User : Known(d)'
    BY <1>1, <1>3, VsChangedKnown, RivalVsChangedKnown
  <1>5. TypeOK'
    <2>1. RecordsOK' /\ ListsOK' /\ acts' \in 0..MaxActs
      BY <1>1 DEF LobbyInv, TypeOK, RecordsOK, ListsOK, records, lists
    <2>2. NewsOK'
      BY <1>1, <1>2 DEF LobbyInv, TypeOK, NewsOK
    <2> QED
      BY <1>4, <2>1, <2>2 DEF TypeOK
  <1>6. ASSUME NEW d \in User
        PROVE  Posted(d)'
    <2>1. Told(d)' \subseteq Told(d)
      BY <1>1, <1>2 DEF Told, LobbyInv, TypeOK, NewsOK
    <2> QED
      BY <1>1, <2>1, Unposted DEF LobbyInv, records
  <1> QED
    BY <1>4, <1>5, <1>6 DEF LobbyInv
-----------------------------------------------------------------------------
LEMMA NextLobbyInv == LobbyInv /\ [Next]_vars => LobbyInv'
  <1> SUFFICES ASSUME LobbyInv, [Next]_vars PROVE LobbyInv'
    OBVIOUS
  <1>1. CASE UNCHANGED vars
    <2>1. TypeOK'
      BY <1>1 DEF vars, records, lists, roles, LobbyInv, TypeOK, RecordsOK,
         ListsOK, RolesOK, ScreensOK, NewsOK
    <2>2. \A d \in User : Posted(d)' /\ Known(d)'
      BY <1>1, Unposted, Unknown DEF vars, records, roles, LobbyInv, Told,
         Challengers
    <2> QED
      BY <2>1, <2>2 DEF LobbyInv
  <1>2. CASE Next
    BY <1>2, LoadProfileInv, UploadUserInfoInv, ListInv, DidTapCellBtnInv,
       ChallengeInv, BackInv, AcceptInv, AnswerNobodyInv, ObserveInv DEF Next
  <1> QED
    BY <1>1, <1>2

LEMMA Lobbying == Spec => []LobbyInv
  BY InitLobbyInv, NextLobbyInv, PTL DEF Spec

(* The variables keep their types: a name is there wherever one is used    *)
(* (the forced unwraps of PopUpVC, ChallengerVC and FindGameVC).           *)
THEOREM LobbyTypes == Spec => []TypeOK
  <1>1. LobbyInv => TypeOK
    BY DEF LobbyInv
  <1> QED
    BY <1>1, Lobbying, PTL

(* Whoever is asked to accept a challenge was challenged by the one it is  *)
(* told of (FindGameVC.popUpFlag, PopUpVC.alertActionButtonAction).        *)
THEOREM OffersComeFromChallengers == Spec => []OffersAreReal
  <1>1. LobbyInv => OffersAreReal
    BY DEF LobbyInv, TypeOK, ScreensOK, Known, Met, Challengers, OffersAreReal
  <1> QED
    BY <1>1, Lobbying, PTL

(* The opponent of a match is somebody the player challenged or was        *)
(* challenged by (playerVS, ChallengerVC.alertActionButtonAction).         *)
THEOREM OpponentsMet == Spec => []RivalsAgreed
  <1>1. LobbyInv => RivalsAgreed
    BY DEF LobbyInv, Known, Met, Challengers, RivalsAgreed
  <1> QED
    BY <1>1, Lobbying, PTL

(* With clear roles the challenger lays the first stone and the challenged *)
(* does not (amIChallenger, firstAmI), however often they withdraw, refuse *)
(* or meet others.                                                         *)
THEOREM ColoursAreTwo == Spec => []ColoursDiffer
  <1>1. LobbyInv => ColoursDiffer
    <2> SUFFICES ASSUME LobbyInv, NEW u \in User, NEW w \in User,
                        InMatch(u, w), ClearRoles(u, w)
                 PROVE  firstAmI[u] /\ ~firstAmI[w]
      BY DEF ColoursDiffer
    <2>1. w \in watched[u]
      BY DEF InMatch, ClearRoles, LobbyInv, Known, Met
    <2> QED
      BY <2>1 DEF InMatch, ClearRoles, LobbyInv, Known, Challenger, Challenged
  <1> QED
    BY <1>1, Lobbying, PTL

(* Two players who have met nobody else name the same room (Map.roomName). *)
THEOREM RoomIsOne == Spec => []SharedRoom
  <1>1. LobbyInv => SharedRoom
    BY DEF LobbyInv, SharedRoom, InMatch, ClearRoles, Known, Met, Challenger,
           Challenged
  <1> QED
    BY <1>1, Lobbying, PTL
=============================================================================
