------------------------------- MODULE MCLobby -------------------------------
(* Lobby with three users; everyone has to challenge the second of them.   *)
EXTENDS Lobby

CONSTANTS ann, bea, cat

ThreeNames == <<ann, bea, cat>>
Everyone   == {ann, bea, cat}
OldUsers   == {ann, cat}
=============================================================================
