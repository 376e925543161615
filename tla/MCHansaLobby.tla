---------------------------- MODULE MCHansaLobby ----------------------------
(***************************************************************************)
(* Small lobbies for checking HansaLobby with TLC. One socket stays in the *)
(* lobby to create the game, the others ask for it.                        *)
(***************************************************************************)
EXTENDS HansaLobby, TLC

CONSTANTS u1, u2, s1, s2, s3, s4

ThreeSockets == s1 :> u1 @@ s2 :> u2 @@ s3 :> u1
FourSockets == ThreeSockets @@ s4 :> u2
=============================================================================
