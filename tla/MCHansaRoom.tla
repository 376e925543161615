---------------------------- MODULE MCHansaRoom ----------------------------
(***************************************************************************)
(* A small room for checking HansaRoom with TLC: two seats, of which one    *)
(* must be taken, so that a second user can watch, and the two scores that *)
(* are sent last before completion.                                        *)
(***************************************************************************)
EXTENDS HansaRoom

TwoSeats == 0..1
LastScores == <<"Total", "Place">>
=============================================================================
