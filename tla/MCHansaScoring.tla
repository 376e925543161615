--------------------------- MODULE MCHansaScoring ---------------------------
(***************************************************************************)
(* The scores on the real map.  Offices are contested in the cities of the *)
(* shortest bonus route (Arnheim 9, Munster 11, Minden 12, Brunswick 15,   *)
(* Stendal 16), with two of Minden's, so that a network may come in pieces *)
(* and ties of control may be broken; one spot of the Coellen table (22).  *)
(***************************************************************************)
EXTENDS HansaScoring, Base45

MCContested ==
    {<<"office", c, 1>> : c \in {9, 11, 12, 15, 16}}
        \cup {<<"office", 12, 2>>, <<"coellen", 22, 4>>}

\* The tracks of a player short of the last key.
MCTrack == [a \in TrackAwards |-> IF a = "Keys" THEN 1 ELSE 0]

\* On the map the search for a place for a bumped piece comes to every other
\* route before it gives up (table.go, line 190), and no route joins a city
\* to itself.
ASSUME MapInReach ==
    \A r \in Routes : /\ RoutesWithin[r, MaxBumpDistance] = Routes
                      /\ LeftCity[r] # RightCity[r]

=============================================================================
