---------------------------- MODULE MCHansaGame ----------------------------
(***************************************************************************)
(* Small boards for checking HansaGame with TLC: three cities in a chain,  *)
(* joined by two routes of two spots.  The routes share a city, so a       *)
(* bumped piece has somewhere to go; the ends are the bonus termini; the   *)
(* players have so few pieces that stock and supply run out.               *)
(***************************************************************************)
EXTENDS HansaGame

ChainCities == 0 .. 2
ChainRoutes == 0 .. 1
ChainLeft   == [r \in ChainRoutes |-> r]
ChainRight  == [r \in ChainRoutes |-> r + 1]
ChainSpots  == [r \in ChainRoutes |-> 2]
NoCoellen   == [c \in ChainCities |-> <<>>]
NoAwards    == [c \in ChainCities |-> "None"]

Office(shape, priviledge, points) ==
    [Shape |-> shape, Priviledge |-> priviledge, Points |-> points]

\* The tracks as NewPlayerBoard fills them.
FullTracks == [a \in TrackAwards |->
    CASE a = "Actions" -> 5 [] a = "Keys" -> 4 [] OTHER -> 3]

\* For bumps: one office can be taken, and its point ends the game.
BumpOffices == [c \in ChainCities |->
    IF c = 0 THEN <<Office("Cube", 1, 1)>> ELSE <<Office("Cube", 2, 0)>>]

\* For clearing: offices of both shapes, one of them out of reach until the
\* priviledge rises, awards at both ends of a route, where the left one counts,
\* and a Coellen table with a spot that needs more priviledge.
ClearOffices == [c \in ChainCities |->
    CASE c = 0 -> <<Office("Cube", 1, 1)>>
      [] c = 1 -> <<Office("Disc", 1, 0), Office("Cube", 2, 1)>>
      [] c = 2 -> <<>>]
ClearAwards == [c \in ChainCities |->
    CASE c = 0 -> "Actions" [] c = 1 -> "Coellen" [] c = 2 -> "Bags"]
ClearCoellen == [c \in ChainCities |->
    IF c = 1 THEN <<[Priviledge |-> 2, Points |-> 7], [Priviledge |-> 3, Points |-> 8]>>
             ELSE <<>>]
ClearTracks == [FullTracks EXCEPT !["Actions"] = 1, !["Priviledge"] = 2]

=============================================================================
