----------------------------- MODULE MCHansaBot -----------------------------
(***************************************************************************)
(* Small boards for checking HansaBot with TLC: a bot, player 0, and a     *)
(* person, player 1.                                                       *)
(***************************************************************************)
EXTENDS HansaBot

ChainCities == 0 .. 2
ChainRoutes == 0 .. 1
ChainLeft   == [r \in ChainRoutes |-> r]
ChainRight  == [r \in ChainRoutes |-> r + 1]
ChainSpots  == [r \in ChainRoutes |-> 2]
LongSpots   == [r \in ChainRoutes |-> 2 + r]

Office(shape, priviledge, points) ==
    [Shape |-> shape, Priviledge |-> priviledge, Points |-> points]

BotOffices == [c \in ChainCities |-> IF c = 1 THEN <<Office("Cube", 1, 1)>> ELSE <<>>]
BotAwards  == [c \in ChainCities |-> CASE c = 0 -> "Coellen" [] c = 1 -> "None" [] c = 2 -> "Bags"]
BotCoellen == [c \in ChainCities |-> IF c = 0 THEN <<[Priviledge |-> 1, Points |-> 7]>> ELSE <<>>]
BotTracks  == [a \in TrackAwards |-> CASE a = "Bags" -> 1 [] a = "Actions" -> 5 [] OTHER -> 3]

\* The person places, bumps, pays and answers bumps.
BumpHabits == {<<"supply", "spot">>, <<"supply", "stock">>, <<"stock", "spot">>,
               <<"bumped", "spot">>}
=============================================================================
