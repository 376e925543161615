------------------------------- MODULE Base45 -------------------------------
(***************************************************************************)
(* The map for four and five players (boarddata.go, NewBase45Board), as    *)
(* values for the constants of HansaBoard.  An office is its shape, the    *)
(* priviledge it needs (1 white, 2 orange, 3 purple, 4 black) and its      *)
(* points.  Sequences of cities and routes start with index 0 in the code. *)
(***************************************************************************)
EXTENDS Integers, Sequences

Office(shape, priviledge, points) ==
    [Shape |-> shape, Priviledge |-> priviledge, Points |-> points]

BaseCities == 0 .. 26
BaseRoutes == 0 .. 33

\* Groningen to Bremen (cities 0 to 6).
NorthOffices ==
    << <<Office("Cube", 1, 1), Office("Disc", 2, 0)>>
     , <<Office("Disc", 1, 0), Office("Cube", 3, 0)>>
     , <<Office("Disc", 1, 0)>>
     , <<Office("Cube", 1, 0), Office("Cube", 2, 0), Office("Cube", 4, 0)>>
     , <<Office("Cube", 1, 1), Office("Cube", 3, 0)>>
     , <<Office("Disc", 2, 0), Office("Cube", 4, 0)>>
     , <<Office("Disc", 1, 0), Office("Cube", 3, 0)>> >>

\* Luneburg to Minden (cities 7 to 12).
HanseOffices ==
    << <<Office("Disc", 2, 0), Office("Cube", 4, 0)>>
     , <<Office("Cube", 1, 0), Office("Cube", 3, 0), Office("Disc", 4, 0)>>
     , <<Office("Cube", 1, 0), Office("Disc", 1, 0), Office("Cube", 2, 0), Office("Cube", 3, 0)>>
     , <<Office("Cube", 1, 0), Office("Cube", 2, 0), Office("Cube", 4, 0)>>
     , <<Office("Disc", 1, 0), Office("Cube", 2, 0)>>
     , <<Office("Cube", 1, 0), Office("Cube", 2, 0), Office("Cube", 3, 0), Office("Cube", 4, 0)>> >>

\* Hannover to Baderborn (cities 13 to 19).
MiddleOffices ==
    << <<Office("Cube", 1, 0), Office("Cube", 3, 0)>>
     , <<Office("Cube", 1, 0), Office("Cube", 4, 0)>>
     , <<Office("Cube", 2, 0)>>
     , <<Office("Cube", 1, 0), Office("Disc", 1, 0), Office("Cube", 2, 0), Office("Cube", 3, 0)>>
     , <<Office("Cube", 1, 0)>>
     , <<Office("Disc", 1, 0), Office("Cube", 2, 0), Office("Cube", 3, 0)>>
     , <<Office("Cube", 1, 0), Office("Disc", 4, 0)>> >>

\* Goslar to Halle (cities 20 to 26).
SouthOffices ==
    << <<Office("Cube", 1, 0), Office("Cube", 4, 0)>>
     , <<Office("Disc", 1, 0), Office("Cube", 2, 0)>>
     , <<Office("Cube", 1, 1), Office("Cube", 3, 0)>>
     , <<Office("Cube", 2, 0), Office("Cube", 3, 0)>>
     , <<Office("Cube", 1, 0), Office("Disc", 1, 0), Office("Cube", 3, 0)>>
     , <<Office("Disc", 2, 0), Office("Disc", 3, 0)>>
     , <<Office("Cube", 1, 1), Office("Cube", 2, 0)>> >>

BaseOffices ==
    LET all == NorthOffices \o HanseOffices \o MiddleOffices \o SouthOffices
    IN  [c \in BaseCities |-> all[c + 1]]

BaseAward ==
    [c \in BaseCities |->
        CASE c = 0 -> "Discs"
          [] c = 2 -> "Priviledge"
          [] c = 4 -> "Bags"
          [] c = 22 -> "Coellen"
          [] c = 24 -> "Actions"
          [] c = 26 -> "Keys"
          [] OTHER -> "None"]

\* The Coellen table lies in city 22; its spots are for discs.
BaseCoellen ==
    [c \in BaseCities |-> IF c # 22 THEN <<>> ELSE
        [i \in 1 .. 4 |-> [Priviledge |-> i, Points |-> <<7, 8, 9, 11>>[i]]]]

\* Arnheim and Stendal.
BaseBonusTermini == {9, 16}

\* A route is its left city, its right city and its number of spots.
NorthRoutes ==
    << <<0, 1, 3>>, <<1, 2, 3>>, <<1, 10, 4>>, <<2, 3, 3>>, <<3, 4, 3>>,
       <<3, 6, 4>>, <<3, 7, 4>>, <<5, 9, 3>>, <<5, 10, 2>>, <<6, 10, 3>>,
       <<6, 12, 3>>, <<6, 13, 3>> >>

MiddleRoutes ==
    << <<7, 8, 3>>, <<7, 13, 3>>, <<8, 16, 3>>, <<9, 11, 3>>, <<9, 17, 3>>,
       <<11, 12, 3>>, <<12, 13, 3>>, <<12, 15, 4>>, <<12, 19, 3>>, <<14, 19, 3>>,
       <<14, 20, 3>>, <<15, 16, 4>> >>

SouthRoutes ==
    << <<16, 21, 3>>, <<17, 18, 2>>, <<18, 19, 3>>, <<19, 23, 3>>, <<20, 21, 2>>,
       <<20, 25, 4>>, <<22, 23, 4>>, <<23, 24, 3>>, <<24, 25, 3>>, <<25, 26, 4>> >>

BaseRoute     == LET all == NorthRoutes \o MiddleRoutes \o SouthRoutes
                 IN  [r \in BaseRoutes |-> all[r + 1]]
BaseLeftCity  == [r \in BaseRoutes |-> BaseRoute[r][1]]
BaseRightCity == [r \in BaseRoutes |-> BaseRoute[r][2]]
BaseSpots     == [r \in BaseRoutes |-> BaseRoute[r][3]]

=============================================================================
