----------------------------- MODULE HansaPlan -----------------------------
(***************************************************************************)
(* How a bot thinks (bot/routebrain.go): the plans it makes for a route,   *)
(* tried out on its own copy of the table and taken back, and the choice   *)
(* among them.                                                             *)
(*                                                                         *)
(* A table here is a function from places to pieces: the squares of the    *)
(* board and, told apart by slot as in the code, the places of the bot's   *)
(* own player board.  Places of other players' boards are outside of it.   *)
(*                                                                         *)
(* Of the fitness of a plan the model keeps whether it is zero, which the  *)
(* weights decide (weights.go), and leaves open which of the plans with a  *)
(* positive fitness is the best.                                           *)
(***************************************************************************)
EXTENDS HansaGame, SequencesExt

CONSTANTS
    Bot,        \* the player who is a bot
    NSlots      \* slots in stock and in supply

ASSUME BotAssumption ==
    /\ Bot \in Players
    /\ NSlots \in Nat \ {0}
    /\ NSlots >= StartPieces("Cube") + StartPieces("Disc")

PoolSlots  == {"stock", "supply"} \X {Bot} \X (1 .. NSlots)
TrackSlots == UNION {{<<a, Bot, i>> : i \in 1 .. StartTrack[a]} : a \in TrackAwards}
BotSlots   == PoolSlots \cup TrackSlots

Mine(shape) == Piece(Bot, shape)

Step(source, dest, piece) == [Source |-> source, Dest |-> dest, Piece |-> piece]

-----------------------------------------------------------------------------
(* Doing and undoing subactions (table.go).                                *)

\* Where applySubaction panics: a place or the piece is missing, a swap with a
\* player board, or a bump over an occupied bump zone.
Explodes(t, s) ==
    \/ NoLocation \in {s.Source, s.Dest} \/ s.Piece = NoPiece
    \/ /\ s.Dest \in DOMAIN t
       /\ t[s.Dest] # NoPiece
       /\ s.Dest \in SpotSquares => t[BumpZone(s.Dest)] # NoPiece

ApplySubaction(t, s) ==
    LET into == s.Dest \in DOMAIN t
        from == CASE s.Source \notin DOMAIN t -> t
                  [] s.Source \in DOMAIN t /\ into /\ t[s.Dest] # NoPiece ->
                         [t EXCEPT ![s.Source] = NoPiece]
                  [] OTHER -> Lift(t, s.Source)
    IN  IF into THEN Drop(from, s.Dest, s.Piece) ELSE from

UndoSubaction(t, s) == ApplySubaction(t, Step(s.Dest, s.Source, s.Piece))

ApplySubactions(t, ss) == FoldLeft(ApplySubaction, t, ss)

\* Mutant of UndoSubactions: undone in the order they were done.
UndoForward(t, ss) == FoldLeft(UndoSubaction, t, ss)

\* Undone from the last to the first.
UndoSubactions(t, ss) == FoldLeft(UndoSubaction, t, Reverse(ss))

-----------------------------------------------------------------------------
(* The bot's own pieces.                                                   *)

\* The first slot of a pool that holds this piece (NoPiece: that is open).
FirstSlot(t, pool, piece) ==
    LET found == {i \in 1 .. NSlots : t[<<pool, Bot, i>>] = piece}
    IN  IF found = {} THEN NoLocation ELSE <<pool, Bot, Min(found)>>

PoolCount(t, pool) ==
    Cardinality({i \in 1 .. NSlots : t[<<pool, Bot, i>>] # NoPiece})

MyStockAndSupplyCount(t) == PoolCount(t, "stock") + PoolCount(t, "supply")

MyTracks(t) == [a \in TrackAwards |->
    Cardinality({i \in 1 .. StartTrack[a] : t[<<a, Bot, i>>] # NoPiece})]

\* The first of these slots that exists.
Preferred(slots) ==
    LET found == {i \in DOMAIN slots : slots[i] # NoLocation}
    IN  IF found = {} THEN NoLocation ELSE slots[Min(found)]

\* A piece of the supply to place: of the given shape, or a cube rather than
\* a disc.
FromSupply(t, shape) ==
    LET at(s) == FirstSlot(t, "supply", Mine(s))
    IN  IF shape = "None" THEN Preferred(<<at("Cube"), at("Disc")>>) ELSE at(shape)

\* What the bot knows when it starts to plan; the bump zones are not looked at.
BuildContext(t, actions) ==
    [ActionsLeft |-> actions,
     PoolDisc  |-> \E pool \in {"stock", "supply"} :
                       FirstSlot(t, pool, Mine("Disc")) # NoLocation,
     BoardDisc |-> \E s \in SpotSquares : t[s] = Mine("Disc")]

-----------------------------------------------------------------------------
(* A plan in the making: the table with it done so far, the actions left,  *)
(* the subactions, the shape still wanted on the route, whether the route  *)
(* can be filled, the open spots and moves left for moving, the last       *)
(* subaction of every bump, and whether a subaction panicked.              *)

Do(m, s) == [m EXCEPT !.table = ApplySubaction(@, s), !.subactions = Append(@, s),
                      !.exploded = @ \/ Explodes(m.table, s)]

Times(n) == [i \in 1 .. IF n < NSlots THEN n ELSE NSlots |-> i]

\* One piece from stock to supply, a disc if there is one.
BagOne(m, i) ==
    LET l == Preferred(<<FirstSlot(m.table, "stock", Mine("Disc")),
                         FirstSlot(m.table, "stock", Mine("Cube"))>>)
    IN  IF l = NoLocation THEN m
        ELSE Do(m, Step(l, FirstSlot(m.table, "supply", NoPiece), m.table[l]))

\* A bags action; it does nothing when the wanted shape is not in stock.
Bags(m) ==
    LET bag(x, l) == Do(x, Step(l, FirstSlot(x.table, "supply", NoPiece), x.table[l]))
        start(l)  == IF l = NoLocation THEN m ELSE bag(m, l)
        stop(x)   == IF x = m THEN 0 ELSE GetBags(MyTracks(m.table)) - 1
        go(x, n)  == FoldLeft(BagOne, x, Times(n))
        more(x)   == go(x, stop(x))
    IN  IF m.shape = "None" THEN go(m, GetBags(MyTracks(m.table)))
                            ELSE more(start(FirstSlot(m.table, "stock", Mine(m.shape))))

\* The plan ends before the route is full.
GiveUp(m, used) ==
    [m EXCEPT !.left = @ - used, !.shape = "None", !.complete = FALSE]

\* The piece from source goes to the spot; it has taken this many actions.
PlaceFrom(source, m, o, actions) ==
    [Do(m, Step(source, o, m.table[source])) EXCEPT !.left = @ - actions, !.shape = "None"]

\* Mutant of PlaceAfterBags: nobody asks whether an action is left.
PlaceAfterBagsAnyway(m, ready, o) ==
    IF ready = m THEN GiveUp(m, 0)
                 ELSE PlaceFrom(FromSupply(ready.table, m.shape), ready, o, 2)

\* ... after a bags action, if that was of use and an action is left.
PlaceAfterBags(m, ready, o) ==
    IF ready = m THEN GiveUp(m, 0)
    ELSE IF m.left = 1 THEN GiveUp(ready, 1)
    ELSE PlaceFrom(FromSupply(ready.table, m.shape), ready, o, 2)

PlacePieceBagsIfNecessary(m, o) ==
    IF FromSupply(m.table, m.shape) = NoLocation
    THEN PlaceAfterBags(m, Bags(m), o)
    ELSE PlaceFrom(FromSupply(m.table, m.shape), m, o, 1)

PayOne(m, i) ==
    LET source == FromSupply(m.table, "None")
    IN  Do(m, Step(source, FirstSlot(m.table, "stock", NoPiece), m.table[source]))

\* Pieces needed in supply to bump this one.
Needed(piece) == BumpCost(piece) + 1

\* The bump ends with the last payment.
Paid(m) == [m EXCEPT !.bumps = Append(@, Len(m.subactions))]

\* The piece from source takes the place of another player's.
BumpFrom(source, m, o, actions) ==
    Paid(FoldLeft(PayOne, PlaceFrom(source, m, o, actions), Times(BumpCost(m.table[o]))))

BumpAfterBags(m, ready, o) ==
    IF ready = m THEN GiveUp(m, 0)
    ELSE IF m.left = 1 THEN GiveUp(ready, 1)
    ELSE BumpFrom(FromSupply(ready.table, m.shape), ready, o, 2)

BumpPieceBagsIfNecessary(m, o) ==
    LET needed == Needed(m.table[o])
        has(pool) == m.shape = "None" \/ FirstSlot(m.table, pool, Mine(m.shape)) # NoLocation
    IN  IF PoolCount(m.table, "supply") >= needed /\ has("supply")
        THEN BumpFrom(FromSupply(m.table, m.shape), m, o, 1)
        ELSE IF /\ MyStockAndSupplyCount(m.table) >= needed
                /\ has("supply") \/ has("stock")
        THEN BumpAfterBags(m, Bags(m), o)
        ELSE GiveUp(m, 0)

\* The next spot of the route, open or held by another player.
FillSpot(m, o) ==
    IF m.left = 0 \/ ~m.complete THEN [m EXCEPT !.complete = FALSE]
    ELSE IF m.table[o] = NoPiece THEN PlacePieceBagsIfNecessary(m, o)
    ELSE BumpPieceBagsIfNecessary(m, o)

\* The next movable piece goes to the first open spot; when the moves of an
\* action are used up another action is begun.
MovePiece(m, p) ==
    LET again == m.moves = 0
        books == GetBooks(MyTracks(m.table))
    IN  IF m.open = <<>> THEN m
        ELSE IF again /\ m.left = 0 THEN [m EXCEPT !.complete = FALSE]
        ELSE [Do(m, Step(p.Location, Head(m.open), p.Piece)) EXCEPT
                 !.open = Tail(@),
                 !.left = IF again THEN @ - 1 ELSE @,
                 !.moves = (IF again THEN books ELSE @) - 1]

\* Mutant of MoveAll: the first move action is not counted.
MoveAllFree(m, movable) ==
    IF m.left > 0 /\ movable # <<>>
    THEN FoldLeft(MovePiece, [m EXCEPT !.moves = GetBooks(MyTracks(m.table))], movable)
    ELSE m

MoveAll(m, movable) ==
    IF m.left > 0 /\ movable # <<>>
    THEN FoldLeft(MovePiece,
                  [m EXCEPT !.left = @ - 1, !.moves = GetBooks(MyTracks(m.table))],
                  movable)
    ELSE m

ClearSpot(m, s) ==
    Do(m, Step(s, FirstSlot(m.table, "stock", NoPiece), m.table[s]))

-----------------------------------------------------------------------------
(* Plans for one route.                                                    *)

NoPlan(t) ==
    [Goal |-> "None", RouteId |-> 0, Length |-> "None", Actions |-> 0, Worth |-> FALSE,
     Moved |-> FALSE, LeftoverMoves |-> 0, Subactions |-> <<>>, Bumps |-> <<>>,
     Exploded |-> FALSE, After |-> t]

Draft(t, actions, shape, open) ==
    [table |-> t, left |-> actions, shape |-> shape, complete |-> TRUE, open |-> open,
     moves |-> 0, subactions |-> <<>>, bumps |-> <<>>, exploded |-> FALSE]

SpotSeq(r) == [i \in 1 .. Spots[r] |-> <<"spot", r, i>>]

Swapped(seq, i) == [seq EXCEPT ![1] = seq[i], ![i] = seq[1]]

\* The plan as the draft leaves it; Moved says whether it was asked to move
\* pieces, After is the table once it is undone.
Finished(m, goal, r, actions, length, worth, movable) ==
    [Goal |-> goal, RouteId |-> r, Length |-> length, Actions |-> actions - m.left,
     Worth |-> worth, Moved |-> movable # <<>>, LeftoverMoves |-> m.moves, Subactions |-> m.subactions,
     Bumps |-> m.bumps, Exploded |-> m.exploded,
     After |-> UndoSubactions(m.table, m.subactions)]

\* The route is cleared when it is full and an action is left.
ClearRoute(m, r) ==
    IF m.complete /\ m.left # 0
    THEN FoldLeft(ClearSpot, [m EXCEPT !.left = @ - 1], SpotSeq(r))
    ELSE m

PointsLength(filled) ==
    IF filled.complete
    THEN CASE filled.left = 0 -> "Almost" [] filled.left = 1 -> "Full" [] OTHER -> "Short"
    ELSE IF filled.left = 0 THEN "Long" ELSE "Uncompletable"

\* Bumping that costs this much and leaves less than two pieces is worth nothing.
BumpWorth(t, cost) == cost = 0 \/ Min({10, MyStockAndSupplyCount(t)}) - cost >= 2

\* The piece of the wanted shape, if there is one, is moved first.
ShapeFirst(pieces, wanted) ==
    LET fit == {i \in DOMAIN pieces : pieces[i].Piece.Shape = wanted}
    IN  IF fit = {} THEN pieces ELSE Swapped(pieces, Min(fit))

\* Fill route r, with the movable pieces first, and clear it.  A piece of the
\* given shape is wanted on the route.  A piece on the player board counts as
\* being on the route whose id is the player's index.
GeneratePointsPlan(t, actions, r, wanted, movable) ==
    LET others(shape) == SelectSeq(SpotSeq(r), LAMBDA s :
                             t[s].PlayerColor \notin {Bot, NoPlayer} /\ t[s].Shape = shape)
        open   == SelectSeq(SpotSeq(r), LAMBDA s : t[s] = NoPiece)
        mine   == SelectSeq(movable, LAMBDA p : p.Location[2] # r)
        there  == \E s \in SpotsOf(r) : t[s] = Mine(wanted)
        fits   == \E i \in DOMAIN mine : mine[i].Piece.Shape = wanted
        shape  == IF there \/ fits THEN "None" ELSE wanted
        pieces == IF there THEN mine ELSE ShapeFirst(mine, wanted)
        cost   == Len(others("Cube")) + 2 * Len(others("Disc"))
        fill(m) == FoldLeft(FillSpot, m, m.open \o others("Cube") \o others("Disc"))
        plan(m) == Finished(ClearRoute(m, r), "Points", r, actions, PointsLength(m),
                            BumpWorth(t, cost), movable)
    IN  IF movable # <<>> /\ (open = <<>> \/ mine = <<>> \/ shape # "None") THEN NoPlan(t)
        ELSE plan(fill(MoveAll(Draft(t, actions, shape, open), pieces)))

Clears(p) == p.Length \in {"Short", "Full"}

(* The award of the route.                                                 *)

AwardOf(r) == IF Award[LeftCity[r]] # "None" THEN Award[LeftCity[r]]
                                             ELSE Award[RightCity[r]]

\* The best spot of the Coellen table that the bot may take.
GetCoellenTarget(t) ==
    LET may == {d \in CoellenSquares :
                    /\ Coellen[d[2]][d[3]].Priviledge <= GetPriviledge(MyTracks(t))
                    /\ t[d] = NoPiece}
    IN  IF may = {} THEN NoLocation
        ELSE CHOOSE d \in may : \A e \in may : e[3] <= d[3]

AwardWanted(t, c, a) ==
    CASE a = "None"    -> FALSE
      [] a = "Coellen" -> (c.PoolDisc \/ c.BoardDisc) /\ GetCoellenTarget(t) # NoLocation
      [] OTHER         -> MyTracks(t)[a] > 0

\* The last disc that goes to the player board goes to the Coellen table.
ToCoellen(t, p) ==
    LET discs == {i \in DOMAIN p.Subactions :
                      /\ p.Subactions[i].Dest[1] \in {"stock", "supply"}
                      /\ p.Subactions[i].Piece.Shape = "Disc"}
    IN  IF discs = {} THEN p
        ELSE [p EXCEPT !.Subactions[Max(discs)].Dest = GetCoellenTarget(t)]

\* The leftmost piece of the track goes to the first slot of the supply that
\* is then open.
WithLevelUp(t, p, a) ==
    LET u    == ApplySubactions(t, p.Subactions)
        from == <<a, Bot, Min({i \in 1 .. StartTrack[a] : u[<<a, Bot, i>>] # NoPiece})>>
    IN  [p EXCEPT !.Subactions =
            Append(@, Step(from, FirstSlot(u, "supply", NoPiece), Mine(TrackShape(a))))]

\* The points plan p, aimed at award a.
ForAward(t, p, a) ==
    IF p.Goal = "None" THEN p
    ELSE LET q == [p EXCEPT !.Goal = "Award"]
         IN  CASE ~Clears(p)                   -> q
               [] Clears(p) /\ a = "Coellen"   -> ToCoellen(t, q)
               [] Clears(p) /\ a # "Coellen"   -> WithLevelUp(t, q, a)

GenerateAwardPlan(t, c, r, movable) ==
    LET a == AwardOf(r)
    IN  IF ~AwardWanted(t, c, a) THEN NoPlan(t)
        ELSE ForAward(t, GeneratePointsPlan(t, c.ActionsLeft, r,
                             IF a = "Coellen" THEN "Disc" ELSE "None", movable), a)

(* An office at an end of the route.                                       *)

GetBuildOfficeInfo(t, city) ==
    LET free == {i \in DOMAIN Offices[city] : t[<<"office", city, i>>] = NoPiece}
    IN  IF free = {} \/ GetPriviledge(MyTracks(t)) < Offices[city][Min(free)].Priviledge
        THEN NoLocation
        ELSE <<"office", city, Min(free)>>

\* The points plan p with the last fitting piece of the route sent to office d;
\* "Failed" when the route is cleared and no piece of it fits.
ForOffice(p, d) ==
    LET fits == {i \in DOMAIN p.Subactions :
                     /\ p.Subactions[i].Source[1] = "spot"
                     /\ p.Subactions[i].Source[2] = p.RouteId
                     /\ p.Subactions[i].Piece.Shape = Offices[d[2]][d[3]].Shape}
    IN  IF p.Goal = "None" THEN p
        ELSE IF ~Clears(p) THEN [p EXCEPT !.Goal = "Office"]
        ELSE IF fits = {} THEN [p EXCEPT !.Goal = "Failed"]
        ELSE [p EXCEPT !.Goal = "Office", !.Subactions[Max(fits)].Dest = d]

OfficePlanFor(t, c, r, city, movable) ==
    LET d == GetBuildOfficeInfo(t, city)
        shape == Offices[city][d[3]].Shape
    IN  IF d = NoLocation \/ (shape = "Disc" /\ ~c.PoolDisc) THEN NoPlan(t)
        ELSE ForOffice(GeneratePointsPlan(t, c.ActionsLeft, r, shape, movable), d)

\* The better of the plans for the two cities.
BetterOffice(t, both) ==
    IF \E p \in both : p.Goal = "Failed"
    THEN {[NoPlan(t) EXCEPT !.After = p.After, !.Exploded = p.Exploded] : p \in both}
    ELSE both

OfficePlans(t, c, r, movable) ==
    BetterOffice(t, {OfficePlanFor(t, c, r, city, movable) : city \in {LeftCity[r], RightCity[r]}})

(* Blocking a route that somebody else is on.                              *)

BlockWorth(t) == MyStockAndSupplyCount(t) >= 3

BlockLength(filled) ==
    CASE ~filled.complete                   -> "Long"
      [] filled.complete /\ filled.left > 0 -> "Short"
      [] filled.complete /\ filled.left = 0 -> "Full"

GenerateBlockPlan(t, c, r, movable) ==
    LET open   == SelectSeq(SpotSeq(r), LAMBDA s : t[s] = NoPiece)
        alone  == \A s \in SpotsOf(r) : t[s] = NoPiece
        fill(m) == FoldLeft(FillSpot, m, m.open)
        plan(m) == Finished(m, "Block", r, c.ActionsLeft, BlockLength(m),
                            BlockWorth(t), movable)
    IN  IF open = <<>> \/ alone \/ \E s \in SpotsOf(r) : t[s].PlayerColor = Bot
        THEN NoPlan(t)
        ELSE plan(fill(MoveAll(Draft(t, c.ActionsLeft, "None", open), movable)))

PlansFor(t, c, r, movable) ==
    {GenerateAwardPlan(t, c, r, movable),
     GeneratePointsPlan(t, c.ActionsLeft, r, "None", movable),
     GenerateBlockPlan(t, c, r, movable)} \cup OfficePlans(t, c, r, movable)

\* A plan in the making ended in a panic.
SomeExplode(plans) == \E p \in plans : p.Exploded

\* generatePlan compares the table before and after and panics.
MutatesTable(t, plans) == \E p \in plans : ~p.Exploded /\ p.After # t

-----------------------------------------------------------------------------
(* The choice of a plan.                                                   *)

BoardPieces(t) ==
    {[Piece |-> t[s], Location |-> s] : s \in {o \in SpotSquares : t[o].PlayerColor = Bot}}

AllPlans(t, c, movables) ==
    UNION {PlansFor(t, c, r, movable) : r \in Routes, movable \in {<<>>, movables}}

\* Any plan of highest worth.  The order of the sort, which is not stable, and
\* the worth of leftover moves leave open which: a route may be cleared for the
\* points alone although its award could be taken.
BestPlans(plans) ==
    LET real == {p \in plans : p.Goal # "None"}
    IN  {p \in real : p.Worth \/ \A q \in real : ~q.Worth}

\* Where moves that are left over may go: to spots other plans would fill.
LeftoverTargets(plan, plans) ==
    UNION {{q.Subactions[i].Dest : i \in {j \in DOMAIN q.Subactions :
               /\ q.Subactions[j].Dest \in SpotSquares
               /\ q.Subactions[j].Dest[2] # plan.RouteId
               /\ j < Len(q.Subactions) => q.Subactions[j + 1].Dest[1] # "stock"}} :
           q \in plans \ {plan}}

\* The plan with leftover moves put before its first move.
UseLeftoverMoves(plan, targets, movables) ==
    LET moved   == {plan.Subactions[i].Source : i \in DOMAIN plan.Subactions}
        free    == SelectSeq(movables, LAMBDA p :
                       p.Location \notin moved /\ p.Location[2] # plan.RouteId)
        most    == Min({plan.LeftoverMoves, Len(free)})
        first   == Min({i \in DOMAIN plan.Subactions :
                        /\ plan.Subactions[i].Source \in RouteSquares
                        /\ plan.Subactions[i].Dest \in SpotSquares})
        with(f) == [plan EXCEPT
            !.Subactions = SubSeq(@, 1, first - 1)
                               \o [i \in DOMAIN f |-> Step(free[i].Location, f[i], free[i].Piece)]
                               \o SubSeq(@, first, Len(@)),
            !.Bumps = [i \in DOMAIN @ |-> @[i] + Len(f)]]
    IN  IF most = 0 \/ targets = {} THEN {plan}
        ELSE {with(f) : f \in UNION {[1 .. k -> targets] : k \in 1 .. most}}

PlansToPlay(plans, movables) ==
    UNION {UseLeftoverMoves(p, LeftoverTargets(p, plans), movables) : p \in BestPlans(plans)}

\* Mutant of UntilBump: the plan is not cut.
NotCut(p) == p.Subactions

\* What of a plan is played at once: up to the payment of its first bump.
UntilBump(p) == IF p.Bumps = <<>> THEN p.Subactions
                                  ELSE SubSeq(p.Subactions, 1, p.Bumps[1])

=============================================================================
