------------------------------ MODULE HansaTurn ------------------------------
(***************************************************************************)
(* What the turn engine promises about whose move it is, with the board    *)
(* left out: turns go round the table; the player on turn spends actions   *)
(* one at a time; a bump once paid for is answered by its victim before    *)
(* the turn goes on; a clearing is finished before the turn is             *)
(* passed; and once the end of the game is reached no action is begun and  *)
(* nobody else gets a turn.  HansaGame implements this specification.      *)
(*                                                                         *)
(* Pass is enabled while a bump is being paid, as it is in handleEndTurn.  *)
(***************************************************************************)
EXTENDS Integers

CONSTANT NPlayers

VARIABLES
    player,     \* the player on turn
    phase,      \* "open", "paying", "answering" or "clearing"
    victim,     \* who is bumped while paying or answering, else -1
    left,       \* actions left in this turn
    ending,     \* this is the last turn
    over        \* the game is being scored

vars == <<player, phase, victim, left, ending, over>>

Nobody == -1

Init ==
    /\ player = 0 /\ phase = "open" /\ victim = Nobody /\ left = 2
    /\ ending = FALSE /\ over = FALSE

\* Begin an action with no consequence for the turn, or a bump, or a clearing.
\* The first step of a clearing can already reach the end of the game.
Spend ==
    /\ phase = "open" /\ left > 0 /\ ~over
    /\ left' = left - 1
    /\ \/ phase' = "open" /\ UNCHANGED <<victim, ending>>
       \/ /\ phase' = "paying"
          /\ victim' \in 0 .. NPlayers - 1 /\ victim' # player
          /\ UNCHANGED ending
       \/ phase' = "clearing" /\ ending' \in {ending, TRUE} /\ UNCHANGED victim
    /\ UNCHANGED <<player, over>>

\* The last piece owed for a bump is paid.
Paid ==
    /\ phase = "paying"
    /\ phase' = "answering"
    /\ UNCHANGED <<player, victim, left, ending, over>>

\* The victim declares the answer to the bump complete.
Answered ==
    /\ phase = "answering"
    /\ phase' = "open" /\ victim' = Nobody
    /\ UNCHANGED <<player, left, ending, over>>

\* A step of a clearing may gain an action, reach the end of the game, and
\* finish the clearing.  If the game ends no action is left afterwards.
ClearStep ==
    /\ phase = "clearing"
    /\ phase' \in {"clearing", "open"}
    /\ ending' \in {ending, TRUE}
    /\ left' \in IF ending' /\ phase' = "open" THEN {0} ELSE {left, left + 1}
    /\ UNCHANGED <<player, victim, over>>

\* The turn passes to the next player with two to five actions.
Pass ==
    /\ phase \in {"open", "paying"} /\ ~ending
    /\ player' = (player + 1) % NPlayers
    /\ phase' = "open" /\ victim' = Nobody
    /\ left' \in 2 .. 5
    /\ UNCHANGED <<ending, over>>

\* The last turn ends and the game is scored.
Finish ==
    /\ phase = "open" /\ ending
    /\ over' = TRUE
    /\ UNCHANGED <<player, phase, victim, left, ending>>

Next == Spend \/ Paid \/ Answered \/ ClearStep \/ Pass \/ Finish

Spec == Init /\ [][Next]_vars

=============================================================================
