----------------------------- MODULE ClientLink -----------------------------
(***************************************************************************)
(* What client/multiweb.go promises to the lobby, to a game and to the     *)
(* user handler: one link per identity, whatever its connections do.       *)
(*                                                                         *)
(* Upward, the messages 1, 2, 3, ... of one connection are delivered in    *)
(* the order in which they were sent. Downward, the owner posts 1, 2, 3,   *)
(* ...; a connection that enters gets the posts from some point on, not    *)
(* later than the next one, without gaps, until it leaves.                 *)
(***************************************************************************)
EXTENDS Naturals, Sequences

CONSTANT Conns

VARIABLES
    place,      \* whether a connection is outside, inside or has left
    sent,       \* number of messages each connection has sent
    up,         \* up[c]: sent by c, not yet delivered
    posted,     \* number of posts
    down        \* down[c]: posts not yet received by c

linkVars == <<place, sent, up, posted, down>>

Inside == {c \in Conns : place[c] = "inside"}

LinkInit ==
    /\ \E first \in Conns :
          place = [c \in Conns |-> IF c = first THEN "inside" ELSE "outside"]
    /\ sent = [c \in Conns |-> 0]
    /\ up = [c \in Conns |-> <<>>]
    /\ posted = 0
    /\ down = [c \in Conns |-> <<>>]

\* A connection may send messages before it enters.
Submit(c) ==
    /\ place[c] # "left"
    /\ sent' = [sent EXCEPT ![c] = @ + 1]
    /\ up' = [up EXCEPT ![c] = Append(@, sent[c] + 1)]
    /\ UNCHANGED <<place, posted, down>>

Deliver(c) ==
    /\ up[c] # <<>>
    /\ up' = [up EXCEPT ![c] = Tail(@)]
    /\ UNCHANGED <<place, sent, posted, down>>

Post ==
    /\ posted' = posted + 1
    /\ down' = [c \in Conns |->
                  IF c \in Inside THEN Append(down[c], posted + 1) ELSE down[c]]
    /\ UNCHANGED <<place, sent, up>>

Receive(c) ==
    /\ down[c] # <<>>
    /\ down' = [down EXCEPT ![c] = Tail(@)]
    /\ UNCHANGED <<place, sent, up, posted>>

\* A connection enters. If nobody is inside, what those that left had sent and
\* nobody has read is dropped.
Enter(c) ==
    /\ place[c] = "outside"
    /\ place' = [place EXCEPT ![c] = "inside"]
    /\ \E first \in 1..(posted + 1) :
          down' = [down EXCEPT ![c] = [i \in 1..(posted + 1 - first) |-> first + i - 1]]
    /\ up' = [d \in Conns |->
                IF Inside = {} /\ place[d] = "left" THEN <<>> ELSE up[d]]
    /\ UNCHANGED <<sent, posted>>

Leave(c) ==
    /\ c \in Inside
    /\ place' = [place EXCEPT ![c] = "left"]
    /\ down' = [down EXCEPT ![c] = <<>>]
    /\ UNCHANGED <<sent, up, posted>>

LinkNext ==
    \/ Post
    \/ \E c \in Conns :
         Submit(c) \/ Deliver(c) \/ Receive(c) \/ Enter(c) \/ Leave(c)

LinkSpec == LinkInit /\ [][LinkNext]_linkVars
=============================================================================
