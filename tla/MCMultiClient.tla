--------------------------- MODULE MCMultiClient ---------------------------
(***************************************************************************)
(* Small clients for checking MultiClient with TLC.                        *)
(***************************************************************************)
EXTENDS MultiClient

\* The first connection can fill from and the reader's hand.
TwoThenNone == [c \in Conns |-> IF c = First THEN 2 ELSE 0]

Silent == [c \in Conns |-> 0]
=============================================================================
