--------------------------- MODULE MCPauseContext ---------------------------
(* A small instance of PauseContext for TLC. *)
EXTENDS PauseContext, TLC

\* kdamond 0: a count (1) of one context with its pause file (2), a plain value
\* (3), an auto-tuned interval (4) and an unknown leaf (5); kdamond 1, not
\* started: a plain value (6).
MCLeaves == 1 .. 6
MCDir == <<0, 0, 0, 0, 0, 1>>
MCUnder == (1 :> 2 .. 5)
MCMade == (1 :> [v \in Values |-> IF v = 0 THEN {} ELSE 2 .. 5])
MCLeaf == <<1, No, 3, 3, 3, 3>>
MCThread == (0 :> 1 @@ 1 :> 0)

\* The only context removed, the pause file, a value written and written back,
\* an unknown value, a value of the other kdamond.
MCRogueWritable ==
    {<<1, 0>>, <<2, No>>, <<2, Yes>>, <<3, 5>>, <<3, 3>>, <<5, 5>>, <<6, 5>>}
=============================================================================
