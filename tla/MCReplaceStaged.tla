--------------------------- MODULE MCReplaceStaged ---------------------------
(* A small instance of ReplaceStaged for TLC. *)
EXTENDS ReplaceStaged, TLC

\* One kdamond: a count (1) of at most two children (2, 3), an unknown leaf (4)
\* below the first, and a plain value (5).
MCLeaves == 1 .. 5
MCTyped == {1, 2, 3, 5}
MCDir == [l \in MCLeaves |-> 0]
MCUnder == (1 :> {2, 3, 4})
MCMade == (1 :> [v \in Values |-> CASE v = 0 -> {} [] v = 1 -> {2, 4}
                                    [] OTHER -> {2, 3, 4}])
MCInitial == {<<1, 3, Absent, 3, 3>>, <<2, 3, 3, 3, 3>>}
MCRequests ==
    {[l \in MCTyped |-> c[l]] : c \in {<<2, 3, 4, 3, 3>>, <<1, 4, Absent, 3, 4>>}}
MCRogueWritable == {<<1, 1>>, <<1, 2>>, <<2, 5>>, <<4, 5>>, <<5, 5>>, <<5, 3>>}
=============================================================================
