------------------------- MODULE MCUpdateTransaction -------------------------
(* Small instances of UpdateTransaction for TLC. *)
EXTENDS UpdateTransaction, SequencesExt

\* kdamond 0: a count (1) of at most two children (2, 3), an unknown leaf (4)
\* below the first child, and a plain value (5).
\* kdamond 1: a plain value (6), an auto-tuned interval (7), an unknown leaf (8).
MCLeaves == 1 .. 8
MCDir == [l \in MCLeaves |-> IF l <= 5 THEN 0 ELSE 1]
MCTyped == {1, 2, 3, 5, 6, 7}
MCTuned == {7}
MCCounts == {1}
MCUnder == (1 :> {2, 3, 4})
MCMade == (1 :> [v \in Values |-> CASE v = 0 -> {} [] v = 1 -> {2, 4}
                                    [] OTHER -> {2, 3, 4}])
MCGoals == {1, 2, 3, 4}

MCBefore == <<1, 3, Absent, 3, 3, 3, 3, 3>>
MCTwoChildren == <<2, 3, 3, 3, 3, 3, 3, 3>>

Asking(kind, contents, leaves, selected) ==
    [kind |-> kind, selected |-> selected,
     want |-> [l \in leaves |-> contents[l]]]

\* A second child; new values in both kdamonds; the only child dropped; an
\* update of kdamond 1 that also differs for the unselected kdamond 0; and, when
\* there are two children, the first one dropped while the count stays.
MCUpdates ==
    { Asking("update", <<2, 3, 4, 3, 3, 3, 3, 3>>, MCTyped, <<0>>),
      Asking("update", <<1, 3, Absent, 3, 4, 4, 3, 3>>, MCTyped, <<1, 0>>),
      Asking("update", <<1, Gone, Absent, 3, 3, 3, 3, 3>>, MCTyped, <<0>>),
      Asking("update", <<1, 3, Absent, 3, 4, 4, 3, 3>>, MCTyped, <<1>>),
      Asking("update", <<2, Gone, 3, 3, 3, 3, 3, 3>>, MCTyped, <<0>>) }

\* A changed goal, one goal more, and no goal.
MCGoalUpdates ==
    { Asking("goals", <<1, 4, Absent>>, {1, 2, 3}, <<0>>),
      Asking("goals", <<2, 3, 4>>, {1, 2, 3}, <<0>>),
      Asking("goals", <<0, Absent, Absent>>, {1, 2, 3}, <<0>>) }

MCRequests == MCUpdates \cup MCGoalUpdates

MCInitialLeaves == {MCBefore, MCTwoChildren}
MCInitialThreads == {<<1, 2>>, <<1, 0>>}
MCThreads == {[i \in K |-> t[i + 1]] : t \in MCInitialThreads}

\* A count (both ways), an attribute a request writes, one none writes (and back), unknown ones.
MCRogueWritable ==
    {<<1, 1>>, <<1, 2>>, <<2, 5>>, <<4, 5>>, <<5, 5>>, <<5, 3>>, <<6, 5>>, <<8, 5>>}
=============================================================================
