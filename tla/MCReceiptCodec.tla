---------------------------- MODULE MCReceiptCodec ----------------------------
(* Small instances of ReceiptCodec for TLC. *)
EXTENDS ReceiptCodec

\* One and two kdamonds in every state, and eight and nine of which all, some
\* or none run.
MCHierarchies ==
    {<<n, tuned, running>> : n \in 1 .. 2, tuned \in SUBSET {0, 1}, running \in SUBSET {0, 1}}
    \cup {<<n, {0}, running>> : n \in 8 .. 9, running \in {{}, {3}, 0 .. 7}}

MCSmall == {h \in MCHierarchies : h[2] \cup h[3] \subseteq 0 .. h[1] - 1}

\* A receipt of every shape: the second kdamond is tuned, both run.
MCDamaged == {<<2, {1}, {0, 1}>>}

\* An empty list, the shortest string, a digit, and a number no field holds.
MCBytes == {0, 1, 2, 49, 255}
=============================================================================
