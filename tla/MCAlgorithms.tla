---------------------------- MODULE MCAlgorithms ----------------------------
(* A bounded space of inputs of the algorithms for TLC. *)
EXTENDS Algorithms

MCLevels == 0..2

\* 1 is a kind of 2, which is a kind of 3.
MCOntology == {<<1, 2>>, <<2, 3>>}

Turn(after, length, speaker, seam) ==
    [after |-> after, length |-> length, speaker |-> speaker, seam |-> seam]

\* Short turns of the three speakers and of none; a long one others fall into;
\* one after a silence, one in a new block.
MCTurnShapes ==
    {Turn(1, 1, s, FALSE) : s \in 0..3}
        \union {Turn(1, 5, 1, FALSE), Turn(4, 1, 2, FALSE), Turn(1, 1, 3, TRUE)}

\* Turns of three voices and of none, clean enough or not, near or far; and one of
\* another label.
MCSplitShapes ==
    {[after |-> a, speaker |-> 1, voice |-> v, clean |-> c] :
        a \in {1, 3}, v \in {1, 2, 4}, c \in {0, 2}}
      \union {[after |-> a, speaker |-> 1, voice |-> v, clean |-> 1] : a \in {1, 3}, v \in {0, 4}}
      \union {[after |-> 1, speaker |-> 2, voice |-> 1, clean |-> 2]}

\* The next hop, or after missing windows; scores of the three classes.
MCWindowShapes ==
    {[hops |-> h, score |-> s] : h \in {1, 3}, s \in {<<0, 0, 0>>, <<2, 0, 1>>, <<1, 2, 0>>,
                                                        <<2, 2, 0>>}}
=============================================================================
