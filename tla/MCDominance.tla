---------------------------- MODULE MCDominance ----------------------------
(***************************************************************************)
(* Dominance over every graph of N blocks in which a block has at most two *)
(* successors, as a fallthrough and a branch target give; the two may      *)
(* coincide, and any block may be unreachable or jump to the entry.        *)
(***************************************************************************)
EXTENDS Dominance

CONSTANT N

MCBlock == 0..(N - 1)

\* The successor lists are ascending; the graphs of all labellings are there.
SuccessorLists ==
    {<<>>} \cup {<<b>> : b \in MCBlock} \cup
    {<<b, c>> : b \in MCBlock, c \in MCBlock}

MCGraphs ==
    [MCBlock -> {l \in SuccessorLists : Len(l) = 2 => l[1] <= l[2]}]
=============================================================================
