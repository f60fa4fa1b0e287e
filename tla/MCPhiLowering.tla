---------------------------- MODULE MCPhiLowering ---------------------------
(***************************************************************************)
(* Small instances of PhiLowering.                                         *)
(*                                                                         *)
(* WideInputs: up to four live phi nodes on one ordinary edge, with every  *)
(* choice of operands, so every shape of chain, fan and cycle (two         *)
(* disjoint cycles included) occurs.  One identifier is spelled like a     *)
(* temporary (1), another such name (0) is used elsewhere in the method.   *)
(*                                                                         *)
(* EdgeInputs: up to two phi nodes, with every combination of missing      *)
(* operands, dead targets, FinallyException edges and virtual-entry        *)
(* operands.                                                               *)
(***************************************************************************)
EXTENDS PhiLowering

CONSTANTS a, b, c, P1, P2

MCVar == {a, b, c}
MCPred == {P1, P2, VirtualEntry}
MCReserved == {0, c}

\* The order of the phi nodes; any other order is a renaming of this one.
TargetOrder == <<a, b, 1, c>>

WideInputs ==
    UNION {{[phis |-> [i \in 1..n |-> [target |-> TargetOrder[i],
                                       live |-> TRUE,
                                       operands |-> [p \in {P1} |-> src[i]]]],
             ordinary |-> {P1}] :
               src \in [1..n -> MCVar \cup {1, Unknown, Null}]} : n \in 2..4}

PartialOperands(var) ==
    UNION {[D -> {var, Null}] : D \in SUBSET MCPred}

EdgeInputs ==
    {[phis |-> <<[target |-> a, live |-> TRUE, operands |-> f],
                 [target |-> b, live |-> alive, operands |-> g]>>,
      ordinary |-> ord] :
        f \in PartialOperands(b), g \in PartialOperands(a), alive \in BOOLEAN,
        ord \in {{}, {P1}, {P1, P2}}}

MCInputs == WideInputs \cup EdgeInputs
=============================================================================
