---------------------------- MODULE SemanticPass ----------------------------
(***************************************************************************)
(* What every rewriting pass of the decompiler promises: it starts on a    *)
(* program that means something, each of its steps leaves that meaning     *)
(* alone, and once it has returned it stays so.  Passes are shown to       *)
(* implement this module by giving `meaning' as a function of the program  *)
(* they hold.                                                              *)
(***************************************************************************)
VARIABLES
  meaning,    (* what the program in hand computes                         *)
  finished    (* the pass has returned                                     *)

vars == <<meaning, finished>>

Init == finished = FALSE

Finish ==
  /\ ~finished
  /\ finished' = TRUE
  /\ UNCHANGED meaning

Next == Finish

Spec == Init /\ [][Next]_vars

(* The pass returns.                                                       *)
Termination == <>finished
=============================================================================
