------------------------------- MODULE Strict -------------------------------
(***************************************************************************)
(* Application and folding with the argument evaluated once.  They equal   *)
(* F(x) and FoldLeft(op, base, seq); a model checker that evaluates        *)
(* arguments by need would otherwise evaluate an accumulator again at      *)
(* each of its mentions.                                                   *)
(***************************************************************************)
LOCAL INSTANCE Naturals
LOCAL INSTANCE Sequences

Apply(F(_), x) == CHOOSE y \in {F(z) : z \in {x}} : TRUE

FoldOver(op(_, _), base, seq) ==
  LET acc[i \in 0 .. Len(seq)] ==
        IF i = 0 THEN base ELSE Apply(LAMBDA a : op(a, seq[i]), acc[i - 1])
  IN acc[Len(seq)]
Fold(op(_, _), base, seq) == Apply(LAMBDA s : FoldOver(op, base, s), seq)
=============================================================================
