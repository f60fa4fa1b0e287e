--------------------------- MODULE MCSsaOptimizer ---------------------------
(***************************************************************************)
(* Forms the builder makes, as instances of the optimizer: every operator  *)
(* over boundary literals; a diamond and a loop in which temporaries,      *)
(* slots, calls and phis are copied, merged and consumed in every          *)
(* combination of the sets below.                                          *)
(***************************************************************************)
EXTENDS SsaMeaning

CONSTANTS
  Literals,   (* the integers folded                                       *)
  FoldOps     (* the binary operators folded                               *)

Slots == {"loc0", "loc1", "loc2", "loc3"}
Null == "vm_null"
Phi(target, operands) == [target |-> target, operands |-> operands]
Call == Op("call", <<>>)

Form(succ, phis, stmts, terms) ==
  S!Apply(LAMBDA f : [f EXCEPT !.definitions = Definitions(f), !.uses = @ \cup StatementUses(f)],
          [succ |-> succ, phis |-> phis, stmts |-> stmts,
           variables |-> {"a", "b", "c", "d", "e", "p", "q", "r", Null} \cup Slots,
           definitions |-> {},
           uses |-> {[v |-> t[2], block |-> t[1], index |-> TerminatorIndex] : t \in terms}])

OneBlock(stmts) == Form([b \in {0} |-> {}], [b \in {0} |-> <<>>], [b \in {0} |-> stmts], {})

UnaryOps == {"neg", "not", "abs", "inc", "dec", "sign", "lnot"}
BinaryForms(literals, ops) ==
  {OneBlock(<<Assign("a", IntLit(x)), Assign("b", IntLit(y)),
              Assign("c", Op(op, <<Var("a"), Var("b")>>)),
              Assign("loc0", Var("c")), Consume(<<Var("loc0"), Var("c")>>)>>) :
     x \in literals, y \in literals, op \in ops}
UnaryForms ==
  {OneBlock(<<Assign("a", IntLit(x)), Assign("b", Op(op, <<Var("a")>>)), Consume(<<Var("b")>>)>>) :
     x \in Literals, op \in UnaryOps}

Names(vs) == {Var(v) : v \in vs}

(* 0 branches to 1 and 2, which join in 3.                                 *)
DiamondForms ==
  {Form(0 :> {1, 2} @@ 1 :> {3} @@ 2 :> {3} @@ 3 :> {},
        0 :> <<>> @@ 1 :> <<>> @@ 2 :> <<>>
          @@ 3 :> <<Phi("p", 1 :> p1 @@ 2 :> p2), Phi("q", 1 :> q1 @@ 2 :> "a"),
                    Phi("loc3", 1 :> "loc1" @@ 2 :> l2)>>,
        0 :> <<Assign("a", a), Assign("loc0", Var("a")), Assign("b", b)>>
          @@ 1 :> <<Assign("loc1", c)>>
          @@ 2 :> <<Assign("d", d), Assign("loc2", Var("d"))>>
          @@ 3 :> <<Assign("e", e), Consume(<<Var("e"), Var("loc3"), Var("q")>>)>>,
        {<<0, t>>}) :
     a \in {IntLit(1), Call}, b \in {Var("loc0"), Var("a")}, c \in Names({"a", "loc0", Null}),
     d \in {Var("b"), IntLit(1)}, p1 \in {"a", "b"}, p2 \in {"b", "d"}, q1 \in {"a", "b"},
     l2 \in {"loc0", "loc2"}, e \in {Var("p"), Op("inc", <<Var("p")>>)}, t \in {"a", "b"}}

(* 1 is the head of a loop with body 2 and exit 3.                         *)
LoopForms ==
  {Form(0 :> {1} @@ 1 :> {2, 3} @@ 2 :> {1} @@ 3 :> {},
        0 :> <<>> @@ 2 :> <<>> @@ 3 :> <<>>
          @@ 1 :> <<Phi("p", 0 :> "a" @@ 2 :> p2), Phi("q", 0 :> q0 @@ 2 :> q2),
                    Phi("loc1", 0 :> l0 @@ 2 :> l2)>>,
        0 :> <<Assign("a", a), Assign("loc0", Var("a")), Assign("b", Var("loc0"))>>
          @@ 1 :> <<Assign("c", c)>>
          @@ 2 :> <<Assign("d", d), Assign("loc2", Var("d"))>>
          @@ 3 :> <<Consume(<<Var(e), Var("loc1")>>)>>,
        {<<1, t>>}) :
     a \in {IntLit(1), Call}, q0 \in {"a", "b"}, l0 \in {"loc0", Null},
     p2 \in {"p", "q", "d"}, q2 \in {"p", "c", "d"}, l2 \in {"loc1", "loc2"},
     c \in Names({"p", "q", "loc1"}), d \in {Var("c"), Op("add", <<Var("q"), Var("c")>>)},
     e \in {"p", "c"}, t \in {"c", "q"}}

(* Calls merged by the phis of the same loop: nothing to propagate, so     *)
(* that a phi is all a round can change.                                   *)
CallForms ==
  {Form(0 :> {1} @@ 1 :> {2, 3} @@ 2 :> {1} @@ 3 :> {},
        0 :> <<>> @@ 2 :> <<>> @@ 3 :> <<>>
          @@ 1 :> <<Phi("p", 0 :> "a" @@ 2 :> p2), Phi("q", 0 :> "b" @@ 2 :> q2),
                    Phi("r", 0 :> "a" @@ 2 :> r2)>>,
        0 :> <<Assign("a", a), Assign("b", Call)>> @@ 1 :> <<Assign("c", Call)>>
          @@ 2 :> <<Assign("d", Call)>> @@ 3 :> <<Consume(<<Var(e)>>)>>,
        {<<1, t>>}) :
     a \in {IntLit(1), Call}, p2 \in {"a", "p", "q", "d"}, q2 \in {"b", "c", "q", "p", "r"},
     r2 \in {"a", "d", "p", "q", "r"}, e \in {"p", "a"}, t \in {"c", "p", "r"}}

(* Shifts and powers whose result the optimizer's integers hold.           *)
SmallForms == BinaryForms({-1, 0, 1, 2}, {"shl", "pow"})

FoldForms == BinaryForms(Literals, FoldOps)
MCForms == FoldForms \cup SmallForms \cup UnaryForms \cup DiamondForms \cup LoopForms
             \cup CallForms
MCLiterals == {-16, -15, -3, -1, 0, 1, 2, 3, 15}
=============================================================================
