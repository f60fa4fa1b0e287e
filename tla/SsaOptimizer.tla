---------------------------- MODULE SsaOptimizer ----------------------------
(***************************************************************************)
(* optimize() of cfg/ssa/optimize.rs: rounds of constant folding, copy     *)
(* propagation, trivial-phi elimination and dead-code elimination over one *)
(* SsaForm, repeated without a cap until a round rewrites nothing.         *)
(*                                                                         *)
(* An expression is a leaf (a variable or a literal) or an operator over   *)
(* leaves: the builder names every intermediate result, so the operands of *)
(* an SsaExpr it makes are never nested.  The eleven constructors that     *)
(* rewrite_expr and collect_expr_vars only walk through are one operator,  *)
(* "call".  Return, Throw, Abort, Assert and Expr statements are one kind, *)
(* "consume": the pass treats them alike.                                  *)
(***************************************************************************)
EXTENDS Integers, Sequences, FiniteSets, SequencesExt, Bitwise

S == INSTANCE Strict

CONSTANTS
  Width,      (* bits of the integer that literals are held in: 64 in code *)
  PowSteps,   (* factors multiplied before POW gives up: 1024 in the code  *)
  MaxShift,   (* the VM's bound on shifts and exponents: 256               *)
  Forms,      (* the forms handed to the optimizer                         *)
  SlotVars,   (* variables of a local, argument or static slot             *)
  VmNull      (* the <vm-null> sentinel variable                           *)

ASSUME WidthAssumption ==
  Width \in Nat \ {0} /\ PowSteps \in Nat /\ MaxShift \in Nat

VARIABLES
  form,       (* the SsaForm being rewritten                               *)
  original,   (* the form as it was handed over (history, for properties)  *)
  state       (* "run" or "done"                                           *)

vars == <<form, original, state>>

-----------------------------------------------------------------------------
(* Expressions and statements.                                             *)

Var(v) == [k |-> "var", v |-> v]
IntLit(n) == [k |-> "int", n |-> n]
BoolLit(b) == [k |-> "bool", n |-> IF b THEN 1 ELSE 0]
Op(op, args) == [k |-> "op", op |-> op, args |-> args]
None == [k |-> "none"]

Assign(target, value) == [kind |-> "assign", target |-> target, values |-> <<value>>]
Consume(values) == [kind |-> "consume", target |-> VmNull, values |-> values]

Blocks(f) == DOMAIN f.stmts

(* The assignments and the phis of a form in the order the loops of        *)
(* one_round meet them: blocks ascending, then statement order.            *)
BlockOrder(f) == SetToSortSeq(Blocks(f), <)
Assigns(f) ==
  SelectSeq(S!Apply(LAMBDA bs : FlattenSeq([i \in DOMAIN bs |-> f.stmts[bs[i]]]), BlockOrder(f)),
            LAMBDA s : s.kind = "assign")
Phis(f) == S!Apply(LAMBDA bs : FlattenSeq([i \in DOMAIN bs |-> f.phis[bs[i]]]), BlockOrder(f))

IsSlotVar(v) == v \in SlotVars
IsLiteral(e) == e.k \in {"int", "bool"}

(* Every variable an expression mentions.                                  *)
CollectExprVars(e) ==
  IF e.k = "var" THEN {e.v}
  ELSE IF e.k = "op" THEN {a.v : a \in {x \in Range(e.args) : x.k = "var"}}
  ELSE {}

StmtVars(s) == UNION {CollectExprVars(s.values[i]) : i \in DOMAIN s.values}

-----------------------------------------------------------------------------
(* Constant folding on Width-bit integers.                                 *)

MaxInt == 2 ^ (Width - 1) - 1
MinInt == - (2 ^ (Width - 1))
Checked(n) == IF n \in MinInt .. MaxInt THEN IntLit(n) ELSE None

(* The Width-bit pattern of an integer and the integer of a pattern.       *)
Pattern(n) == n % (2 ^ Width)
Signed(p) == IF p > MaxInt THEN p - 2 ^ Width ELSE p
Bits(x, y) == <<Pattern(x), Pattern(y)>>

(* Division and remainder truncate towards zero.                           *)
Quotient(x, y) ==
  LET q == (IF x < 0 THEN -x ELSE x) \div (IF y < 0 THEN -y ELSE y)
  IN IF (x < 0) = (y < 0) THEN q ELSE -q
Remainder(x, y) == x - y * Quotient(x, y)

(* try_fold of checked_mul over the first PowSteps factors.                *)
Power(x, y) ==
  LET acc[i \in 0 .. y] == IF i = 0 THEN IntLit(1)
                           ELSE LET p == acc[i - 1]
                                IN IF p = None THEN None ELSE Checked(p.n * x)
  IN acc[y]

(* checked_shl checks only the shift count: the bits that leave the word   *)
(* are dropped.                                                            *)
FoldShl(x, y) == IF y \in 0 .. Width - 1 THEN IntLit(Signed(Pattern(x * 2 ^ y))) ELSE None

FoldBinary(op, a, b) ==
  LET x == a.n
      y == b.n
  IN IF a.k # "int" \/ b.k # "int" THEN None
     ELSE CASE op = "add" -> Checked(x + y)
            [] op = "sub" -> Checked(x - y)
            [] op = "mul" -> Checked(x * y)
            [] op = "div" -> IF y = 0 THEN None ELSE Checked(Quotient(x, y))
            [] op = "mod" -> IF y = 0 \/ Quotient(x, y) > MaxInt THEN None
                             ELSE Checked(Remainder(x, y))
            [] op = "pow" -> IF y < 0 THEN None
                             ELSE Power(x, IF y < PowSteps THEN y ELSE PowSteps)
            [] op = "and" -> IntLit(Signed(Bits(x, y)[1] & Bits(x, y)[2]))
            [] op = "or"  -> IntLit(Signed(Bits(x, y)[1] | Bits(x, y)[2]))
            [] op = "xor" -> IntLit(Signed(Bits(x, y)[1] ^^ Bits(x, y)[2]))
            [] op = "shl" -> FoldShl(x, y)
            [] op = "shr" -> IF y \in 0 .. Width - 1 THEN IntLit(x \div 2 ^ y) ELSE None
            [] op = "eq"  -> BoolLit(x = y)
            [] op = "ne"  -> BoolLit(x # y)
            [] op = "lt"  -> BoolLit(x < y)
            [] op = "le"  -> BoolLit(x <= y)
            [] op = "gt"  -> BoolLit(x > y)
            [] op = "ge"  -> BoolLit(x >= y)
            [] op = "land" -> BoolLit(x # 0 /\ y # 0)
            [] op = "lor" -> BoolLit(x # 0 \/ y # 0)
            [] OTHER      -> None

FoldUnary(op, a) ==
  IF a.k # "int" THEN None
  ELSE CASE op = "neg"  -> Checked(-a.n)
         [] op = "not"  -> IntLit(-a.n - 1)
         [] op = "abs"  -> Checked(IF a.n < 0 THEN -a.n ELSE a.n)
         [] op = "inc"  -> Checked(a.n + 1)
         [] op = "dec"  -> Checked(a.n - 1)
         [] op = "sign" -> IntLit(IF a.n > 0 THEN 1 ELSE IF a.n < 0 THEN -1 ELSE 0)
         [] op = "lnot" -> BoolLit(a.n = 0)
         [] OTHER       -> None

(* What a definition's value folds to: operators of one and of two         *)
(* literals only.                                                          *)
Fold(e) ==
  IF e.k # "op" \/ \E i \in DOMAIN e.args : ~IsLiteral(e.args[i]) THEN None
  ELSE IF Len(e.args) = 2 THEN FoldBinary(e.op, e.args[1], e.args[2])
  ELSE IF Len(e.args) = 1 THEN FoldUnary(e.op, e.args[1])
  ELSE None

-----------------------------------------------------------------------------
(* The substitution table of a round: a function from variables to leaves. *)

Lookup(subst, v) == IF v \in DOMAIN subst THEN subst[v] ELSE Var(v)
ResolveOnce(subst, e) == IF e.k = "var" THEN Lookup(subst, e.v) ELSE e
Bind(subst, v, e) == v :> e @@ subst

(* A literal is carried to its uses unless its variable is a slot; a copy  *)
(* unless a slot would become a temporary; and a foldable operator by its  *)
(* value.                                                                  *)
GatherCopies(f) ==
  LET Add(subst, s) ==
        LET e == s.values[1]
        IN IF IsLiteral(e) /\ ~IsSlotVar(s.target) THEN Bind(subst, s.target, e)
           ELSE IF e.k = "var" /\ (\/ ~IsSlotVar(s.target)
                                   \/ IsSlotVar(e.v)
                                   \/ e.v = VmNull)
                THEN Bind(subst, s.target, e)
           ELSE IF Fold(e) # None THEN Bind(subst, s.target, Fold(e))
           ELSE subst
  IN S!Fold(Add, <<>>, Assigns(f))

(* One pass over the assignments that replaces a copy of a mapped variable *)
(* by what that variable is mapped to by then.                             *)
ChaseCopies(f, subst) ==
  LET Chase(acc, s) ==
        LET e == s.values[1]
        IN IF s.target \in DOMAIN acc /\ e.k = "var" /\ e.v \in DOMAIN acc
           THEN Bind(acc, s.target, acc[e.v])
           ELSE acc
  IN S!Fold(Chase, subst, Assigns(f))

(* Mutant: two equal operands suffice.                                     *)
TrivialPhisMutant(f, subst) ==
  LET Collapse(acc, phi) ==
        LET preds == DOMAIN phi.operands
            first == CHOOSE p \in preds : \A q \in preds : p <= q
        IN IF \E p \in preds : Lookup(acc, phi.operands[p]) = Lookup(acc, phi.operands[first])
           THEN Bind(acc, phi.target, Lookup(acc, phi.operands[first]))
           ELSE acc
  IN S!Fold(Collapse, subst, Phis(f))

(* A phi whose operands all resolve to one value is mapped to it.  The     *)
(* operand of the lowest predecessor is the value compared with.           *)
TrivialPhis(f, subst) ==
  LET Resolved(acc, v) == ResolveOnce(acc, Lookup(acc, v))
      Collapse(acc, phi) ==
        LET preds == DOMAIN phi.operands
            first == phi.operands[CHOOSE p \in preds : \A q \in preds : p <= q]
        IN IF /\ preds # {}
              /\ \A p \in preds : Resolved(acc, phi.operands[p]) = Resolved(acc, first)
           THEN Bind(acc, phi.target, Resolved(acc, first))
           ELSE acc
  IN S!Fold(Collapse, subst, Phis(f))

RECURSIVE Terminal(_, _, _)
(* The end of a chain of variable substitutions; None when it is a cycle.  *)
Terminal(subst, current, seen) ==
  IF current \in seen THEN None
  ELSE IF current \notin DOMAIN subst THEN Var(current)
  ELSE IF subst[current].k # "var" THEN subst[current]
  ELSE Terminal(subst, subst[current].v, seen \cup {current})

NormalizeSubstitutions(subst) ==
  S!Apply(LAMBDA ends : [v \in {u \in DOMAIN ends : ends[u] \notin {None, Var(u)}} |-> ends[v]],
          [v \in DOMAIN subst |-> Terminal(subst, v, {})])

Substitutions(f) ==
  S!Apply(NormalizeSubstitutions, TrivialPhis(f, ChaseCopies(f, GatherCopies(f))))

RewriteExpr(e, subst) ==
  IF e.k = "var" THEN Lookup(subst, e.v)
  ELSE IF e.k = "op" THEN [e EXCEPT !.args = [i \in DOMAIN @ |-> ResolveOnce(subst, @[i])]]
  ELSE e

-----------------------------------------------------------------------------
(* Liveness and the def/use indexes.                                       *)

(* Statement i is use index i - 1; phi uses share index 0 with the first   *)
(* statement, so only the terminator's index can be told apart.            *)
TerminatorIndex == -1
IsTerminatorUse(use) == use.index = TerminatorIndex
TerminatorUses(f) == {use \in f.uses : IsTerminatorUse(use)}

RECURSIVE CloseOverPhis(_, _)
(* The operands of a live phi are live, to a fixed point.                  *)
CloseOverPhis(f, used) ==
  LET more == used \cup UNION {Range(p.operands) : p \in {q \in Range(Phis(f)) : q.target \in used}}
  IN S!Apply(LAMBDA m : IF m = used THEN used ELSE CloseOverPhis(f, m), more)

CollectUsed(f) ==
  CloseOverPhis(f, {use.v : use \in TerminatorUses(f)}
                   \cup UNION {StmtVars(s) : s \in UNION {Range(f.stmts[b]) : b \in Blocks(f)}})

(* rebuild_indexes: definitions and statement uses are recomputed from the *)
(* blocks, terminator uses are carried over.                               *)
Definitions(f) ==
  UNION {{[v |-> p.target, block |-> b] : p \in Range(f.phis[b])} : b \in Blocks(f)}
  \cup UNION {{[v |-> s.target, block |-> b] :
                 s \in {x \in Range(f.stmts[b]) : x.kind = "assign"}} : b \in Blocks(f)}
StatementUses(f) ==
  UNION {UNION {{[v |-> v, block |-> b, index |-> 0] : v \in Range(p.operands)} :
                  p \in Range(f.phis[b])} : b \in Blocks(f)}
  \cup UNION {UNION {{[v |-> v, block |-> b, index |-> i - 1] : v \in StmtVars(f.stmts[b][i])} :
                  i \in DOMAIN f.stmts[b]} : b \in Blocks(f)}
RebuildIndexes(f) ==
  [f EXCEPT !.definitions = Definitions(f),
            !.uses = StatementUses(f) \cup TerminatorUses(f)]

-----------------------------------------------------------------------------
(* One round.  Each pass hands on the form and the rewrites counted so far *)
(* (`rewrites' in one_round); a pass counts what it does as it does it.    *)

Counting(r, f, n) == [form |-> f, rewrites |-> r.rewrites + n]
PhiCount(f) == Len(Phis(f))
StmtCount(f) == Len(S!Apply(LAMBDA bs : FlattenSeq([i \in DOMAIN bs |-> f.stmts[bs[i]]]), BlockOrder(f)))

WithoutPhis(f, targets) ==
  [f EXCEPT !.phis = [b \in DOMAIN @ |-> SelectSeq(@[b], LAMBDA p : p.target \notin targets)]]
PhiTargets(f) == {p.target : p \in Range(Phis(f))}

(* Mutant: dead phis go uncounted.                                         *)
DropDeadPhisMutant(r) ==
  S!Apply(LAMBDA live : Counting(r, WithoutPhis(r.form, PhiTargets(r.form) \ live), 0),
          CollectUsed(r.form))
DropDeadPhis(r) ==
  LET Drop(live) ==
        LET kept == WithoutPhis(r.form, PhiTargets(r.form) \ live)
        IN Counting(r, kept, PhiCount(r.form) - PhiCount(kept))
  IN S!Apply(Drop, CollectUsed(r.form))

(* Mutant: a terminator keeps any phi it names.                            *)
RemovablePhisMutant(f, subst) ==
  LET operandTargets == UNION {Range(p.operands) \ {p.target} : p \in Range(Phis(f))}
      terminatorTargets == {use.v : use \in TerminatorUses(f)}
  IN {t \in PhiTargets(f) \cap DOMAIN subst :
        t \notin terminatorTargets /\ (subst[t].k = "var" \/ t \notin operandTargets)}

(* Phi operands and terminators can only name variables, so a phi that     *)
(* collapses to a literal stays while one of them still names it.          *)
RemovablePhis(f, subst) ==
  LET operandTargets == UNION {Range(p.operands) \ {p.target} : p \in Range(Phis(f))}
      terminatorTargets == {use.v : use \in TerminatorUses(f)}
  IN {t \in PhiTargets(f) \cap DOMAIN subst :
        subst[t].k = "var" \/ t \notin operandTargets \cup terminatorTargets}

(* Where the phi operands and the values of the statements of a form are.  *)
OperandsOf(f) == UNION {UNION {{<<b, i, q>> : q \in DOMAIN f.phis[b][i].operands} :
                                 i \in DOMAIN f.phis[b]} : b \in Blocks(f)}
ValuesOf(f) == UNION {UNION {{<<b, i, j>> : j \in DOMAIN f.stmts[b][i].values} :
                               i \in DOMAIN f.stmts[b]} : b \in Blocks(f)}

RewriteOperands(r, subst) ==
  LET New(v) == IF Lookup(subst, v).k = "var" THEN Lookup(subst, v).v ELSE v
      Rewritten(p) == [p EXCEPT !.operands = [q \in DOMAIN @ |-> New(@[q])]]
      old == r.form.phis
      changed == {o \in OperandsOf(r.form) :
                    LET v == old[o[1]][o[2]].operands[o[3]] IN New(v) # v}
  IN Counting(r, [r.form EXCEPT !.phis =
                    [b \in DOMAIN @ |-> [i \in DOMAIN @[b] |-> Rewritten(@[b][i])]]],
              Cardinality(changed))

(* The terminator uses of a removed phi move to the variable replacing it; *)
(* a use the other variable had already is not counted.                    *)
RetargetTerminators(r, subst, removed) ==
  LET leaving == {u \in TerminatorUses(r.form) : u.v \in removed /\ subst[u.v].k = "var"}
      arriving == {[u EXCEPT !.v = subst[@].v] : u \in leaving}
  IN Counting(r, [r.form EXCEPT !.uses = (@ \ leaving) \cup arriving],
              Cardinality(arriving \ r.form.uses))

RemovePhis(r, removed) ==
  LET kept == WithoutPhis(r.form, removed)
  IN Counting(r, kept, PhiCount(r.form) - PhiCount(kept))

WithValues(f, subst) ==
  LET Rewritten(s) == [s EXCEPT !.values = [i \in DOMAIN @ |-> RewriteExpr(@[i], subst)]]
  IN [f EXCEPT !.stmts = [b \in DOMAIN @ |-> [i \in DOMAIN @[b] |-> Rewritten(@[b][i])]]]
(* Mutant: a value counts as rewritten although it is what it was.         *)
RewriteStmtsMutant(r, subst) ==
  Counting(r, WithValues(r.form, subst), Cardinality(ValuesOf(r.form)))
RewriteStmts(r, subst) ==
  LET old == r.form.stmts
      changed == {v \in ValuesOf(r.form) :
                    LET e == old[v[1]][v[2]].values[v[3]] IN RewriteExpr(e, subst) # e}
  IN Counting(r, WithValues(r.form, subst), Cardinality(changed))

(* A substituted definition goes once nothing names it any more.           *)
DropDefinitions(r, subst) ==
  LET Kept(used, s) == s.kind = "consume" \/ s.target \notin DOMAIN subst \/ s.target \in used
      Drop(used) ==
        LET kept == [r.form EXCEPT !.stmts =
                       [b \in DOMAIN @ |-> SelectSeq(@[b], LAMBDA s : Kept(used, s))]]
        IN Counting(r, kept, StmtCount(r.form) - StmtCount(kept))
  IN S!Apply(Drop, CollectUsed(r.form))

(* The indexes are rebuilt only by a round that has counted a rewrite.     *)
Reindex(r) == IF r.rewrites > 0 THEN [r EXCEPT !.form = RebuildIndexes(@)] ELSE r

Substitute(r, subst) ==
  LET Phi(q, removed) ==
        S!Apply(LAMBDA x : RemovePhis(x, removed), RetargetTerminators(q, subst, removed))
      Removing(removed) ==
        S!Apply(LAMBDA x : Phi(x, removed), RewriteOperands(r, subst))
      Stmt(q) == S!Apply(LAMBDA x : DropDefinitions(x, subst), RewriteStmts(q, subst))
  IN S!Apply(Stmt, S!Apply(Removing, RemovablePhis(r.form, subst)))

OneRound(f) ==
  LET With(r, subst) == Reindex(IF DOMAIN subst = {} THEN r ELSE Substitute(r, subst))
      Round(r) == S!Apply(LAMBDA subst : With(r, subst), Substitutions(r.form))
  IN S!Apply(Round, DropDeadPhis([form |-> f, rewrites |-> 0]))

Init ==
  /\ form \in Forms
  /\ original = form
  /\ state = "run"

(* One turn of the loop of optimize(): a round that counted nothing is the *)
(* last.                                                                   *)
Round ==
  /\ state = "run"
  /\ \E r \in {OneRound(form)} :
       /\ form' = r.form
       /\ state' = IF r.rewrites = 0 THEN "done" ELSE "run"
  /\ UNCHANGED original

Next == Round

Spec == Init /\ [][Next]_vars /\ WF_vars(Next)
=============================================================================
