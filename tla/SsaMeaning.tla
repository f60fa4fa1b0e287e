----------------------------- MODULE SsaMeaning -----------------------------
(***************************************************************************)
(* What an SSA form computes, and the optimizer shown to preserve it.      *)
(* A form is executed along every path of its graph up to MaxPath blocks:  *)
(* phis assign in parallel on entry, calls and consumed values are         *)
(* observed, the values a terminator reads are observed, and an operator   *)
(* that faults in the VM ends the path.  Variables no statement defines    *)
(* hold an arbitrary value of their own.                                   *)
(***************************************************************************)
EXTENDS SsaOptimizer

CONSTANTS
  MaxPath,    (* blocks of the longest executed path                       *)
  VmBits      (* bits of the VM's integers: 256                            *)

-----------------------------------------------------------------------------
(* The VM's integer operators: exact, with a fault outside VmBits bits.    *)

Fault == [k |-> "fault"]
VmInt(n) == IF n \in -(2 ^ (VmBits - 1)) .. 2 ^ (VmBits - 1) - 1 THEN IntLit(n) ELSE Fault
VmPattern(n) == n % (2 ^ VmBits)
VmSigned(p) == VmInt(IF p >= 2 ^ (VmBits - 1) THEN p - 2 ^ VmBits ELSE p)
VmPower(x, y) ==
  LET acc[i \in 0 .. y] == IF i = 0 THEN IntLit(1)
                           ELSE LET p == acc[i - 1]
                                IN IF p = Fault THEN Fault ELSE VmInt(p.n * x)
  IN acc[y]

VmBinary(op, x, y) ==
  CASE op = "add" -> VmInt(x + y)
    [] op = "sub" -> VmInt(x - y)
    [] op = "mul" -> VmInt(x * y)
    [] op = "div" -> IF y = 0 THEN Fault ELSE VmInt(Quotient(x, y))
    [] op = "mod" -> IF y = 0 THEN Fault ELSE VmInt(Remainder(x, y))
    [] op = "pow" -> IF y \in 0 .. MaxShift THEN VmPower(x, y) ELSE Fault
    [] op = "and" -> VmSigned(VmPattern(x) & VmPattern(y))
    [] op = "or"  -> VmSigned(VmPattern(x) | VmPattern(y))
    [] op = "xor" -> VmSigned(VmPattern(x) ^^ VmPattern(y))
    [] op = "shl" -> IF y \in 0 .. MaxShift THEN VmInt(x * 2 ^ y) ELSE Fault
    [] op = "shr" -> IF y \in 0 .. MaxShift THEN VmInt(x \div 2 ^ y) ELSE Fault
    [] op = "eq"  -> BoolLit(x = y)
    [] op = "ne"  -> BoolLit(x # y)
    [] op = "lt"  -> BoolLit(x < y)
    [] op = "le"  -> BoolLit(x <= y)
    [] op = "gt"  -> BoolLit(x > y)
    [] op = "ge"  -> BoolLit(x >= y)
    [] op = "land" -> BoolLit(x # 0 /\ y # 0)
    [] op = "lor" -> BoolLit(x # 0 \/ y # 0)

VmUnary(op, x) ==
  CASE op = "neg"  -> VmInt(-x)
    [] op = "not"  -> VmInt(-x - 1)
    [] op = "abs"  -> VmInt(IF x < 0 THEN -x ELSE x)
    [] op = "inc"  -> VmInt(x + 1)
    [] op = "dec"  -> VmInt(x - 1)
    [] op = "sign" -> VmInt(IF x > 0 THEN 1 ELSE IF x < 0 THEN -1 ELSE 0)
    [] op = "lnot" -> BoolLit(x = 0)

(* An operator of unknown operands is the term itself.                     *)
VmOp(op, args) ==
  IF \E i \in DOMAIN args : args[i].k # "int" THEN [k |-> "term", op |-> op, args |-> args]
  ELSE IF Len(args) = 2 THEN VmBinary(op, args[1].n, args[2].n)
  ELSE VmUnary(op, args[1].n)

-----------------------------------------------------------------------------
(* Execution.  env holds the values, obs what has been observed.           *)

Value(env, e) == IF e.k = "var" THEN env[e.v] ELSE e
Values(env, es) == [i \in DOMAIN es |-> Value(env, es[i])]
IsCall(e) == e.k = "op" /\ e.op = "call"

ExecStmt(run, s) ==
  LET e == s.values[1]
      result == IF IsCall(e) THEN [k |-> "result", n |-> Len(run.obs)]
                ELSE IF e.k = "op" THEN VmOp(e.op, Values(run.env, e.args))
                ELSE Value(run.env, e)
      set(v) == [run EXCEPT !.env[s.target] = v]
  IN IF run.stopped THEN run
     ELSE IF s.kind = "consume"
     THEN [run EXCEPT !.obs = Append(@, [ev |-> "consume", values |-> Values(run.env, s.values)])]
     ELSE IF IsCall(e)
     THEN [set(result) EXCEPT !.obs = Append(@, [ev |-> "call", values |-> Values(run.env, e.args)])]
     ELSE IF result = Fault
     THEN [run EXCEPT !.stopped = TRUE, !.obs = Append(@, [ev |-> "fault", values |-> <<>>])]
     ELSE set(result)

EnterBlock(f, from, b, env) ==
  LET phis == Range(f.phis[b])
      defining(v) == {p \in phis : p.target = v /\ from \in DOMAIN p.operands}
  IN [v \in DOMAIN env |->
        IF defining(v) = {} THEN env[v]
        ELSE env[(CHOOSE p \in defining(v) : TRUE).operands[from]]]

ExecBlock(f, path, i, run) ==
  LET b == path[i]
      entered == IF i = 1 THEN run
                 ELSE [run EXCEPT !.env = EnterBlock(f, path[i - 1], b, @)]
      left == S!Fold(ExecStmt, entered, f.stmts[b])
      read == {left.env[u.v] : u \in {x \in TerminatorUses(f) : x.block = b}}
  IN IF run.stopped THEN run
     ELSE IF left.stopped \/ read = {} THEN left
     ELSE [left EXCEPT !.obs = Append(@, [ev |-> "branch", read |-> read])]

ExecPath(f, path) ==
  LET start == [env |-> [v \in f.variables |-> [k |-> "initial", v |-> v]],
                obs |-> <<>>, stopped |-> FALSE]
      run[i \in 0 .. Len(path)] == IF i = 0 THEN start ELSE S!Apply(LAMBDA r : ExecBlock(f, path, i, r), run[i - 1])
  IN run[Len(path)].obs

PathsOfLength(f, n) ==
  LET paths[k \in 1 .. n] ==
        IF k = 1 THEN {<<0>>}
        ELSE UNION {{Append(p, c) : c \in f.succ[Last(p)]} : p \in paths[k - 1]}
  IN paths[n]
Paths(f) == UNION {PathsOfLength(f, n) : n \in 1 .. MaxPath}

Meaning(f) == [p \in Paths(f) |-> ExecPath(f, p)]

-----------------------------------------------------------------------------
(* Properties.                                                             *)

(* optimize() against its promise (optimize.rs:3-4): whatever the rounds   *)
(* fold, propagate and drop, the calls, consumed values and branch values  *)
(* of every path stay those of the form handed over.                       *)
Abs == INSTANCE SemanticPass WITH meaning <- Meaning(form), finished <- (state = "done")
Optimizes == Abs!Spec

(* The loop of optimize() has no cap (optimize.rs:31): it ends because no  *)
(* rewrite is undone by a later one.                                       *)
Terminates == Abs!Termination

(* What the lowering reads of a form.                                      *)
DefinedIn(b, v) ==
  \/ \E p \in Range(form.phis[b]) : p.target = v
  \/ \E s \in Range(form.stmts[b]) : s.kind = "assign" /\ s.target = v
ReadAt(b, i, v) ==
  \/ i = 0 /\ \E p \in Range(form.phis[b]) : v \in Range(p.operands)
  \/ i + 1 \in DOMAIN form.stmts[b] /\ v \in StmtVars(form.stmts[b][i + 1])

(* The definition and use indexes tell the truth about the blocks between  *)
(* any two rounds and at the end, although a round rebuilds them only when *)
(* one of its passes has counted a rewrite (optimize.rs:157-162 and 334):  *)
(* no pass changes a block without counting it.  The lowering decides from *)
(* them which phis are live and where a returned value was defined.        *)
IndexesFresh ==
  /\ \A d \in form.definitions : DefinedIn(d.block, d.v)
  /\ \A u \in form.uses : IsTerminatorUse(u) \/ ReadAt(u.block, u.index, u.v)
  /\ \A b \in Blocks(form), v \in form.variables :
       /\ DefinedIn(b, v) => [v |-> v, block |-> b] \in form.definitions
       /\ \A i \in 0 .. Len(form.stmts[b]) :
            ReadAt(b, i, v) => [v |-> v, block |-> b, index |-> i] \in form.uses

(* Consumers that can name a variable only.                                *)
NamedOnly(v) ==
  \/ \E u \in TerminatorUses(form) : u.v = v
  \/ \E p \in Range(Phis(form)) : p.target # v /\ v \in Range(p.operands)

(* A finished form has nothing left that the passes are for                *)
(* (optimize.rs:7-12): every phi is live; a phi whose operands are all one *)
(* variable is left only where its value is a literal and a terminator or  *)
(* another phi, which can name variables only, reads it; and a copy into a *)
(* temporary only where a terminator does.                                 *)
Optimal ==
  state = "done" =>
    /\ \A p \in Range(Phis(form)) :
         /\ p.target \in CollectUsed(form)
         /\ Cardinality(Range(p.operands)) = 1 =>
              /\ NamedOnly(p.target)
              /\ \E s \in Range(Assigns(form)) :
                   s.target \in Range(p.operands) /\ IsLiteral(s.values[1]) /\ ~IsSlotVar(s.target)
    /\ \A s \in Range(Assigns(form)) :
         s.values[1].k = "var" =>
           \/ IsSlotVar(s.target)
           \/ \E u \in TerminatorUses(form) : u.v = s.target
=============================================================================
