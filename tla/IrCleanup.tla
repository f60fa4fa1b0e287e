----------------------------- MODULE IrCleanup ------------------------------
(***************************************************************************)
(* The rewriting of recovered statements (cfg/structure/for_loops and      *)
(* cfg/structure/cleanup): while loops become for loops, the branches a    *)
(* compiler puts around integer arithmetic become a mask, and temporaries  *)
(* are moved into the expressions that use them.                           *)
(*                                                                         *)
(* A statement has a kind, the variable it assigns, its expressions, the   *)
(* initializer of a for loop, the literals of its cases and its blocks.  A *)
(* name is a base and a version, or a base alone for a slot.  The passes   *)
(* walk trees of statements, hence the recursive definitions.              *)
(***************************************************************************)
EXTENDS Integers, SequencesExt, FiniteSetsExt, Functions, TLC

CONSTANTS
  Programs,         (* the statements the recovery hands over              *)
  ByteBits,         (* bits per byte of an integer, 8 in the VM            *)
  MaxInitializer,   (* elements of the longest array literal, 64           *)
  MaxByte,          (* 255                                                 *)
  MaxRounds         (* rounds of reduce_temporaries, 8                     *)

ASSUME BoundsAssumption ==
  /\ ByteBits \in Nat \ {0} /\ MaxRounds \in Nat \ {0}
  /\ MaxInitializer \in Nat /\ MaxByte \in Nat

VARIABLES
  program,    (* the statements as they came                               *)
  block,      (* the statements now                                        *)
  phase,      (* the pass that runs next                                   *)
  before,     (* the statements at the start of the round                  *)
  round       (* rounds of reduce_temporaries begun                        *)

cleanupVars == <<program, block, phase, before, round>>

S == INSTANCE Strict

-----------------------------------------------------------------------------
(* Expressions and statements.                                             *)
App(f, n, a) == [f |-> f, n |-> n, lit |-> 0, a |-> a]
Literal(f, n) == [f |-> f, n |-> <<>>, lit |-> n, a |-> <<>>]
Var(x) == App("var", x, <<>>)
Num(n) == Literal("int", n)
Bool(b) == Literal("bool", IF b THEN 1 ELSE 0)
Op(f, a) == App(f, <<>>, a)
IsVar(x) == x.f = "var"
IsInt(x, n) == x = Num(n)
Base(name) == name[1]

Stmt(k) == [k |-> k, d |-> <<>>, e |-> <<>>, init |-> <<>>, cases |-> <<>>, arms |-> <<>>]
Set(d, x) == [Stmt("set") EXCEPT !.d = d, !.e = <<x>>]
Do(x) == [Stmt("do") EXCEPT !.e = <<x>>]
Return(x) == [Stmt("return") EXCEPT !.e = <<x>>]
IfThen(c, a) == [Stmt("if") EXCEPT !.e = <<c>>, !.arms = <<a>>]
IfElse(c, a, b) == [Stmt("if") EXCEPT !.e = <<c>>, !.arms = <<a, b>>]
While(c, a) == [Stmt("while") EXCEPT !.e = <<c>>, !.arms = <<a>>]
For(init, c, u, a) == [Stmt("for") EXCEPT !.e = <<c, u>>, !.init = <<init>>, !.arms = <<a>>]
IsSet(st) == st.k = "set"
IsIfElse(st) == st.k = "if" /\ Len(st.arms) = 2

(* temps/support.rs: the visitors.  Uses counts the reads of a variable.   *)
Total(Of(_), seq) == FoldSeq(LAMBDA x, n : Of(x) + n, 0, seq)
RECURSIVE UsesIn(_, _)
UsesIn(x, v) == IF IsVar(x) THEN IF x.n = v THEN 1 ELSE 0 ELSE Total(LAMBDA y : UsesIn(y, v), x.a)
RECURSIVE Uses(_, _)
Uses(st, v) ==
  LET Inside(ss) == Total(LAMBDA y : Uses(y, v), ss)
  IN Total(LAMBDA x : UsesIn(x, v), st.e) + Inside(st.init) + Total(Inside, st.arms)
BlockUses(b, v) == Total(LAMBDA st : Uses(st, v), b)
UsesVariable(st, v) == Uses(st, v) > 0

RECURSIVE Nodes(_)
Nodes(x) == {x} \cup UNION {Nodes(y) : y \in Range(x.a)}
RECURSIVE StmtNodes(_)
StmtNodes(st) ==
  UNION {Nodes(x) : x \in Range(st.e)} \cup UNION {StmtNodes(s) : s \in Range(st.init)}
    \cup UNION {UNION {StmtNodes(s) : s \in Range(b)} : b \in Range(st.arms)}
VarsOf(x) == {y.n : y \in {y \in Nodes(x) : IsVar(y)}}

(* cleanup/temps/casts.rs                                                  *)
Cast(type, x) == App("cast", type, <<x>>)
RECURSIVE SimplifyCastExpr(_)
SimplifyCastExpr(x) ==
  LET y == x.a[1]
  IN IF x.f # "cast" THEN x
     ELSE IF y.f = "cast" /\ y.n \in {x.n, <<"dynamic">>, <<"object">>} THEN SimplifyCastExpr(Cast(x.n, y.a[1]))
     ELSE IF (y.f = "int" /\ x.n \in {<<"int">>, <<"long">>, <<"BigInteger">>}) \/ (y.f = "bool" /\ x.n = <<"bool">>) THEN y
     ELSE x

(* Every expression rewritten, inner ones first: the reads of a variable   *)
(* by an expression, or the casts by what they mean.                       *)
Rewriting(v, x, y) == IF v = <<>> THEN SimplifyCastExpr(y) ELSE IF y = Var(v) THEN x ELSE y
RECURSIVE MapExpr(_, _, _)
MapExpr(v, x, y) == Rewriting(v, x, [y EXCEPT !.a = [k \in DOMAIN @ |-> MapExpr(v, x, @[k])]])
RECURSIVE MapStmt(_, _, _)
MapStmt(v, x, st) ==
  LET Mapped(b) == [k \in DOMAIN b |-> MapStmt(v, x, b[k])]
  IN [st EXCEPT !.e = [k \in DOMAIN @ |-> MapExpr(v, x, @[k])], !.init = Mapped(@),
                !.arms = [k \in DOMAIN @ |-> Mapped(@[k])]]
SubstituteVariable(b, v, x) == [k \in DOMAIN b |-> MapStmt(v, x, b[k])]
SimplifyCasts(b) == [k \in DOMAIN b |-> MapStmt(<<>>, <<>>, b[k])]

(* temps/queries.rs                                                        *)
PureCalls == {"size", "newarray", "newbuffer"}
EffectfulCalls == {"call", "setitem", "append"}
CollectionWrites == {"setitem", "append"}
Faulting == {"index", "/", "!", "?"}
IsPure(x) == \A y \in Nodes(x) : y.f \notin EffectfulCalls
HasEffectfulCall(x) == ~ IsPure(x)
MayFault(x) == \E y \in Nodes(x) : y.f \in Faulting \cup PureCalls \cup EffectfulCalls
IsStaticSlot(v) == v \in {<<"static0">>, <<"static1">>}
CollectionBases(x) == {y.a[1].n : y \in {y \in Nodes(x) : y.f \in {"index", "size"} /\ IsVar(y.a[1])}}
MutatesCollections(st, bases) ==
  \E y \in StmtNodes(st) :
     \/ y.f \in CollectionWrites /\ VarsOf(y.a[1]) \cap bases # {}
     \/ y.f = "call" /\ \E z \in Range(y.a) : VarsOf(z) \cap bases # {}
(* Mutant: a write inside a branch goes unseen.                            *)
AssignsVariableMutant(st, v) == IsSet(st) /\ st.d = v
RECURSIVE AssignsVariable(_, _)
AssignsVariable(st, v) ==
  \/ IsSet(st) /\ st.d = v
  \/ \E s \in Range(st.init) : AssignsVariable(s, v)
  \/ \E b \in Range(st.arms) : \E s \in Range(b) : AssignsVariable(s, v)

-----------------------------------------------------------------------------
(* for_loops.rs: a while loop that steps a variable set to zero before.    *)
IsGenerated(v) == Base(v) \in {"t", "p0", "p1"}
Steps == {"inc", "dec"}
UnaryStep(x) == x.f \in Steps /\ IsVar(x.a[1])
NoStep == [f |-> "none", v |-> <<>>]
Step(f, v) == [f |-> f, v |-> v]
ArithmeticUpdate(st) ==
  LET x == st.e[1]
      Named(y, f) == IF Base(st.d) = Base(y.n) THEN Step(f, y.n) ELSE NoStep
  IN IF ~ IsSet(st) \/ Len(x.a) # 2 THEN NoStep
     ELSE IF x.f = "+" /\ IsVar(x.a[1]) /\ IsInt(x.a[2], 1) THEN Named(x.a[1], "inc")
     ELSE IF x.f = "+" /\ IsVar(x.a[2]) /\ IsInt(x.a[1], 1) THEN Named(x.a[2], "inc")
     ELSE IF x.f = "-" /\ IsVar(x.a[1]) /\ IsInt(x.a[2], 1) THEN Named(x.a[1], "dec") ELSE NoStep
ShiftUpdate(st) ==
  LET x == st.e[1]
  IN IF st.k \in {"do", "set"} /\ UnaryStep(x) /\ (IsSet(st) => Base(st.d) = Base(x.a[1].n))
     THEN Step(x.f, x.a[1].n) ELSE NoStep
UnitUpdate(st) ==
  IF st.e = <<>> THEN NoStep ELSE IF ShiftUpdate(st) # NoStep THEN ShiftUpdate(st) ELSE ArithmeticUpdate(st)
(* t = i + 1; i = t                                                        *)
CopiedUpdate(first, second) ==
  IF /\ IsSet(first) /\ UnaryStep(first.e[1]) /\ IsSet(second) /\ second.e[1] = Var(first.d)
     /\ Base(second.d) = Base(first.e[1].a[1].n)
  THEN Step(first.e[1].f, first.e[1].a[1].n) ELSE NoStep

RECURSIVE IsScalar(_, _)
IsScalar(x, i) ==
  CASE IsVar(x) -> x.n = i \/ IsGenerated(x.n)
    [] x.f = "size" -> IsPure(x.a[1]) /\ CollectionBases(x.a[1]) = {}
    [] x.f \in {"call", "index", "array", "newarray", "newbuffer", "?:", "setitem", "append"} -> FALSE
    [] OTHER -> \A y \in Range(x.a) : IsScalar(y, i)
RECURSIVE IsNormalization(_, _)
IsNormalization(st, i) ==
  \/ IsSet(st) /\ (Base(st.d) = Base(i) \/ IsGenerated(st.d)) /\ IsScalar(st.e[1], i)
  \/ st.k = "if" /\ IsScalar(st.e[1], i) /\ \A b \in Range(st.arms) : \A s \in Range(b) : IsNormalization(s, i)
(* The last statement that steps a variable of the condition and has only  *)
(* scalar statements behind it; a refreshed size stays in the body.        *)
NormalizedUpdate(body, cond) ==
  LET Candidate(k) ==
        /\ IsSet(body[k]) /\ UnaryStep(body[k].e[1]) /\ IsGenerated(body[k].d)
        /\ UsesIn(cond, body[k].e[1].a[1].n) > 0 /\ k < Len(body)
        /\ \A j \in k + 1 .. Len(body) : IsNormalization(body[j], body[k].e[1].a[1].n)
      last == body[Len(body)]
      keeps == IsSet(last) /\ last.e[1].f = "size" /\ UsesIn(cond, last.d) > 0
      found == {k \in DOMAIN body : Candidate(k)}
  IN IF found = {} THEN [step |-> NoStep, rest |-> body]
     ELSE LET k == Max(found)
          IN [step |-> Step(body[k].e[1].f, body[k].e[1].a[1].n),
              rest |-> SubSeq(body, 1, k - 1) \o IF keeps THEN <<last>> ELSE <<>>]
UpdateShape(body, cond) ==
  LET n == Len(body)
      Tail_(step, k) == [step |-> step, rest |-> SubSeq(body, 1, n - k)]
  IN IF n = 0 THEN [step |-> NoStep, rest |-> body]
     ELSE IF UnitUpdate(body[n]) # NoStep THEN Tail_(UnitUpdate(body[n]), 1)
     ELSE IF n > 1 /\ CopiedUpdate(body[n - 1], body[n]) # NoStep
     THEN Tail_(CopiedUpdate(body[n - 1], body[n]), 2)
     ELSE NormalizedUpdate(body, cond)

(* for_loops/terminal_update.rs: the step is one arm of the last if, the   *)
(* other arm leaves the method.                                            *)
RECURSIVE ContainsContinue(_)
ContainsContinue(st) == st.k = "continue" \/ \E b \in Range(st.arms) : \E s \in Range(b) : ContainsContinue(s)
Terminates(b) == b # <<>> /\ Last(b).k \in {"return", "throw", "abort"}
BlockUpdate(b) ==
  CASE Len(b) = 1 -> UnitUpdate(b[1]) [] Len(b) = 2 -> CopiedUpdate(b[1], b[2]) [] OTHER -> NoStep
TerminalUpdate(body, cond) ==
  LET st == Last(body)
      ends == CHOOSE k \in 1 .. 2 : Terminates(st.arms[k])
      step == BlockUpdate(st.arms[3 - ends])
      test == IF ends = 1 THEN st.e[1] ELSE Op("!", <<st.e[1]>>)
  IN IF /\ body # <<>> /\ IsIfElse(st)
        /\ ~ \E k \in DOMAIN body : ContainsContinue(body[k])
        /\ Terminates(st.arms[1]) # Terminates(st.arms[2])
        /\ step # NoStep /\ UsesIn(cond, step.v) > 0
     THEN [step |-> step, rest |-> Front(body) \o <<IfThen(test, st.arms[ends])>>]
     ELSE [step |-> NoStep, rest |-> body]

MentionsVariable(st, v) ==
  \/ st.arms # <<>>
  \/ IsSet(st) /\ Base(st.d) = Base(v)
  \/ UsesVariable(st, v)
PromoteWith(out, cond, shape) ==
  LET v == shape.step.v
      inits == {k \in DOMAIN out : IsSet(out[k]) /\ Base(out[k].d) = Base(v) /\ IsInt(out[k].e[1], 0)}
      i == Max(inits)
  IN IF /\ shape.step # NoStep /\ UsesIn(cond, v) > 0 /\ inits # {}
        /\ \A k \in i + 1 .. Len(out) : ~ MentionsVariable(out[k], v)
     THEN Append(RemoveAt(out, i), For(out[i], cond, Op(shape.step.f, <<Var(v)>>), shape.rest))
     ELSE <<>>
TryPromoteFor(out, cond, body) ==
  LET shape == UpdateShape(body, cond)
  IN PromoteWith(out, cond, IF shape.step # NoStep THEN shape ELSE TerminalUpdate(body, cond))
(* Loops are built inside out, each into what was recovered before it.     *)
RECURSIVE BuildLoops(_)
BuildLoops(b) ==
  LET Built(out, st) ==
        LET inner == [st EXCEPT !.arms = [k \in DOMAIN @ |-> BuildLoops(@[k])]]
            promoted == TryPromoteFor(out, inner.e[1], inner.arms[1])
        IN IF st.k # "while" \/ st.e[1] = Bool(TRUE) \/ promoted = <<>> THEN Append(out, inner) ELSE promoted
  IN S!Fold(Built, <<>>, b)

-----------------------------------------------------------------------------
(* cleanup/loops.rs: while (true) { i = 0; if (c(i)) { .. i = .. } }       *)
InArms(F(_), b) == [k \in DOMAIN b |-> [b[k] EXCEPT !.arms = [j \in DOMAIN @ |-> F(@[j])]]]
IsConstant(x) == x.f \in {"int", "bool"}
MentionsBase(x, base) == \E y \in Nodes(x) : IsVar(y) /\ Base(y.n) = base
RECURSIVE AssignsBase(_, _)
AssignsBase(b, base) ==
  \E st \in Range(b) :
     \/ IsSet(st) /\ Base(st.d) = base
     \/ \E s \in Range(st.init) : IsSet(s) /\ Base(s.d) = base
     \/ \E a \in Range(st.arms) : AssignsBase(a, base)
InitCount(b) == Max({k \in 0 .. Len(b) : \A j \in 1 .. k : IsSet(b[j]) /\ IsConstant(b[j].e[1])})
LiftHeaderInit(st) ==
  LET body == st.arms[1]
      n == InitCount(body)
      bases == {Base(body[j].d) : j \in 1 .. n}
      if == body[n + 1]
  IN IF /\ st.k = "while" /\ st.e[1] = Bool(TRUE)
        /\ n > 0 /\ Len(body) = n + 1
        /\ if.k = "if" /\ (Len(if.arms) = 2 => if.arms[2] = <<>>)
        /\ \E base \in bases : MentionsBase(if.e[1], base)
        /\ \E base \in bases : AssignsBase(if.arms[1], base)
     THEN SubSeq(body, 1, n) \o <<While(if.e[1], if.arms[1])>>
     ELSE <<st>>
RECURSIVE RecoverHeaderInitLoops(_)
RecoverInArms(b) == InArms(RecoverHeaderInitLoops, b)
RecoverHeaderInitLoops(b) ==
  LET inner == RecoverInArms(b)
  IN FlattenSeq([k \in DOMAIN inner |-> LiftHeaderInit(inner[k])])

(* i = 0; while (c(i)) { ..; i = i + 1 }                                   *)
PeelUnitUpdate(body, base) ==
  LET n == Len(body)
      step == UnitUpdate(body[n])
      two == IF n > 1 /\ IsSet(body[n - 1]) /\ IsSet(body[n]) /\ body[n].e[1] = Var(body[n - 1].d)
                /\ Base(body[n].d) = base
             THEN ArithmeticUpdate([body[n - 1] EXCEPT !.d = <<base>>]) ELSE NoStep
  IN IF n = 0 THEN [step |-> NoStep, rest |-> body]
     ELSE IF step # NoStep /\ Base(step.v) = base THEN [step |-> step, rest |-> Front(body)]
     ELSE IF two # NoStep THEN [step |-> Step(two.f, body[n].d), rest |-> SubSeq(body, 1, n - 2)]
     ELSE [step |-> NoStep, rest |-> body]
PromoteWhile(init, st) ==
  LET peeled == PeelUnitUpdate(st.arms[1], Base(init.d))
  IN IF IsSet(init) /\ IsConstant(init.e[1]) /\ st.k = "while" /\ MentionsBase(st.e[1], Base(init.d))
        /\ peeled.step # NoStep
     THEN <<For(init, st.e[1], Op(peeled.step.f, <<Var(peeled.step.v)>>), peeled.rest)>>
     ELSE <<init, st>>
RECURSIVE PromoteAdjacentForLoops(_)
PromoteAdjacentForLoops(b) ==
  S!Fold(LAMBDA out, st : IF out = <<>> THEN <<st>> ELSE Front(out) \o PromoteWhile(Last(out), st),
         <<>>, InArms(PromoteAdjacentForLoops, b))

-----------------------------------------------------------------------------
(* size_normalization.rs and int_normalization.rs: the branches that wrap  *)
(* a result into a signed integer of w bytes become a mask and a           *)
(* subtraction.                                                            *)
Widths == {4, 8}
Modulus(w) == 2 ^ (ByteBits * w)
Largest(w) == Modulus(w) \div 2 - 1
Smallest(w) == - (Modulus(w) \div 2)
Reversed(f) == CASE f = "<=" -> ">=" [] f = ">=" -> "<=" [] f = ">" -> "<"
Bounds(x, v, f, n) ==
  x = Op(f, <<Var(v), Num(n)>>) \/ x = Op(Reversed(f), <<Num(n), Var(v)>>)
NoName == <<>>
DirectCopy(b, v) == IF Len(b) = 1 /\ IsSet(b[1]) /\ b[1].e = <<Var(v)>> THEN b[1].d ELSE NoName
NoWrapper == [op |-> NoName, norm |-> NoName, mask |-> NoName, w |-> 0]
(* m = v & mask; if (m <= max) { n = m } else { s = m - modulus; n = s }   *)
MaskPath(b, v, w) ==
  LET m == b[1].d
      test == b[2]
      low == test.arms[1]
      high == test.arms[2]
  IN IF /\ Len(b) = 2 /\ IsSet(b[1]) /\ b[1].e = <<Op("&", <<Var(v), Num(Modulus(w) - 1)>>)>>
        /\ IsIfElse(test) /\ Bounds(test.e[1], m, "<=", Largest(w))
        /\ DirectCopy(low, m) # NoName
        /\ Len(high) = 2 /\ IsSet(high[1]) /\ IsSet(high[2])
        /\ high[1].e = <<Op("-", <<Var(m), Num(Modulus(w))>>)>> /\ high[2].e = <<Var(high[1].d)>>
     THEN [op |-> v, norm |-> high[2].d, mask |-> m, w |-> w] ELSE NoWrapper
(* s = size(v); if (s <= w) { n = v } else { the mask path }               *)
MatchSizeWrapper(size, test) ==
  LET v == size.e[1].a[1].n
      Ordered(w) == CASE Bounds(test.e[1], size.d, "<=", w) -> test.arms
                      [] Bounds(test.e[1], size.d, ">", w) -> Reverse(test.arms)
                      [] OTHER -> <<>>
      Path(w) == MaskPath(Ordered(w)[2], v, w)
      found == {w \in Widths : /\ Ordered(w) # <<>>
                               /\ Path(w) # NoWrapper /\ DirectCopy(Ordered(w)[1], v) = Path(w).norm}
  IN IF /\ IsSet(size) /\ size.e[1].f = "size" /\ IsVar(size.e[1].a[1])
        /\ IsIfElse(test) /\ found # {}
     THEN Path(CHOOSE w \in found : TRUE) ELSE NoWrapper
ExactMaskPath(b, v) == MaskPath(b, v, 4) # NoWrapper /\ DirectCopy(b[2].arms[1], b[1].d) = MaskPath(b, v, 4).norm
(* v = ..; if (v >= min) { if (v <= max) { n = v } else { the mask path }  *)
(* } else { the mask path }                                                *)
MatchInt32Wrapper(operation, test) ==
  LET v == operation.d
      inner == test.arms[1][1]
      Path(b) == MaskPath(b, v, 4)
  IN IF /\ IsSet(operation) /\ IsIfElse(test) /\ Bounds(test.e[1], v, ">=", Smallest(4))
        /\ Len(test.arms[1]) = 1 /\ IsIfElse(inner) /\ Bounds(inner.e[1], v, "<=", Largest(4))
        /\ ExactMaskPath(inner.arms[2], v) /\ ExactMaskPath(test.arms[2], v)
        /\ DirectCopy(inner.arms[1], v) = Path(inner.arms[2]).norm
        /\ Path(inner.arms[2]).norm = Path(test.arms[2]).norm
     THEN Path(test.arms[2]) ELSE NoWrapper
(* The statement behind the wrapper may use the normalized value at once.  *)
Consumes(st, v) ==
  \/ st.k \in {"set", "return"} /\ st.e = <<Var(v)>>
  \/ st.k = "do" /\ st.e[1].f = "setitem" /\ Last(st.e[1].a) = Var(v)
Rendered(m, final, preserved) ==
  LET mask == Var(m.mask)
  IN <<Set(m.mask, Op("&", <<Var(m.op), Num(Modulus(m.w) - 1)>>)),
       IfThen(Op(">", <<mask, Num(Largest(m.w))>>), <<Set(m.mask, Op("-", <<mask, Num(Modulus(m.w))>>))>>)>>
     \o (CASE final.k = "do" -> <<Do([final.e[1] EXCEPT !.a[3] = mask])>>
           [] OTHER -> <<[final EXCEPT !.e = <<mask>>]>>)
     \o IF preserved /\ final.k # "return" /\ final.d # m.norm THEN <<Set(m.norm, mask)>> ELSE <<>>
(* gap: the statements from the one before the wrapper to the wrapper's if *)
WrapperAt(kind, b, k) ==
  IF kind = "size" THEN MatchSizeWrapper(b[k + 1], b[k + 2]) ELSE MatchInt32Wrapper(b[k], b[k + 1])
Gap(kind) == IF kind = "size" THEN 2 ELSE 1
RECURSIVE CollapseFrom(_, _, _)
CollapseFrom(kind, b, k) ==
  LET m == WrapperAt(kind, b, k)
      after == k + Gap(kind) + 1
      takes == after <= Len(b) /\ Consumes(b[after], m.norm)
      final == IF takes THEN b[after] ELSE Set(m.norm, Num(0))
      rest == SubSeq(b, IF takes THEN after + 1 ELSE after, Len(b))
      new == Rendered(m, final, \E st \in Range(rest) : UsesVariable(st, m.norm))
  IN IF k + Gap(kind) > Len(b) THEN b
     ELSE IF m = NoWrapper THEN CollapseFrom(kind, b, k + 1)
     ELSE CollapseFrom(kind, SubSeq(b, 1, k) \o new \o rest, k + Len(new) + 1)
RECURSIVE CollapseWrappers(_, _)
CollapseWrappers(kind, b) ==
  CollapseFrom(kind, InArms(LAMBDA a : CollapseWrappers(kind, a), b), 1)
CollapseSizeWrappers(b) == CollapseWrappers("size", b)
CollapseInt32Wrappers(b) == CollapseWrappers("int", b)

-----------------------------------------------------------------------------
(* cleanup/temps/copies.rs: an assignment whose value is read once moves   *)
(* to the place that reads it.                                             *)
CopyCandidate(b, k, root) ==
  LET st == b[k]
      v == st.d
      bases == CollectionBases(st.e[1])
      readers == {j \in k + 1 .. Len(b) : UsesVariable(b[j], v)}
      reader == Min(readers)
      Rebinds(s) == \E x \in VarsOf(st.e[1]) \cup {v} : AssignsVariable(s, x)
  IN /\ IsSet(st) /\ ~ IsStaticSlot(v) /\ IsPure(st.e[1]) /\ v \notin VarsOf(st.e[1])
     /\ BlockUses(root, v) = 1 /\ readers # {}
     /\ \A j \in k + 1 .. reader - 1 : ~ Rebinds(b[j]) /\ ~ MutatesCollections(b[j], bases)
     /\ b[reader].arms # <<>> => ~ Rebinds(b[reader])
     /\ ~ MutatesCollections(b[reader], bases)
ArmsIn(b) == {p \in (DOMAIN b) \X (1 .. 3) : p[2] \in DOMAIN b[p[1]].arms}
Foremost(ps) == CHOOSE p \in ps : \A q \in ps : p[1] < q[1] \/ (p[1] = q[1] /\ p[2] <= q[2])
RECURSIVE PropagateOne(_, _)
PropagateOne(b, root) ==
  LET Inner(p) == PropagateOne(b[p[1]].arms[p[2]], root)
      inner == {p \in ArmsIn(b) : Inner(p) # b[p[1]].arms[p[2]]}
      here == {k \in DOMAIN b : CopyCandidate(b, k, root)}
      k == Min(here)
      p == Foremost(inner)
  IN IF inner # {} THEN [b EXCEPT ![p[1]].arms[p[2]] = Inner(p)]
     ELSE IF here # {} THEN SubstituteVariable(RemoveAt(b, k), b[k].d, b[k].e[1])
     ELSE b
RECURSIVE PropagateSingleUseCopies(_)
PropagateSingleUseCopies(b) ==
  S!Apply(LAMBDA next : IF next = b THEN b ELSE PropagateSingleUseCopies(next), PropagateOne(b, b))

(* cleanup/temps/merges.rs: if (c) { p = x } else { p = y } becomes        *)
(* c ? x : y in the next statement.                                        *)
IsBranchMerge(b, k) ==
  LET then == b[k].arms[1]
      else == b[k].arms[2]
  IN /\ IsIfElse(b[k]) /\ Len(then) = 1 /\ Len(else) = 1
     /\ IsSet(then[1]) /\ IsSet(else[1]) /\ then[1].d = else[1].d
     /\ IsGenerated(then[1].d) /\ BlockUses(b, then[1].d) = 1
     /\ UsesIn(then[1].e[1], then[1].d) = 0 /\ UsesIn(else[1].e[1], then[1].d) = 0
     /\ UsesVariable(b[k + 1], then[1].d)
FoldMerge(b, k) ==
  LET then == b[k].arms[1][1]
      else == b[k].arms[2][1]
  IN SubstituteVariable(RemoveAt(b, k), then.d, Op("?:", <<b[k].e[1], then.e[1], else.e[1]>>))
RECURSIVE FoldBranchValueMerges(_)
FoldBranchValueMerges(b) ==
  LET inner == InArms(FoldBranchValueMerges, b)
      merges == {k \in 1 .. Len(inner) - 1 : IsBranchMerge(inner, k)}
  IN IF merges = {} THEN inner ELSE FoldBranchValueMerges(FoldMerge(inner, Min(merges)))

(* cleanup/temps/arrays.rs: a new array and the stores that fill it become *)
(* one literal.                                                            *)
Allocations == {"newarray", "newbuffer"}
RECURSIVE ConstInt(_)
ConstInt(x) ==
  CASE x.f = "int" -> x.lit [] x.f = "cast" /\ x.n = <<"int">> -> ConstInt(x.a[1]) [] OTHER -> -1
IsByte(x) == (x.f = "cast" /\ x.n = <<"byte">>) \/ (x.f = "int" /\ x.lit \in 0 .. MaxByte)
AsByte(x) == IF x.f = "int" THEN Cast(<<"byte">>, x) ELSE x
RECURSIVE FoldInitializersFrom(_, _)
FoldInitializersFrom(b, k) ==
  LET new == b[k].e[1]
      n == ConstInt(new.a[1])
      buffer == new.f = "newbuffer"
      Stores(i) == /\ k + i + 1 <= Len(b)
                   /\ b[k + i + 1].k = "do"
                   /\ LET x == b[k + i + 1].e[1]
                      IN x.f = "setitem" /\ x.a[1] = Var(b[k].d) /\ ConstInt(x.a[2]) = i
                         /\ b[k].d \notin VarsOf(x.a[3])
      Value(i) == b[k + i].e[1].a[3]
      values == [i \in 1 .. n |-> IF buffer THEN AsByte(Value(i)) ELSE Value(i)]
  IN IF k > Len(b) THEN b
     ELSE IF /\ IsSet(b[k]) /\ new.f \in Allocations /\ n \in 1 .. MaxInitializer
             /\ \A i \in 0 .. n - 1 : Stores(i)
             /\ buffer => \A i \in 1 .. n : IsByte(Value(i))
     THEN FoldInitializersFrom(SubSeq(b, 1, k - 1) \o <<Set(b[k].d, Op("array", values))>>
                                 \o SubSeq(b, k + n + 1, Len(b)), k + 1)
     ELSE FoldInitializersFrom(b, k + 1)
RECURSIVE FoldArrayInitializers(_)
FoldArrayInitializers(b) == FoldInitializersFrom(InArms(FoldArrayInitializers, b), 1)

(* cleanup/temps/dead_stores.rs                                            *)
IsDeadStore(st, root) ==
  IsSet(st) /\ ~ IsStaticSlot(st.d) /\ BlockUses(root, st.d) <= UsesIn(st.e[1], st.d)
RECURSIVE DeadStoresWithin(_, _)
DeadStoresWithin(b, root) ==
  LET Stays(st) == IsDeadStore(st, root) => HasEffectfulCall(st.e[1]) \/ MayFault(st.e[1])
      Bare(st) == IF IsDeadStore(st, root) /\ HasEffectfulCall(st.e[1]) THEN Do(st.e[1]) ELSE st
      kept == SelectSeq(b, Stays)
  IN InArms(LAMBDA a : DeadStoresWithin(a, root), [k \in DOMAIN kept |-> Bare(kept[k])])
EliminateDeadStores(b) == DeadStoresWithin(b, b)

-----------------------------------------------------------------------------
CleanupInit ==
  /\ program \in Programs /\ block = program
  /\ phase = "promote" /\ before = <<>> /\ round = 0

Rewrite(from, to, new) ==
  /\ phase = from /\ phase' = to /\ block' = new
  /\ UNCHANGED <<program, before, round>>
PromoteLoops == Rewrite("promote", "header", BuildLoops(block))
HeaderInit == Rewrite("header", "adjacent", RecoverHeaderInitLoops(block))
Adjacent == Rewrite("adjacent", "size", PromoteAdjacentForLoops(block))
SizeWrappers == Rewrite("size", "int", CollapseSizeWrappers(block))
Int32Wrappers == Rewrite("int", "reduce", CollapseInt32Wrappers(block))
(* Only a request for readable statements reduces the temporaries.         *)
KeepTemporaries == phase = "reduce" /\ phase' = "done" /\ round = 0 /\ UNCHANGED <<program, block, before, round>>
StartRound ==
  /\ phase = "reduce" /\ round < MaxRounds
  /\ phase' = "copies" /\ before' = block /\ round' = round + 1
  /\ UNCHANGED <<program, block>>
Copies == Rewrite("copies", "merges", PropagateSingleUseCopies(block))
Merges == Rewrite("merges", "casts", FoldBranchValueMerges(block))
Casts == Rewrite("casts", "arrays", SimplifyCasts(block))
Arrays == Rewrite("arrays", "dead", FoldArrayInitializers(block))
DeadStores == Rewrite("dead", "compare", EliminateDeadStores(block))
(* Mutant: the passes run once.                                            *)
EndRoundMutant ==
  phase = "compare" /\ phase' = "lowered" /\ UNCHANGED <<program, block, before, round>>
EndRound ==
  /\ phase = "compare"
  /\ phase' = IF block = before \/ round = MaxRounds THEN "lowered" ELSE "reduce"
  /\ UNCHANGED <<program, block, before, round>>

CleanupNext ==
  \/ PromoteLoops \/ HeaderInit \/ Adjacent \/ SizeWrappers \/ Int32Wrappers
  \/ KeepTemporaries \/ StartRound \/ Copies \/ Merges \/ Casts \/ Arrays \/ DeadStores \/ EndRound
=============================================================================
