----------------------------- MODULE CsharpBody -----------------------------
(***************************************************************************)
(* The C# text of a method body (csharp/render/structured): where each     *)
(* variable is declared, which temporaries are written at their use, and   *)
(* which counting loops become foreach.                                    *)
(*                                                                         *)
(* The text is again a list of statements, with four kinds of its own:     *)
(* "declare" and "var" declare a variable of the enclosing braces, without *)
(* and with a value, "assign" writes one that must be declared, "foreach"  *)
(* walks a collection, and "braces" is a block inside a block.  A scope is *)
(* the path to it: for every enclosing block the position of its statement *)
(* and of the block in it.  Rendered types and casts are left out.         *)
(***************************************************************************)
EXTENDS IrCleanup

CONSTANT
  ValueType(_)   (* the type inferred for a variable                       *)

(* How a variable came about, by the family of its name.                   *)
Origin(v) ==
  CASE Base(v) = "t" -> "Temporary"
    [] Base(v) \in {"p0", "p1"} -> "Phi"
    [] Base(v) = "arg0" -> "Parameter"
    [] IsStaticSlot(v) -> "Static"
    [] OTHER -> "Local"

-----------------------------------------------------------------------------
(* Occurrences of variables in the order of the text.  The conditions and  *)
(* updates of loops, which run again and again, are `apart' to the search  *)
(* for temporaries and in the scope around them to the declarations.       *)
Occurrence(v, scope, writes, x) == [v |-> v, scope |-> scope, writes |-> writes, x |-> x]
Inner(scope, k, j) == Append(scope, <<k, j>>)

RECURSIVE VisitExpr(_, _)
VisitExpr(x, scope) ==
  IF IsVar(x) THEN <<Occurrence(x.n, scope, FALSE, x)>>
  ELSE FlattenSeq([k \in DOMAIN x.a |-> VisitExpr(x.a[k], scope)])

RECURSIVE VisitBlock(_, _, _)
VisitFor(st, loop, apart) ==
  VisitBlock(st.init, loop, apart)
    \o VisitExpr(st.e[1], IF apart THEN Inner(loop, 1, 2) ELSE loop)
    \o VisitBlock(st.arms[1], Inner(loop, 1, 1), apart)
    \o VisitExpr(st.e[2], IF apart THEN Inner(loop, 1, 3) ELSE loop)
VisitStatement(st, scope, k, apart) ==
  LET at == IF apart /\ st.k = "while" THEN Inner(scope, k, 2) ELSE scope
      reads == FlattenSeq([j \in DOMAIN st.e |-> VisitExpr(st.e[j], at)])
  IN IF st.k = "for" THEN VisitFor(st, Inner(scope, k, 0), apart)
     ELSE IF IsSet(st) THEN Append(reads, Occurrence(st.d, scope, TRUE, st.e[1]))
     ELSE reads \o FlattenSeq([j \in DOMAIN st.arms |-> VisitBlock(st.arms[j], Inner(scope, k, j), apart)])
VisitBlock(b, scope, apart) == FlattenSeq([k \in DOMAIN b |-> VisitStatement(b[k], scope, k, apart)])

Of(occ, v) == {k \in DOMAIN occ : occ[k].v = v}
Definitions(occ, v) == {k \in Of(occ, v) : occ[k].writes}
UsesOf(occ, v) == Of(occ, v) \ Definitions(occ, v)
Names(occ) == {occ[k].v : k \in DOMAIN occ}

(* A variable is declared where it is assigned if all its uses follow in   *)
(* the same scope, otherwise at the head of the scope around all of them.  *)
DeclaredInline(occ, v) ==
  \E d \in Definitions(occ, v) :
    /\ Definitions(occ, v) = {d}
    /\ \A u \in UsesOf(occ, v) : u > d /\ occ[u].scope = occ[d].scope
PlanDeclarations(occ) ==
  [v \in {v \in Names(occ) : /\ Origin(v) \notin {"Parameter", "Static"}
                             /\ Definitions(occ, v) # {} \/ Origin(v) = "Phi"} |->
     [scope |-> LongestCommonPrefix({occ[k].scope : k \in Of(occ, v)}),
      inline |-> DeclaredInline(occ, v),
      initialized |-> ~ DeclaredInline(occ, v) /\ Origin(v) = "Phi"]]

(* Copies nothing reads.                                                   *)
UnusedCopySymbols(occ) ==
  {v \in Names(occ) :
     /\ Definitions(occ, v) # {} /\ UsesOf(occ, v) = {}
     /\ Origin(v) \in {"Local", "Temporary", "Phi"}
     /\ \A d \in Definitions(occ, v) : IsVar(occ[d].x) /\ ValueType(occ[d].x.n) = ValueType(v)}

-----------------------------------------------------------------------------
(* Temporaries written where they are used: only the single use of a       *)
(* single definition in one scope, when the value cannot differ there.     *)
ExpressionType(x) ==
  CASE IsVar(x) -> ValueType(x.n)
    [] x.f = "int" -> "Integer"
    [] x.f = "bool" -> "Boolean"
    [] OTHER -> "Unknown"
Ordered == {"+", "-", "&", "<", "<=", ">", ">="}
LowLevelBinary(x) ==
  LET types == {ExpressionType(y) : y \in Range(x.a)}
  IN \/ x.f \in Ordered /\ ~ (types \subseteq {"Integer", "Unknown"})
     \/ x.f = "==" /\ types \notin {{"Integer"}, {"Boolean"}}
NotInlined == {"index", "cast", "array", "/"} \cup PureCalls \cup EffectfulCalls
IsInlinePure(x, occ, d, u) ==
  \A y \in Nodes(x) :
    /\ y.f \notin NotInlined
    /\ ~ LowLevelBinary(y)
    /\ IsVar(y) => /\ Origin(y.n) # "Static"
                   /\ \A w \in Definitions(occ, y.n) : w <= d \/ w >= u
InlineAt(occ, v, d, u) ==
  /\ Definitions(occ, v) = {d} /\ UsesOf(occ, v) = {u}
  /\ Origin(v) = "Temporary" /\ ValueType(v) # "Unknown"
  /\ occ[d].scope = occ[u].scope /\ d < u
  /\ IsInlinePure(occ[d].x, occ, d, u)
InlineValues(occ) ==
  LET Definition(v) == CHOOSE d \in Definitions(occ, v) : TRUE
  IN [v \in {v \in Names(occ) : \E d, u \in Of(occ, v) : InlineAt(occ, v, d, u)} |-> occ[Definition(v)].x]

RECURSIVE RenderExpr(_, _)
RenderExpr(x, plan) ==
  IF IsVar(x) /\ x.n \in DOMAIN plan.inlined THEN RenderExpr(plan.inlined[x.n], plan)
  ELSE [x EXCEPT !.a = [k \in DOMAIN @ |-> RenderExpr(@[k], plan)]]

-----------------------------------------------------------------------------
(* What is known of variables from the statements before, to tell that a   *)
(* loop runs over a whole collection.                                      *)
ContainsCall(x) == \E y \in Nodes(x) : y.f \in PureCalls \cup EffectfulCalls
RECURSIVE DefinesVariable(_)
DefinesVariable(st) ==
  IsSet(st) \/ \E b \in {st.init} \cup Range(st.arms) : \E s \in Range(b) : DefinesVariable(s)
UpdateDefinitionFacts(facts, st) ==
  IF IsSet(st) THEN (st.d :> st.e[1]) @@ (IF ContainsCall(st.e[1]) THEN <<>> ELSE facts)
  ELSE IF st.k = "do" /\ ContainsCall(st.e[1]) THEN <<>>
  ELSE IF DefinesVariable(st) THEN <<>> ELSE facts

RECURSIVE ResolveAlias(_, _, _)
ResolveAlias(v, facts, seen) ==
  IF v \notin seen /\ v \in DOMAIN facts /\ IsVar(facts[v])
  THEN ResolveAlias(facts[v].n, facts, seen \cup {v}) ELSE v
IsCollectionExpression(x, root, facts, seen) ==
  IsVar(x) /\ x.n \notin seen /\ ResolveAlias(x.n, facts, {}) = root
RECURSIVE IsCollectionBound(_, _, _, _)
IsCollectionBound(x, root, facts, seen) ==
  \/ /\ IsVar(x) /\ x.n \notin seen /\ x.n \in DOMAIN facts
     /\ IsCollectionBound(facts[x.n], root, facts, seen \cup {x.n})
  \/ x.f = "size" /\ IsCollectionExpression(x.a[1], root, facts, seen)
  \/ x.f = "cast" /\ IsCollectionBound(x.a[1], root, facts, seen)

BlockAssigns(b, v) == \E st \in Range(b) : AssignsVariable(st, v)
BlockMentions(b, v) == BlockAssigns(b, v) \/ \E st \in Range(b) : Var(v) \in StmtNodes(st)
HasOpaqueCalls(b) == \E st \in Range(b) : \E y \in StmtNodes(st) : y.f \in EffectfulCalls
WritesStatic(b) == \E v \in {<<"static0">>, <<"static1">>} : BlockAssigns(b, v)

(* for (i = 0; i < size(c); i++) { item = c[i]; .. }, the element perhaps  *)
(* by way of a temporary.                                                  *)
Extracted(body) ==
  IF Len(body) > 1 /\ IsSet(body[2]) /\ body[2].e[1] = Var(body[1].d) THEN 2 ELSE 1
CountsUp(st, i) ==
  /\ st.init[1].e[1] = Num(0)
  /\ st.e[1].f = "<" /\ st.e[1].a[1] = Var(i)
  /\ st.e[2] = Op("inc", <<Var(i)>>)
ExtractsElement(body, i) ==
  /\ body # <<>> /\ IsSet(body[1])
  /\ body[1].e[1].f = "index" /\ IsVar(body[1].e[1].a[1]) /\ body[1].e[1].a[2] = Var(i)
ElementOnly(body, i, c, plan) ==
  LET n == Extracted(body)
      rest == SubSeq(body, n + 1, Len(body))
      taken == {body[k].d : k \in 1 .. n}
  IN /\ \A v \in taken : v \in DOMAIN plan.declared /\ plan.declared[v].inline /\ v \notin DOMAIN plan.inlined
     /\ \A v \in {i, c} \cup (taken \ {body[n].d}) : ~ BlockMentions(rest, v)
     /\ ~ BlockAssigns(rest, body[n].d) /\ ~ HasOpaqueCalls(rest) /\ ~ WritesStatic(rest)
DetectForeach(st, facts, plan) ==
  LET i == st.init[1].d
      body == st.arms[1]
      c == body[1].e[1].a[1].n
  IN /\ CountsUp(st, i) /\ ExtractsElement(body, i)
     /\ IsCollectionBound(st.e[1].a[2], ResolveAlias(c, facts, {}), facts, {})
     /\ ValueType(c) \in {"Array", "Struct", "Buffer"}
     /\ ElementOnly(body, i, c, plan)
(* The counter and nothing else belongs to the loop.                       *)
IndexIsPrivate(i, loop, plan) ==
  {v \in DOMAIN plan.declared : plan.declared[v].scope = loop} = {i}

-----------------------------------------------------------------------------
(* Rendering.                                                              *)
HoistedDeclarations(scope, plan) ==
  LET here == {v \in DOMAIN plan.declared \ plan.unused :
                 plan.declared[v].scope = scope /\ ~ plan.declared[v].inline}
      Declare(v) == [Stmt("declare") EXCEPT !.d = v, !.e = IF plan.declared[v].initialized THEN <<Num(0)>> ELSE <<>>]
      names == SetToSeq(here)
  IN [k \in DOMAIN names |-> Declare(names[k])]

RenderAssignment(st, plan) ==
  LET inline == st.d \in DOMAIN plan.declared /\ plan.declared[st.d].inline
  IN [st EXCEPT !.k = IF inline THEN "var" ELSE "assign", !.e = <<RenderExpr(@[1], plan)>>]
ShouldOmit(st, plan) == IsSet(st) /\ IsVar(st.e[1]) /\ st.d \in plan.unused

RECURSIVE RenderBlock(_, _, _, _, _)
RenderFor(st, loop, facts, plan) ==
  LET init == st.init[1]
      body == st.arms[1]
      c == body[1].e[1].a[1]
      Body(known, omitted) == RenderBlock(body, Inner(loop, 1, 1), known, omitted, plan)
      for == [st EXCEPT !.init = <<RenderAssignment(init, plan)>>,
                        !.e = [k \in DOMAIN @ |-> RenderExpr(@[k], plan)],
                        !.arms = <<Body((init.d :> init.e[1]) @@ facts, 0)>>]
      hoisted == HoistedDeclarations(loop, plan)
  IN IF DetectForeach(st, facts, plan) /\ IndexIsPrivate(init.d, loop, plan)
     THEN <<[Stmt("foreach") EXCEPT !.d = body[Extracted(body)].d, !.e = <<RenderExpr(c, plan)>>,
                                    !.arms = <<Body(facts, Extracted(body))>>]>>
     ELSE IF hoisted = <<>> THEN <<for>>
     ELSE <<[Stmt("braces") EXCEPT !.arms = <<hoisted \o <<for>>>>]>>

RenderStatement(st, scope, k, facts, plan) ==
  IF st.k = "for" THEN RenderFor(st, Inner(scope, k, 0), facts, plan)
  ELSE IF ~ IsSet(st)
  THEN <<[st EXCEPT !.e = [j \in DOMAIN @ |-> RenderExpr(@[j], plan)],
                    !.arms = [j \in DOMAIN @ |-> RenderBlock(@[j], Inner(scope, k, j), facts, 0, plan)]]>>
  ELSE IF st.d \in DOMAIN plan.inlined THEN <<>>
  ELSE <<RenderAssignment(st, plan)>>

RenderBlock(b, scope, inherited, omitted, plan) ==
  LET Next(r, k) ==
        IF k <= omitted \/ ShouldOmit(b[k], plan) THEN r
        ELSE [out |-> r.out \o RenderStatement(b[k], scope, k, r.facts, plan),
              facts |-> UpdateDefinitionFacts(r.facts, b[k])]
      start == [out |-> HoistedDeclarations(scope, plan), facts |-> inherited]
  IN S!Fold(Next, start, [k \in DOMAIN b |-> k]).out

PlanOf(b, inline) ==
  LET Plan(occ) == [declared |-> PlanDeclarations(occ), unused |-> UnusedCopySymbols(occ),
                    inlined |-> IF inline THEN S!Apply(InlineValues, VisitBlock(b, <<>>, TRUE)) ELSE <<>>]
  IN S!Apply(Plan, VisitBlock(b, <<>>, FALSE))
RenderedBody(b, inline) == S!Apply(LAMBDA plan : RenderBlock(b, <<>>, <<>>, 0, plan), PlanOf(b, inline))

(* render_method_body, with and without --inline-single-use-temps.         *)
RenderMethodBody == \E inline \in BOOLEAN : Rewrite("lowered", "done", RenderedBody(block, inline))

BodyNext == CleanupNext \/ RenderMethodBody
BodySpec == CleanupInit /\ [][BodyNext]_cleanupVars
=============================================================================
