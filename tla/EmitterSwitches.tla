-------------------------- MODULE EmitterSwitches ---------------------------
(***************************************************************************)
(* The last passes of finish: comparisons of one value with literals, in   *)
(* an if-else chain, one behind the other or guarding gotos, become a      *)
(* switch, and gotos to its end become breaks.  Comments a fold moves into *)
(* a case are left out.                                                    *)
(***************************************************************************)
EXTENDS EmitterPasses

-----------------------------------------------------------------------------
(* The comparison an if makes: its own condition, or what was assigned to  *)
(* the name it tests just before.                                          *)
NoExpr == Missing
ResolveCondition(s, i) ==
  LET c == s[i].e
      name == IF c.f = "!" THEN c.a[1] ELSE c
      prev == PreviousCode(s, i)
  IN CASE c.f = "!" /\ name.a # <<>> -> IF name.f = "==" THEN name ELSE NoExpr
       [] c.f = "==" -> c
       [] OTHER -> IF prev # 0 /\ IsAssignment(s[prev]) /\ s[prev].d = name THEN s[prev].e ELSE NoExpr

IsLiteral(x) == x.f \in {"int", "bool", "str", "null"}
NoSides == [of |-> Missing, with |-> Missing]
ParseCaseSides(x) ==
  LET Sides(k) == [of |-> x.a[3 - k], with |-> x.a[k]]
      Only(P(_), k) == P(x.a[k]) /\ ~ P(x.a[3 - k])
  IN CASE x.f # "==" -> NoSides
       [] x.f = "==" /\ Only(IsLiteral, 1) -> Sides(1)
       [] x.f = "==" /\ Only(IsLiteral, 2) -> Sides(2)
       [] x.f = "==" /\ ~ Only(IsLiteral, 1) /\ ~ Only(IsLiteral, 2) /\ Only(IsTemp, 1) -> Sides(1)
       [] x.f = "==" /\ ~ Only(IsLiteral, 1) /\ ~ Only(IsLiteral, 2) /\ Only(IsTemp, 2) -> Sides(2)
       [] OTHER -> NoSides

(* The literal a case compares with; a temporary stands for the literal    *)
(* last assigned to it in the listing.                                     *)
ResolveCaseValue(s, i, x) ==
  LET prior == LastOf({k \in 1 .. i - 1 : IsAssignment(s[k]) /\ s[k].d = x})
      value == IF IsLiteral(x) THEN x ELSE IF IsTemp(x) /\ prior # 0 THEN s[prior].e ELSE NoExpr
  IN IF IsLiteral(value) THEN value ELSE NoExpr

SidesAt(s, i) == ParseCaseSides(ResolveCondition(s, i))
(* The case the if at i makes of the value it compares, earlier ones       *)
(* comparing of.                                                           *)
ValueAt(s, i, of) ==
  LET sides == SidesAt(s, i)
  IN IF sides = NoSides \/ (of # NoExpr /\ of # sides.of) THEN NoExpr ELSE ResolveCaseValue(s, i, sides.with)

(* Between two cases only the temporaries of the next comparison may be    *)
(* assigned.                                                               *)
TempConsumed(s, i) ==
  /\ IsAssignment(s[i]) /\ IsTemp(s[i].d)
  /\ NextCode(s, i) # 0 /\ ContainsIdentifier(s[NextCode(s, i)], s[i].d)
NextCaseHeader(s, i, kinds) ==
  LET next == FirstOf({k \in i + 1 .. Len(s) : ~ Skippable(s[k]) /\ ~ TempConsumed(s, k)})
  IN IF next # 0 /\ s[next].s \in kinds THEN next ELSE 0

IsTerminator(line) ==
  line.s \in {"return", "goto", "break", "continue"} \/ (line.s = "call" /\ line.e.f \in {"throw", "abort"})
CaseBodyIsSwitchSafe(body, of) ==
  LET last == LastOf({k \in DOMAIN body : ~ Skippable(body[k]) /\ ~ Is(body[k], "close")})
  IN (last # 0 /\ IsTerminator(body[last])) \/ ~ \E k \in DOMAIN body : IsAssignment(body[k]) /\ body[k].d = of

-----------------------------------------------------------------------------
(* A chain of ifs.                                                         *)
Case(value, body) == [value |-> value, body |-> body]
Chain(i) ==
  [header |-> i, cases |-> <<>>, of |-> NoExpr, default |-> <<>>, hasDefault |-> FALSE, end |-> i,
   linked |-> FALSE, state |-> "going"]
Fail(c) == [c EXCEPT !.state = "failed"]
Done(c) == [c EXCEPT !.state = "done"]

EndOfIfChain(s, i) ==
  LET end == FindBlockEnd(s, i)
      next == NextCode(s, end)
  IN IF end # 0 /\ next # 0 /\ Is(s[next], "else") THEN FindBlockEnd(s, next) ELSE end

(* The else behind a case: it holds the next case and nothing behind it,   *)
(* or it is the default.                                                   *)
IntoElse(s, c, else, end, inner) ==
  LET innerEnd == EndOfIfChain(s, inner)
      linked == [c EXCEPT !.linked = TRUE, !.end = GreatestOf({@, end})]
  IN IF end = 0 \/ (inner # 0 /\ innerEnd = 0) THEN Fail(c)
     ELSE IF inner # 0 /\ innerEnd < end /\ NextCode(s, innerEnd) = end
     THEN [linked EXCEPT !.header = inner]
     ELSE Done([linked EXCEPT !.default = SubSeq(s, else + 1, end - 1), !.hasDefault = TRUE])
ElseAt(s, c, else, end) == IntoElse(s, c, else, end, FirstOf({k \in else + 1 .. end - 1 : Is(s[k], "if")}))

IntoSibling(s, c, sibling) ==
  IF sibling # 0 /\ SidesAt(s, sibling).of = c.of THEN [c EXCEPT !.header = sibling] ELSE Done(c)

(* Where the chain goes on behind the block that ends at end.              *)
FollowChain(s, c, end, next) ==
  IF next # 0 /\ Is(s[next], "elseif") THEN [c EXCEPT !.linked = TRUE, !.header = next]
  ELSE IF next # 0 /\ Is(s[next], "else") THEN ElseAt(s, c, next, FindBlockEnd(s, next))
  ELSE IntoSibling(s, c, NextCaseHeader(s, end, {"if"}))

AddCase(s, c, value, end) ==
  IF value = NoExpr \/ end = 0 THEN Fail(c)
  ELSE FollowChain(s, [c EXCEPT !.of = SidesAt(s, c.header).of,
                                !.cases = Append(@, Case(value, SubSeq(s, c.header + 1, end - 1))),
                                !.end = GreatestOf({@, end})], end, NextCode(s, end))

Distinct(cases) == \A j, k \in DOMAIN cases : cases[j].value = cases[k].value => j = k
SwitchLines(of, cases, default, hasDefault) ==
  LET Block(k) == <<Cond("case", cases[k].value)>> \o cases[k].body \o <<Close>>
  IN <<Cond("switch", of)>> \o FlattenSeq([k \in DOMAIN cases |-> Block(k)])
       \o (IF hasDefault THEN <<Line("default")>> \o default \o <<Close>> ELSE <<>>) \o <<Close>>

NoFold == [lines |-> <<>>, end |-> 0]
SwitchOf(built) ==
  IF /\ built.state = "done"
     /\ Len(built.cases) >= (IF built.linked THEN 2 ELSE 3)
     /\ Distinct(built.cases)
     /\ built.linked \/ \A k \in DOMAIN built.cases : CaseBodyIsSwitchSafe(built.cases[k].body, built.of)
  THEN [lines |-> SwitchLines(built.of, built.cases, built.default, built.hasDefault), end |-> built.end]
  ELSE NoFold
TryBuildSwitch(s, i) ==
  SwitchOf(S!Fold(LAMBDA c, k : IF c.state = "going"
                                THEN AddCase(s, c, ValueAt(s, c.header, c.of), FindBlockEnd(s, c.header)) ELSE c,
                  Chain(i), s))

-----------------------------------------------------------------------------
(* Comparisons that guard gotos into the block of the last one.            *)
GuardAt(i) == [header |-> i, labels |-> <<>>, of |-> NoExpr, state |-> "going"]
AddGuard(s, g) ==
  LET value == ValueAt(s, g.header, g.of)
      next == NextCaseHeader(s, g.header, {"ifgoto", "if"})
  IN IF ~ Is(s[g.header], "ifgoto") THEN Done(g)
     ELSE IF value = NoExpr \/ next = 0 THEN Fail(g)
     ELSE [g EXCEPT !.header = next, !.of = SidesAt(s, g.header).of,
                    !.labels = Append(@, [value |-> value, l |-> s[g.header].l])]

(* A label's body reaches to the next label.                               *)
LabelBodyEnd(s, i, end) ==
  LET next == FirstOf({k \in i + 1 .. end - 1 : Is(s[k], "label")}) IN IF next = 0 THEN end - 1 ELSE next - 1
LabelBody(s, from, end, l) ==
  LET i == LabelIn(s, from .. end - 1, l) IN IF i = 0 THEN <<>> ELSE SubSeq(s, i + 1, LabelBodyEnd(s, i, end))

(* The last case and the default: in the else of the last if, split by the *)
(* label of the default, or behind it, up to the next label.               *)
NoTail == [final |-> <<>>, default |-> <<>>, end |-> 0]
TailFrom(s, l, from, to) ==
  LET inside == LabelIn(s, from + 1 .. to - 1, l)
      behind == LabelIn(s, to + 1 .. Len(s), l)
      last == LabelBodyEnd(s, behind + 1, Len(s) + 1)
  IN CASE inside # 0 ->
            [final |-> SubSeq(s, from + 1, inside - 1), default |-> SubSeq(s, inside + 1, to - 1), end |-> to]
       [] inside = 0 /\ behind # 0 ->
            [final |-> IF from = to THEN SubSeq(s, to + 1, behind - 1) ELSE SubSeq(s, from + 1, to - 1),
             default |-> SubSeq(s, behind + 1, last), end |-> last]
       [] OTHER -> NoTail
TailElse(s, end, l, else) == IF else = 0 THEN TailFrom(s, l, end, end) ELSE TailFrom(s, l, else, FindBlockEnd(s, else))
GuardedTail(s, end, l) == TailElse(s, end, l, ElseBehind(s, end))

GuardedSwitch(s, first, of, cases, tail) ==
  IF /\ \A k \in DOMAIN cases : cases[k].body # <<>>
     /\ tail.default # <<>>
     /\ Distinct(cases)
  THEN [lines |-> SwitchLines(of, cases, tail.default, TRUE), end |-> tail.end]
  ELSE NoFold
GuardedLabels(s, first, end) ==
  /\ first # 0 /\ first < end /\ Is(s[first], "label")
  /\ \A j, k \in first .. end - 1 : Is(s[j], "label") /\ s[j] = s[k] => j = k
GuardedCases(s, g, end, first, tail) ==
  LET bodies == [k \in DOMAIN g.labels |-> Case(g.labels[k].value, LabelBody(s, first, end, g.labels[k].l))]
  IN IF GuardedLabels(s, first, end)
     THEN GuardedSwitch(s, first, SidesAt(s, g.header).of,
                        Append(bodies, Case(ValueAt(s, g.header, g.of), tail.final)), tail)
     ELSE NoFold
LastGuard(s, g, end, goto) ==
  IF /\ g.state = "done" /\ Is(s[g.header], "if") /\ ValueAt(s, g.header, g.of) # NoExpr
     /\ end # 0 /\ goto # 0 /\ goto < end /\ Is(s[goto], "goto")
  THEN GuardedCases(s, g, end, NextCode(s, goto), GuardedTail(s, end, s[goto].l))
  ELSE NoFold
GuardedFrom(s, g) == LastGuard(s, g, FindBlockEnd(s, g.header), NextCode(s, g.header))
TryBuildGuardedGotoSwitch(s, i) ==
  GuardedFrom(s, S!Fold(LAMBDA x, k : IF x.state = "going" THEN AddGuard(s, x) ELSE x, GuardAt(i), s))

FoldAt(s, i) ==
  IF Is(s[i], "ifgoto") THEN TryBuildGuardedGotoSwitch(s, i)
  ELSE IF Is(s[i], "if") THEN TryBuildSwitch(s, i) ELSE NoFold
Spliced(s, i, fold) ==
  IF fold = NoFold THEN s ELSE SubSeq(s, 1, i - 1) \o fold.lines \o SubSeq(s, fold.end + 1, Len(s))
RewriteSwitchStatements(lines) == Walk(LAMBDA s, i : Visit(Spliced(s, i, FoldAt(s, i)), i + 1), lines)

(* A goto to the label behind a switch is a break.                         *)
RewriteSwitchBreakGotos(lines) ==
  Walk(LAMBDA s, i :
         LET end == IF Is(s[i], "switch") THEN FindBlockEnd(s, i) ELSE 0
             label == IF end = 0 THEN 0 ELSE NextCode(s, end)
         IN IF label = 0 \/ ~ Is(s[label], "label") THEN Visit(s, i + 1)
            ELSE Visit([k \in DOMAIN s |-> IF k \in i + 1 .. end - 1 /\ s[k] = Transfer("goto", s[label].l)
                                           THEN Line("break") ELSE s[k]], end + 1), lines)

PassSwitches == PassTo("switches", "switch_breaks", RewriteSwitchStatements)
PassSwitchBreaks == PassTo("switch_breaks", "retain", RewriteSwitchBreakGotos)
SwitchNext == PassSwitches \/ PassSwitchBreaks
====
