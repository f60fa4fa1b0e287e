--------------------------- MODULE EmitterPasses ---------------------------
(***************************************************************************)
(* The passes HighLevelEmitter::finish runs over the lines of a method.    *)
(* They work on text: a cleared line stays behind as a blank one, comments *)
(* are lines, a brace is matched by counting.                              *)
(***************************************************************************)
EXTENDS Emitter, FiniteSets

CONSTANT OverflowBounds   (* OVERFLOW_BOUNDS                               *)

-----------------------------------------------------------------------------
(* Reading lines.                                                          *)
Blank == [s |-> "blank"]
Is(line, k) == line.s = k
Skippable(line) == line.s \in {"blank", "note", "stacknote"}
Delta(line) == (IF Opens(line) THEN 1 ELSE 0) - (IF Closes(line) THEN 1 ELSE 0)
FirstOf(ks) == IF ks = {} THEN 0 ELSE LeastOf(ks)
LastOf(ks) == IF ks = {} THEN 0 ELSE GreatestOf(ks)

NextCode(s, i) == FirstOf({j \in i + 1 .. Len(s) : ~ Skippable(s[j])})
PreviousCode(s, i) == LastOf({j \in 1 .. i - 1 : ~ Skippable(s[j]) /\ ~ Is(s[j], "close")})
CodeBetween(s, i, j) == SelectSeq([k \in 1 .. Len(s) |-> k], LAMBDA k : i < k /\ k < j /\ ~ Skippable(s[k]))
FindBlockEnd(s, i) ==
  LET depths == S!Fold(LAMBDA ds, j : Append(ds, Last(ds) + Delta(s[i + j])), <<Delta(s[i])>>,
                       [j \in 1 .. Len(s) - i |-> j])
      ends == {j \in i + 1 .. Len(s) : depths[j - i + 1] = 0}
  IN FirstOf(ends)

IsAssignment(line) == line.s \in {"let", "set"}          (* parse_assignment *)
IsLet(line) == line.s \in {"let", "letc"}                (* parse_let_assignment *)

-----------------------------------------------------------------------------
(* Identifiers in a line.  Rewritten is the tree r.x with the name r.d     *)
(* replaced by r.by.                                                       *)
RECURSIVE Rewritten(_)
Rewritten(r) ==
  IF r.x = r.d THEN r.by
  ELSE [r.x EXCEPT !.a = [k \in DOMAIN r.x.a |-> Rewritten([r EXCEPT !.x = r.x.a[k]])]]
Replace(x, d, by) == S!Apply(Rewritten, [x |-> x, d |-> d, by |-> by])
Marker == Name("#", 0)
OccursIn(x, d) == Replace(x, d, Marker) # x

ExprsOf(line) ==
  CASE line.s \in {"let", "set", "letc", "compound"} -> <<line.d, line.e>>
    [] line.s \in {"if", "elseif", "while", "until", "call", "ifgoto", "switch"} -> <<line.e>>
    [] line.s \in {"return", "stacknote"} -> line.es
    [] line.s = "for" -> <<line.init.d, line.init.e, line.e, line.inc.d, line.inc.e>>
    [] OTHER -> <<>>
ContainsIdentifier(line, d) == OccursIn(App("line", ExprsOf(line)), d)
ReplaceIdentifier(line, d, by) ==
  LET In(x) == Replace(x, d, by)
  IN CASE line.s \in {"let", "set", "letc", "compound"} -> [line EXCEPT !.d = In(@), !.e = In(@)]
       [] line.s \in {"if", "elseif", "while", "until", "call", "ifgoto"} -> [line EXCEPT !.e = In(@)]
       [] line.s \in {"return", "stacknote"} -> [line EXCEPT !.es = In(App("es", @)).a]
       [] line.s = "for" -> [line EXCEPT !.init.e = In(@), !.e = In(@), !.inc.e = In(@)]
       [] OTHER -> line

Arithmetic == {"+", "-", "*", "/", "%"}
Comparisons == {"==", "!=", "<", "<=", ">", ">="}
Operators == Arithmetic \cup Comparisons \cup {"!", "&", "|"}
PureHelpers == {"len", "min", "max", "abs", "within", "is_null", "has_key"}
Parts(xs) == xs \cup UNION {Range(x.a) : x \in xs}
Symbols(x) == {y.f : y \in Parts(Parts(Parts({x})))}      (* trees stay this deep *)
Uncalled == Operators \cup {"index", "array", "t", "loc", "arg", "static", "exception", "int", "bool", "str", "null", "ptr"}
HasCall(x) == ~ (Symbols(x) \subseteq Uncalled)
CallsOnlyPure(x) == Symbols(x) \subseteq Uncalled \cup PureHelpers
IsInt(x) == x.f = "int"
IsTrivial(x) == x.a = <<>> /\ x.f \in Uncalled \ {"array", "ptr"}

-----------------------------------------------------------------------------
(* A pass visits the lines in order; a step returns lines and where to go  *)
(* on.  Every step goes on by a line, shortens the lines or inserts copies *)
(* of some: twice as many steps as lines are enough.                       *)
Visit(lines, i) == [s |-> lines, i |-> i]
Walk(Step(_, _), lines) ==
  LET Stride(v, k) ==
        S!Fold(LAMBDA w, j : IF w.i > Len(w.s) THEN w ELSE Step(w.s, w.i), v, [j \in 1 .. 10 |-> j])
  IN S!Fold(Stride, Visit(lines, 1), [k \in 1 .. Len(lines) \div 5 + 1 |-> k]).s
Cleared(s, ks) == [k \in DOMAIN s |-> IF k \in ks THEN Blank ELSE s[k]]
InsertLines(s, i, ls) == SubSeq(s, 1, i - 1) \o ls \o SubSeq(s, i, Len(s))
LinesAt(s, ks) == [k \in DOMAIN ks |-> s[ks[k]]]

(* else { if c {   becomes   else if c {                                   *)
RemoveOneCloser(s, i) ==
  IF i < Len(s) /\ Is(s[i], "close") /\ Is(s[i + 1], "close") THEN RemoveAt(s, i + 1)
  ELSE IF i > 1 /\ Is(s[i], "close") /\ Is(s[i - 1], "close") THEN RemoveAt(s, i) ELSE s
RewriteElseIfChains(lines) ==
  Walk(LAMBDA s, i :
         IF i < Len(s) /\ Is(s[i], "else") /\ Is(s[i + 1], "if")
         THEN LET merged == RemoveAt([s EXCEPT ![i] = Cond("elseif", s[i + 1].e)], i + 1)
                  end == FindBlockEnd(merged, i)
              IN Visit(IF end = 0 THEN merged ELSE RemoveOneCloser(merged, end), i)
         ELSE Visit(s, i + 1), lines)

(* let a = x; let b = a; let c = bound; if b < c { .. } else { .. }        *)
OverflowAt(s, i) ==
  LET dup == NextCode(s, i)
      bound == IF dup = 0 THEN 0 ELSE NextCode(s, dup)
      check == IF bound = 0 THEN 0 ELSE NextCode(s, bound)
  IN IF /\ IsLet(s[i])
        /\ dup # 0 /\ IsLet(s[dup]) /\ s[dup].e = s[i].d
        /\ bound # 0 /\ IsLet(s[bound]) /\ IsInt(s[bound].e) /\ s[bound].e.n \in OverflowBounds
        /\ check # 0 /\ Is(s[check], "if")
        /\ s[check].e.f \in {"<", "<=", ">", ">=", "=="} /\ s[check].e.a[1] = s[dup].d
        /\ FindBlockEnd(s, check) # 0
     THEN check ELSE 0
ElseBehind(s, end) ==
  LET next == NextCode(s, end)
  IN IF next # 0 /\ Is(s[next], "else") /\ FindBlockEnd(s, next) # 0 THEN next ELSE 0
CollapseChecked(s, i, check) ==
  LET end == FindBlockEnd(s, check)
      else == ElseBehind(s, end)
      unwrapped == IF else = 0 THEN {} ELSE {else, FindBlockEnd(s, else)}
      wrapped == IF s[i].e.f = "checked" THEN s[i].e ELSE App("checked", <<s[i].e>>)
  IN [Cleared(s, (i + 1 .. end) \cup unwrapped) EXCEPT ![i] = Let(s[i].d, wrapped)]
CollapseUnchecked(s, i, check) ==
  LET if == FindBlockEnd(s, check)
      else == ElseBehind(s, if)
      end == IF else = 0 THEN if ELSE FindBlockEnd(s, else)
      next == NextCode(s, end)
      blanked == Cleared(s, i + 1 .. end)
  IN IF next # 0 /\ Is(s[next], "set") /\ IsTemp(s[next].e)
     THEN [blanked EXCEPT ![next] = Set(s[next].d, s[i].d)] ELSE blanked
CollapseOverflowChecks(lines) ==
  Walk(LAMBDA s, i :
         LET check == OverflowAt(s, i)
             first == NextCode(s, check)
             throws == Is(s[first], "call") /\ s[first].e.f = "throw"
         IN IF check = 0 THEN Visit(s, i + 1)
            ELSE Visit(IF throws THEN CollapseChecked(s, i, check) ELSE CollapseUnchecked(s, i, check), i), lines)

-----------------------------------------------------------------------------
(* Loops written with labels.                                              *)
LabelIn(s, ks, l) == FirstOf({k \in ks : s[k] = Transfer("label", l)})
GotoIn(s, ks, l) == FirstOf({k \in ks : s[k] = Transfer("goto", l)})

(* goto L; do { .. L: setup } while (c);  becomes  setup while c { .. setup } *)
RewriteGotoDoWhile(lines) ==
  Walk(LAMBDA s, i :
         LET do == NextCode(s, i)
             end == FindBlockEnd(s, do)
             label == LabelIn(s, do + 1 .. end - 1, s[i].l)
             setup == LinesAt(s, CodeBetween(s, label, end))
             looped == [Cleared(s, {i, label}) EXCEPT ![do] = Cond("while", s[end].e), ![end] = Close]
         IN IF /\ Is(s[i], "goto") /\ do # 0 /\ Is(s[do], "do")
               /\ end # 0 /\ Is(s[end], "until") /\ label # 0
            THEN Visit(InsertLines(looped, do, setup), i + 1) ELSE Visit(s, i + 1), lines)

(* L: setup if c { .. goto L; .. }  becomes  setup while c { .. setup }    *)
RewriteIfGotoToWhile(lines) ==
  Walk(LAMBDA s, i :
         LET if == FirstOf({k \in i + 1 .. Len(s) : Is(s[k], "if")})
             end == FindBlockEnd(s, if)
             goto == GotoIn(s, if + 1 .. end - 1, s[i].l)
             setup == LinesAt(s, CodeBetween(s, i, if))
             looped == [Cleared(s, {i, goto}) EXCEPT ![if] = Cond("while", s[if].e)]
         IN IF /\ Is(s[i], "label") /\ if # 0
               /\ end # 0 /\ Is(s[end], "close") /\ goto # 0
            THEN Visit(InsertLines(looped, end, setup), i + 1) ELSE Visit(s, i + 1), lines)

(* A transfer to what follows is dropped, through any number of braces.    *)
EliminateFallthroughGotos(lines) ==
  LET Follows(k) == FirstOf({j \in k + 1 .. Len(lines) : ~ Skippable(lines[j]) /\ ~ Is(lines[j], "close")})
      Dead(k) == /\ lines[k].s \in {"goto", "leave"} /\ Follows(k) # 0
                 /\ lines[Follows(k)] = Transfer("label", lines[k].l)
  IN Cleared(lines, {k \in DOMAIN lines : Dead(k)})

(* L: .. goto L;  at one depth and L not used otherwise:  loop { .. }      *)
DepthBefore(s, i, j) == FoldSeq(LAMBDA k, d : d + Delta(s[k]), 0, [k \in 1 .. j - i - 1 |-> i + k])
SameBlock(s, i, j) == DepthBefore(s, i, j) = 0 /\ \A k \in i + 1 .. j : DepthBefore(s, i, k) >= 0
RewriteLabelGotoToLoop(lines) ==
  Walk(LAMBDA s, i :
         LET l == s[i].l
             goto == FirstOf({k \in i + 1 .. Len(s) : s[k] = Transfer("goto", l) /\ SameBlock(s, i, k)})
             Refers(line) == line = Transfer("label", l) \/ (line.s \in {"goto", "ifgoto"} /\ line.l = l)
         IN IF /\ Is(s[i], "label") /\ goto # 0
               /\ \A k \in DOMAIN s \ {i, goto} : ~ Refers(s[k])
            THEN Visit([s EXCEPT ![i] = Line("loop"), ![goto] = Close], i + 1) ELSE Visit(s, i + 1), lines)

RemoveOrphanedLabels(lines) ==
  LET used == {lines[k].l : k \in {j \in DOMAIN lines : lines[j].s \in {"goto", "leave", "ifgoto"}}}
  IN Cleared(lines, {k \in DOMAIN lines : Is(lines[k], "label") /\ lines[k].l \notin used})

-----------------------------------------------------------------------------
(* Counting loops.                                                         *)
Compound(d, op, e) == [s |-> "compound", d |-> d, op |-> op, e |-> e]
For(init, e, inc) == [s |-> "for", init |-> init, e |-> e, inc |-> inc]
NumberOrSimple(x) == x.f \in {"int", "bool", "null"}
StartsWith(x, d) == x = d \/ (x.f \in (Operators \ {"!"}) \cup {"index"} /\ x.a[1] = d)

FindInitializer(s, i) ==
  LET start == LastOf({k \in 1 .. i - 1 : Is(s[k], "close") \/ Opens(s[k])})
  IN LastOf({k \in start + 1 .. i - 1 : IsAssignment(s[k]) /\ IsSlot(s[k].d)})

NoIncrement == [at |-> 0, temp |-> 0, inc |-> Blank]
FindIncrement(s, i, end, d) ==
  LET k == PreviousCode(s, end)
      p == PreviousCode(s, k)
      Found(temp, inc) == [at |-> k, temp |-> temp, inc |-> inc]
      folds == p # 0 /\ IsAssignment(s[p])
  IN IF k <= i THEN NoIncrement
     ELSE IF Is(s[k], "compound") /\ s[k].d = d THEN Found(0, s[k])
     ELSE IF ~ IsAssignment(s[k]) \/ s[k].d # d THEN NoIncrement
     ELSE IF folds /\ s[p].d = s[k].e THEN Found(p, Set(d, s[p].e))
     ELSE IF folds /\ OccursIn(s[k].e, s[p].d) /\ NumberOrSimple(s[p].e)
     THEN Found(p, Set(d, Replace(s[k].e, s[p].d, s[p].e)))
     ELSE IF StartsWith(s[k].e, d) THEN Found(0, s[k]) ELSE NoIncrement
RewriteForLoops(lines) ==
  Walk(LAMBDA s, i :
         LET end == FindBlockEnd(s, i)
             init == FindInitializer(s, i)
             found == FindIncrement(s, i, end, s[init].d)
         IN IF Is(s[i], "while") /\ end # 0 /\ init # 0 /\ found # NoIncrement
            THEN Visit([Cleared(s, {init, found.at, found.temp}) EXCEPT
                          ![i] = For(s[init], s[i].e, found.inc)], i + 1)
            ELSE Visit(s, i + 1), lines)

(* loop { let x = 0; if c(x) { .. x += 1; } }  becomes a while loop.       *)
HeaderInit(s, code, init, if, close) ==
  /\ Len(code) >= 3 /\ init # 0 /\ if # 0
  /\ \A k \in Range(code) : init < k /\ k < if => IsAssignment(s[k]) /\ IsInt(s[k].e)
  /\ OccursIn(s[if].e, s[init].d)
  /\ close = Last(code)
  /\ \E k \in if + 1 .. close - 1 : (IsAssignment(s[k]) \/ Is(s[k], "compound")) /\ s[k].d = s[init].d
HeaderLoop(s, i, end, code, init, if) ==
  IF HeaderInit(s, code, init, if, FindBlockEnd(s, if))
  THEN [Cleared(s, {init, end}) EXCEPT ![i] = s[init], ![if] = Cond("while", s[if].e)] ELSE s
HeaderLoopAt(s, i, end, code, init) ==
  HeaderLoop(s, i, end, code, init, FirstOf({k \in Range(code) : k > init /\ Is(s[k], "if")}))
HeaderLoopIn(s, i, end, code) ==
  HeaderLoopAt(s, i, end, code,
               FirstOf({k \in Range(code) : IsAssignment(s[k]) /\ IsInt(s[k].e) /\ IsSlot(s[k].d)}))
RewriteHeaderInitLoops(lines) ==
  Walk(LAMBDA s, i :
         LET end == FindBlockEnd(s, i)
         IN Visit(IF Is(s[i], "loop") /\ end # 0 THEN HeaderLoopIn(s, i, end, CodeBetween(s, i, end)) ELSE s, i + 1), lines)

-----------------------------------------------------------------------------
(* Temporaries moved into the line that uses them.                         *)
ShouldInlineConditionMutant(x) == x.f \in {"bool", "!"}
ShouldInlineCondition(x) ==
  \/ x.f \in Operators \cup {"bool"}
  \/ Len(x.a) >= 2                                (* its text has a space  *)
  \/ x.f = "sys" /\ x.a # <<>>
  \/ IsInt(x) /\ x.n < 0
InlineConditionTemps(lines) ==
  Walk(LAMBDA s, i :
         LET p == PreviousCode(s, i)
             by == IF s[i].e = s[p].d THEN s[p].e ELSE Not(s[p].e)
         IN IF /\ s[i].s \in {"while", "for", "if"}
               /\ p # 0 /\ IsAssignment(s[p]) /\ ShouldInlineCondition(s[p].e)
               /\ s[i].e \in {s[p].d, Not(s[p].d)}
            THEN Visit([Cleared(s, {p}) EXCEPT ![i] = [s[i] EXCEPT !.e = by]], i + 1)
            ELSE Visit(s, i + 1), lines)

(* The text of y takes the place of d in the text of x, without            *)
(* parentheses; x is what a += or -= keeps apart, or one operator deep.    *)
Precedence(f) == IF f \in {"*", "/", "%"} THEN 3 ELSE IF f \in {"+", "-"} THEN 2 ELSE 1
Splice(x, d, y, kept) ==
  LET binary == x.f \in Arithmetic \cup Comparisons /\ y.f \in Arithmetic \cup Comparisons
      Op(f, u, v) == App(f, <<u, v>>)
  IN CASE binary /\ ~ kept /\ x.a[2] = d /\ Precedence(y.f) <= Precedence(x.f) ->
            Op(y.f, Op(x.f, x.a[1], y.a[1]), y.a[2])
       [] binary /\ x.a[1] = d /\ Precedence(y.f) < Precedence(x.f) ->
            Op(y.f, y.a[1], Op(x.f, y.a[2], x.a[2]))
       [] OTHER -> Replace(x, d, y)
CompoundRhs(d, x) == x.f \in {"+", "-"} /\ x.a[1] = d
InlineForIncrementTemps(lines) ==
  Walk(LAMBDA s, i :
         LET inc == s[i].inc
             end == FindBlockEnd(s, i)
             body == i + 1 .. IF end = 0 THEN Len(s) ELSE end - 1
             Usable(k) == /\ Is(s[k], "let") /\ OccursIn(App("inc", <<inc.d, inc.e>>), s[k].d)
                          /\ ~ HasCall(s[k].e)
                          /\ \A j \in DOMAIN s \ {i, k} : ~ ContainsIdentifier(s[j], s[k].d)
             k == FirstOf({j \in body : Usable(j)})
             kept == Is(inc, "compound") \/ (Is(inc, "set") /\ CompoundRhs(inc.d, inc.e))
         IN IF Is(s[i], "for") /\ k # 0
            THEN Visit([Cleared(s, {k}) EXCEPT
                          ![i] = [s[i] EXCEPT !.inc = [inc EXCEPT !.e = Splice(inc.e, s[k].d, s[k].e, kept)]]], i + 1)
            ELSE Visit(s, i + 1), lines)

(* inline_single_use_temps: lets of a temporary used on one later line.    *)
UsedOn(s, d, k) == IF IsAssignment(s[k]) THEN OccursIn(s[k].e, d) ELSE ContainsIdentifier(s[k], d)
DefinesTemp(line) == IsAssignment(line) /\ IsTemp(line.d)
SingleUse(s, k) ==
  /\ Is(s[k], "let") /\ IsTemp(s[k].d)
  /\ \A j \in DOMAIN s \ {k} : DefinesTemp(s[j]) => s[j].d # s[k].d
  /\ Cardinality({j \in k + 1 .. Len(s) : UsedOn(s, s[k].d, j)}) = 1
  /\ CallsOnlyPure(s[k].e)
InlineOne(s, k, d, rhs) ==
  LET use == FirstOf({j \in k + 1 .. Len(s) : ContainsIdentifier(s[j], d)})
  IN IF use = 0 \/ (s[use].s \in {"if", "while", "for", "ifgoto"} /\ ~ IsTrivial(rhs)) THEN s
     ELSE Cleared([s EXCEPT ![use] = ReplaceIdentifier(@, d, rhs)], {k})
InlineSingleUseTemps(lines) ==
  S!Fold(LAMBDA s, k : IF SingleUse(lines, k) THEN InlineOne(s, k, lines[k].d, lines[k].e) ELSE s,
         lines, [k \in DOMAIN lines |-> Len(lines) + 1 - k])

-----------------------------------------------------------------------------
(* Shorter forms.                                                          *)
RewriteCompound(line) ==
  CASE Is(line, "set") -> IF CompoundRhs(line.d, line.e) THEN Compound(line.d, line.e.f, line.e.a[2]) ELSE line
    [] OTHER -> line
RewriteCompoundAssignments(lines) ==
  [k \in DOMAIN lines |->
     IF Is(lines[k], "for") THEN LET inc == RewriteCompound(lines[k].inc) IN For(lines[k].init, lines[k].e, inc)
     ELSE RewriteCompound(lines[k])]

CollapseIfTrue(lines) ==
  Walk(LAMBDA s, i :
         LET end == FindBlockEnd(s, i)
         IN IF /\ s[i] = Cond("if", Lit("bool", 1)) /\ end # 0 /\ Is(s[end], "close")
            THEN Visit(RemoveAt(RemoveAt(s, end), i), i) ELSE Visit(s, i + 1), lines)

NegateCondition(x) ==
  LET Flip(y) == [y EXCEPT !.f = Negated[@]]
  IN CASE x.f \in Comparisons -> Flip(x)
       [] x.f = "!" -> IF x.a[1].f \in Comparisons THEN Not(Flip(x.a[1])) ELSE x.a[1]
       [] OTHER -> Not(x)
EmptyIf(s, i) ==                       (* where an if with no code closes  *)
  LET k == NextCode(s, i)
  IN IF Is(s[i], "if") /\ k # 0 /\ Is(s[k], "close") THEN k ELSE 0
InvertEmptyIfElse(lines) ==
  Walk(LAMBDA s, i :
         LET k == EmptyIf(s, i)
         IN IF k # 0 /\ k < Len(s) /\ Is(s[k + 1], "else") /\ FindBlockEnd(s, k + 1) # 0
            THEN Visit(RemoveAt(RemoveAt([s EXCEPT ![i] = Cond("if", NegateCondition(s[i].e))], k + 1), k), i)
            ELSE Visit(s, i + 1), lines)
RemoveEmptyIf(lines) ==
  Walk(LAMBDA s, i :
         LET k == EmptyIf(s, i)
         IN IF k # 0 /\ ~ (k < Len(s) /\ s[k + 1].s \in {"else", "elseif"})
            THEN Visit(SubSeq(s, 1, i - 1) \o SubSeq(s, k + 1, Len(s)), i) ELSE Visit(s, i + 1), lines)

StripStackComments(lines) == [k \in DOMAIN lines |-> IF Is(lines[k], "stacknote") THEN Blank ELSE lines[k]]

-----------------------------------------------------------------------------
(* Temporaries that are not needed.                                        *)
EliminateIdentityTemps(lines) ==
  LET FirstSeen(d) == FirstOf({k \in DOMAIN lines : ContainsIdentifier(lines[k], d)})
  IN Walk(LAMBDA s, i :
            LET d == s[i].d
                identity == Is(s[i], "let") /\ IsTemp(d) /\ IsTemp(s[i].e)
                cleared == Cleared(s, {i})
            IN IF ~ identity \/ (d # s[i].e /\ FirstSeen(d) \in 1 .. i - 1) THEN Visit(s, i + 1)
               ELSE IF d = s[i].e THEN Visit(cleared, i + 1)
               ELSE Visit([k \in DOMAIN s |-> IF k > i THEN ReplaceIdentifier(cleared[k], d, s[i].e) ELSE cleared[k]],
                          i + 1), lines)

Mentions(s, d) == Cardinality({k \in DOMAIN s : ContainsIdentifier(s[k], d)})
CollapseTempIntoStore(lines) ==
  Walk(LAMBDA s, i :
         LET next == NextCode(s, i)
             temp == s[i].d
             stores == IsAssignment(s[next]) /\ s[next].e = temp
             returns == s[next] = Return(<<temp>>)
             collapsed == IF stores THEN [s[next] EXCEPT !.e = s[i].e] ELSE Return(<<s[i].e>>)
         IN IF /\ Is(s[i], "let") /\ IsTemp(temp) /\ next # 0
               /\ stores \/ returns
               /\ Mentions(lines, temp) <= 2
            THEN Visit([Cleared(s, {i}) EXCEPT ![next] = collapsed], next + 1)
            ELSE Visit(s, i + 1), lines)

IsPureRhs(x) == Symbols(x) \cap {"/", "%", "index", "array"} = {} /\ CallsOnlyPure(x)
EliminateDeadTemps(lines) ==
  Walk(LAMBDA s, i :
         IF /\ Is(s[i], "let") /\ IsTemp(s[i].d) /\ IsPureRhs(s[i].e)
            /\ \A k \in DOMAIN s \ {i} : ~ ContainsIdentifier(s[k], s[i].d)
         THEN Visit(Cleared(s, {i}), i + 1) ELSE Visit(s, i + 1), lines)

RetainLines(lines) == SelectSeq(lines, LAMBDA line : ~ Is(line, "blank"))

-----------------------------------------------------------------------------
(* The passes of finish in their order; the ones in parentheses run on     *)
(* option only.                                                            *)
PassTo(from, to, P(_)) ==
  /\ phase = from
  /\ \E next \in {P(em.out)} : em' = [em EXCEPT !.out = next]
  /\ phase' = to
  /\ UNCHANGED <<method, options, at>>
OnInline(from, to, P(_)) == PassTo(from, to, LAMBDA s : IF options.inline THEN P(s) ELSE s)

PassElseIf == PassTo("else_if", "overflow", RewriteElseIfChains)
PassOverflow == PassTo("overflow", "goto_do_while", CollapseOverflowChecks)
PassGotoDoWhile == PassTo("goto_do_while", "if_goto", RewriteGotoDoWhile)
PassIfGoto == PassTo("if_goto", "fallthrough", RewriteIfGotoToWhile)
PassFallthrough == PassTo("fallthrough", "label_loop", EliminateFallthroughGotos)
PassLabelLoop == PassTo("label_loop", "orphans", RewriteLabelGotoToLoop)
PassOrphans == PassTo("orphans", "for", RemoveOrphanedLabels)
PassFor == PassTo("for", "condition", RewriteForLoops)
PassCondition == PassTo("condition", "increment", InlineConditionTemps)
PassIncrement == PassTo("increment", "single_use", InlineForIncrementTemps)
PassSingleUse == OnInline("single_use", "compound", InlineSingleUseTemps)
PassCompound == PassTo("compound", "if_true", RewriteCompoundAssignments)
PassIfTrue == PassTo("if_true", "invert", CollapseIfTrue)
PassInvert == PassTo("invert", "empty_if", InvertEmptyIfElse)
PassEmptyIf == PassTo("empty_if", "comments", RemoveEmptyIf)
PassComments == PassTo("comments", "identity", StripStackComments)
PassIdentity == PassTo("identity", "store", EliminateIdentityTemps)
PassStore == PassTo("store", "dead", CollapseTempIntoStore)
PassDead == OnInline("dead", "header", EliminateDeadTemps)
PassHeader == PassTo("header", "for_again", RewriteHeaderInitLoops)
PassForAgain == PassTo("for_again", "last_gotos", RewriteForLoops)
PassLastGotos ==
  PassTo("last_gotos", "switches", LAMBDA s : S!Apply(RemoveOrphanedLabels, EliminateFallthroughGotos(s)))
PassRetain == PassTo("retain", "done", RetainLines)

PassNext ==
  \/ PassElseIf \/ PassOverflow \/ PassGotoDoWhile \/ PassIfGoto \/ PassFallthrough
  \/ PassLabelLoop \/ PassOrphans \/ PassFor \/ PassCondition \/ PassIncrement
  \/ PassSingleUse \/ PassCompound \/ PassIfTrue \/ PassInvert \/ PassEmptyIf
  \/ PassComments \/ PassIdentity \/ PassStore \/ PassDead \/ PassHeader
  \/ PassForAgain \/ PassLastGotos \/ PassRetain
====
