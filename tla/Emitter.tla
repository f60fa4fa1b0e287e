------------------------------ MODULE Emitter ------------------------------
(***************************************************************************)
(* HighLevelEmitter: one pass over the instructions of a method that keeps *)
(* a stack of names and appends lines of pseudo-code.  The offset of an    *)
(* instruction is its position in the method, so width does not matter.    *)
(* A name or an expression is a tree [f, n, a] of symbol, number and       *)
(* operands; every stack entry is a name.  The emitter's maps are          *)
(* functions on the keys that are present.                                 *)
(***************************************************************************)
EXTENDS Integers, SequencesExt

CONSTANTS
  Methods,          (* [code, params, void]: instructions, the number of   *)
                    (* named parameters, is the method declared void?      *)
  OptionSets,       (* [trace, inline]: emit_trace_comments and            *)
                    (* inline_single_use_temps                             *)
  Callees,          (* what is known of other methods, by offset           *)
  Syscalls, Tokens, (* known system calls and method tokens, by operand    *)
  NoReturns,        (* offsets of methods that never return                *)
  MaxPackInline,    (* PACK_MAX_INLINE                                     *)
  EntryDelta,       (* MAX_INTERNAL_CALL_ENTRY_DELTA                       *)
  DefaultUnpack,    (* DEFAULT_COUNT of infer_unpack_element_count         *)
  MaxMethodLength   (* MAX_HIGH_LEVEL_METHOD_INSTRUCTIONS                  *)

S == INSTANCE Strict

VARIABLES
  method, options,
  em,               (* the emitter's fields                                *)
  at,               (* the instruction it is at                            *)
  phase             (* "advance", "emit", then the passes of finish        *)

emitVars == <<method, options, em, at, phase>>

-----------------------------------------------------------------------------
(* Names, expressions, lines.                                              *)
Name(k, i) == [f |-> k, n |-> i, a |-> <<>>]
Temp(i) == Name("t", i)
Exception == Name("exception", 0)
Missing == Name("???", 0)
App(f, args) == [f |-> f, n |-> 0, a |-> args]
Lit(k, i) == [f |-> k, n |-> i, a |-> <<>>]
CallTo(k, i, args) == [f |-> k, n |-> i, a |-> args]
Not(x) == App("!", <<x>>)
IsSlot(x) == x.f \in {"loc", "arg", "static"}
IsTemp(x) == x.f = "t"

Let(d, e) == [s |-> "let", d |-> d, e |-> e]
Set(d, e) == [s |-> "set", d |-> d, e |-> e]
Call(e) == [s |-> "call", e |-> e]
Return(es) == [s |-> "return", es |-> es]
LetNoted(d, e) == [s |-> "letc", d |-> d, e |-> e]  (* with a trailing comment *)
Comment == [s |-> "note"]
StackComment(es) == [s |-> "stacknote", es |-> es]  (* mentions the names es *)
Close == [s |-> "close"]
Line(k) == [s |-> k]
Cond(k, e) == [s |-> k, e |-> e]
Transfer(k, l) == [s |-> k, l |-> l]
IfGoto(e, l) == [s |-> "ifgoto", e |-> e, l |-> l]

Openers == {"if", "else", "elseif", "while", "for", "loop", "do", "try", "catch", "finally", "switch", "case", "default"}
Opens(line) == line.s \in Openers
Closes(line) == line.s \in {"close", "until"}

-----------------------------------------------------------------------------
(* Maps.                                                                   *)
Put(m, k, v) == (k :> v) @@ m
Drop(m, k) == [x \in DOMAIN m \ {k} |-> m[x]]
Has(m, k) == k \in DOMAIN m
PutNew(m, k, v) == IF Has(m, k) THEN m ELSE Put(m, k, v)
Increment(m, k) == Put(m, k, IF Has(m, k) THEN m[k] + 1 ELSE 1)
LeastOf(ks) == CHOOSE k \in ks : \A j \in ks : k <= j
GreatestOf(ks) == CHOOSE k \in ks : \A j \in ks : j <= k
Times(n, line) == [i \in 1 .. n |-> line]

-----------------------------------------------------------------------------
(* The instructions.                                                       *)
Code == method.code
End == Len(Code) + 1
OpAt(o) == Code[o].op
IsOpAt(o, ops) == o \in DOMAIN Code /\ Code[o].op \in ops
Conditional(o) == IsOpAt(o, {"jmpif", "jmpifnot", "jmpcmp"})
JumpTarget(o) == o + Code[o].n
Negated == [op \in {"==", "!=", "<", "<=", ">", ">="} |->
              CASE op = "==" -> "!=" [] op = "!=" -> "==" [] op = "<" -> ">="
                [] op = "<=" -> ">"  [] op = ">" -> "<="  [] op = ">=" -> "<"]

(* Every conditional jump back opens a loop tested last at its target.     *)
AnalyzeDoWhileLoops ==
  LET tails == {o \in DOMAIN Code : Conditional(o) /\ JumpTarget(o) \in 1 .. o - 1}
      To(h) == SelectSeq([o \in DOMAIN Code |-> o], LAMBDA o : o \in tails /\ JumpTarget(o) = h)
  IN [h \in {JumpTarget(o) : o \in tails} |->
        [k \in DOMAIN To(h) |-> [break |-> To(h)[k] + 1, continue |-> To(h)[k]]]]
PreRegisterLabels ==
  {JumpTarget(o) : o \in {p \in DOMAIN Code : OpAt(p) = "jmp" /\ JumpTarget(p) \in 1 .. p - 1}}

Fresh ==
  [stack |-> IF IsOpAt(1, {"initslot"}) THEN <<>>
             ELSE [i \in 1 .. method.params |-> Name("arg", method.params - i)],
   out |-> <<>>, next |-> 0,
   closers |-> <<>>, elses |-> <<>>, catches |-> <<>>, finallys |-> <<>>,
   skips |-> {}, labels |-> PreRegisterLabels,
   headers |-> AnalyzeDoWhileLoops, tails |-> {}, loops |-> <<>>,
   literals |-> <<>>, packed |-> <<>>, pointers |-> <<>>, declared |-> {},
   saved |-> <<>>, depths |-> <<>>, resumes |-> <<>>, exits |-> <<>>,
   finallyBodies |-> {}]

-----------------------------------------------------------------------------
(* Reaching an offset: what closes, what opens, which stack goes on.       *)
EnterElse(e, o) ==
  LET later == {k \in DOMAIN e.closers : k > o}
      saved == IF later = {} THEN e.saved ELSE PutNew(e.saved, LeastOf(later), e.stack)
  IN [e EXCEPT !.saved = saved, !.stack = IF Has(saved, o) THEN saved[o] ELSE @]

(* Both arms left values: the second arm assigns them to the names of the  *)
(* first, in front of its closing brace.                                   *)
MergeStacks(e, saved, depth) ==
  IF e.stack = <<>> THEN [e EXCEPT !.stack = saved]
  ELSE IF Len(e.stack) # Len(saved) \/ Len(saved) <= depth THEN e
  ELSE LET differing == SelectSeq([i \in 1 .. Len(saved) |-> i],
                                  LAMBDA i : i > depth /\ e.stack[i] # saved[i])
           copies == [k \in DOMAIN differing |-> Let(saved[differing[k]], e.stack[differing[k]])]
       IN [e EXCEPT !.stack = saved, !.out = Front(@) \o copies \o <<Close>>]
MergeMutant(e, o) == [e EXCEPT !.saved = Drop(@, o), !.depths = Drop(@, o)]
Merge(e, o) ==
  IF ~ Has(e.saved, o) THEN e
  ELSE MergeStacks([e EXCEPT !.saved = Drop(@, o), !.depths = Drop(@, o)],
                   e.saved[o], IF Has(e.depths, o) THEN e.depths[o] ELSE 0)

CloseAt(e, o) ==
  IF ~ Has(e.closers, o) THEN e
  ELSE LET closed == [e EXCEPT !.closers = Drop(@, o), !.out = @ \o Times(e.closers[o], Close)]
       IN IF Has(e.elses, o) THEN EnterElse(closed, o) ELSE Merge(closed, o)

(* The stack a try statement left with goes on behind its handlers.        *)
RestoreTryExit(e, o) ==
  IF Has(e.exits, o) THEN [e EXCEPT !.stack = e.exits[o], !.exits = Drop(@, o)] ELSE e

PopLoops(loops, Ends(_)) ==
  SubSeq(loops, 1, GreatestOf({0} \cup {k \in DOMAIN loops : ~ Ends(loops[k])}))
CloseLoopsAt(e, o) == [e EXCEPT !.loops = PopLoops(@, LAMBDA l : l.break = o)]

OpenCatch(e, o) ==
  IF ~ Has(e.catches, o) THEN e
  ELSE [e EXCEPT !.exits = IF Has(e.resumes, o) /\ e.stack # <<>>
                           THEN PutNew(@, e.resumes[o], e.stack) ELSE @,
                 !.resumes = Drop(@, o), !.catches = Drop(@, o),
                 !.out = @ \o Times(e.catches[o], Line("catch")), !.stack = <<Exception>>]
OpenFinally(e, o) ==
  IF ~ Has(e.finallys, o) THEN e
  ELSE [e EXCEPT !.finallys = Drop(@, o), !.out = @ \o Times(e.finallys[o], Line("finally"))]
OpenElse(e, o) ==
  IF ~ Has(e.elses, o) THEN e
  ELSE [e EXCEPT !.elses = Drop(@, o), !.out = @ \o Times(e.elses[o], Line("else"))]
OpenDoWhile(e, o) ==
  IF ~ Has(e.headers, o) THEN e
  ELSE [e EXCEPT !.headers = Drop(@, o), !.loops = @ \o e.headers[o],
                 !.tails = @ \cup {l.continue : l \in Range(e.headers[o])},
                 !.out = @ \o Times(Len(e.headers[o]), Line("do"))]
PlaceLabel(e, o) ==
  IF o \notin e.labels THEN e
  ELSE [e EXCEPT !.labels = @ \ {o}, !.out = Append(@, Transfer("label", o))]

AdvanceTo(start, o) ==
  LET Do(F(_, _), e) == S!Apply(LAMBDA x : F(x, o), e)
  IN Do(PlaceLabel, Do(OpenDoWhile, Do(OpenElse, Do(OpenFinally, Do(OpenCatch,
        Do(CloseLoopsAt, Do(RestoreTryExit, Do(CloseAt, start))))))))

-----------------------------------------------------------------------------
(* What handlers are made of.                                              *)
Emit(e, line) == [e EXCEPT !.out = Append(@, line)]
PushComment(e) == IF options.trace THEN Emit(e, Comment) ELSE e
Underflow(e) == PushComment(e)
Warn(e) == Emit(e, Comment)
Push(e, x) == [e EXCEPT !.stack = Append(@, x)]
Depth(e) == Len(e.stack)
Tops(e, k) == SubSeq(e.stack, Depth(e) - k + 1, Depth(e))
TopAt(e, k) == e.stack[Depth(e) - k]
Shed(e, k) == [e EXCEPT !.stack = SubSeq(@, 1, Len(@) - k)]
Forget(m, ks) == [x \in DOMAIN m \ ks |-> m[x]]
Pop(e, k) == [Shed(e, k) EXCEPT !.literals = Forget(@, Range(Tops(e, k)))]
NewLine(e, line) == [e EXCEPT !.out = Append(@, line), !.stack = Append(@, Temp(e.next)), !.next = @ + 1]
NewTemp(e, x) == NewLine(e, Let(Temp(e.next), x))
NewTempNoted(e, x) == NewLine(e, LetNoted(Temp(e.next), x))

Literal(k, i) == [k |-> k, n |-> i]
NoLiteral == Literal("none", 0)
LiteralOf(e, x) == IF Has(e.literals, x) THEN e.literals[x] ELSE NoLiteral
TakeUsize(e, x) ==                              (* -1: not a usize literal *)
  LET l == LiteralOf(e, x) IN IF l.k \in {"int", "ptr"} THEN l.n ELSE -1

PushLiteral(e, x, literal) ==
  LET pushed == NewTemp(PushComment(e), x)
  IN IF literal = NoLiteral THEN pushed
     ELSE [pushed EXCEPT !.literals = Put(@, Temp(e.next), literal)]
EmitCall(e, f, k, returns) ==
  IF Depth(e) < k THEN Underflow(PushComment(e))
  ELSE LET call == App(f, Tops(e, k))
           rest == Pop(PushComment(e), k)
       IN IF returns THEN NewTemp(rest, call) ELSE Emit(rest, Call(call))

(* Calls of methods and system calls list their arguments as they pop.     *)
Arguments(e, k) ==
  [i \in 1 .. k |-> IF i <= Depth(e) THEN TopAt(e, i - 1) ELSE Missing]
EmitArguments(e, kind, i, k, returns) ==
  LET call == CallTo(kind, i, Arguments(e, k))
      rest == Pop(e, IF Depth(e) < k THEN Depth(e) ELSE k)
  IN IF returns THEN NewTemp(rest, call) ELSE Emit(rest, Call(call))

-----------------------------------------------------------------------------
(* Literals and arithmetic.                                                *)
EmitLiteral(e, i) ==
  CASE i.f = "ptr" -> PushLiteral(e, Lit("ptr", at + i.n), Literal("ptr", at + i.n))
    [] i.f \in {"int", "bool", "str"} -> PushLiteral(e, Lit(i.f, i.n), Literal(i.f, i.n))
    [] OTHER -> PushLiteral(e, Lit(i.f, i.n), NoLiteral)

EmitMath(e, i) ==
  LET Unary(F(_)) == IF e.stack = <<>> THEN Underflow(PushComment(e))
                     ELSE NewTemp(Pop(PushComment(e), 1), F(TopAt(e, 0)))
      Number(k) == Lit("int", k)
  IN CASE i.op = "binary" -> EmitCall(e, i.f, 2, TRUE)
       [] i.op = "intrinsic" -> EmitCall(e, i.f, i.n, TRUE)
       [] i.op = "inc" -> Unary(LAMBDA x : App("+", <<x, Number(1)>>))
       [] i.op = "dec" -> Unary(LAMBDA x : App("-", <<x, Number(1)>>))
       [] i.op = "not" -> Unary(LAMBDA x : Not(x))
       [] i.op = "nz"  -> Unary(LAMBDA x : App("!=", <<x, Number(0)>>))

-----------------------------------------------------------------------------
(* Stack manipulation.  Only an elided rest of a PACK is not an identifier.*)
Elided(k) == Name("/*more*/", k)
Duplicate(e, x) == IF x.f = "/*more*/" THEN NewTempNoted(e, x) ELSE Push(e, x)
InsertBottom(e) ==
  [e EXCEPT !.out = Append(@, LetNoted(Temp(e.next), App("missing_stack_item", <<>>))),
            !.stack = <<Temp(e.next)>> \o @, !.next = @ + 1]
FillUpTo(e, k) ==
  S!Fold(LAMBDA acc, i : IF Depth(acc) < k THEN InsertBottom(acc) ELSE acc, e, [i \in 1 .. k |-> i])
RemoveDepth(e, k) == [e EXCEPT !.stack = RemoveAt(@, Len(@) - k)]
Rearrange(e, k, tops) == Emit([e EXCEPT !.stack = SubSeq(@, 1, Len(@) - k) \o tops], StackComment(<<>>))
ReverseTop(e, k) == Rearrange(e, k, Reverse(Tops(e, k)))

NeedsOf ==
  [drop |-> 1, nip |-> 2, dup |-> 1, over |-> 2, tuck |-> 2, pick |-> 1, roll |-> 2, xdrop |-> 2,
   reverse3 |-> 3, reverse4 |-> 4, reversen |-> 1, swap |-> 0, rot |-> 0, clear |-> 0, depth |-> 0]

DropTop(e) == Emit(Pop(e, 1), StackComment(Tops(e, 1)))
NipSecond(e) ==
  Emit([RemoveDepth(e, 1) EXCEPT !.literals = Drop(@, TopAt(e, 1))], StackComment(<<TopAt(e, 1)>>))
DupTop(e) == Duplicate(e, TopAt(e, 0))
OverSecond(e) == Duplicate(e, TopAt(e, 1))
SwapTop(e) == ReverseTop(FillUpTo(e, 2), 2)
EmitTuck(e) ==
  Duplicate([e EXCEPT !.stack = SubSeq(@, 1, Len(@) - 2) \o Reverse(Tops(e, 2))], TopAt(e, 0))
EmitRot(e) ==
  LET f == FillUpTo(e, 3) IN Rearrange(f, 3, <<TopAt(f, 1), TopAt(f, 0), TopAt(f, 2)>>)

(* PICK, ROLL, XDROP and REVERSEN: the index must be a literal on top.     *)
IndexOnTop(e) == TakeUsize(e, TopAt(e, 0))
IndexInside(e) == IndexOnTop(e) \in 0 .. Depth(e) - 2
AtIndex(e) == TopAt(Pop(e, 1), IndexOnTop(e))
EmitPick(e) ==
  IF IndexInside(e) THEN Duplicate(Pop(e, 1), AtIndex(e))
  ELSE NewTemp(Pop(e, 1), App("pick", Tops(e, 1)))
EmitRoll(e) ==
  IF IndexInside(e)
  THEN Emit(Push(RemoveDepth(Pop(e, 1), IndexOnTop(e)), AtIndex(e)), StackComment(<<>>))
  ELSE NewTempNoted(Pop(e, 1), App("roll", Tops(e, 1)))
EmitXdrop(e) ==
  IF IndexInside(e)
  THEN Emit([RemoveDepth(Pop(e, 1), IndexOnTop(e)) EXCEPT !.literals = Drop(@, AtIndex(e))], StackComment(<<AtIndex(e)>>))
  ELSE Emit(Pop(e, 1), StackComment(Tops(e, 1)))
EmitReverseN(e) ==
  IF IndexOnTop(e) \in 0 .. Depth(e) - 1 THEN ReverseTop(Pop(e, 1), IndexOnTop(e))
  ELSE Emit(Pop(e, 1), StackComment(Tops(e, 1)))

EmitStackOp(start, i) ==
  LET e == PushComment(start)
  IN IF Depth(e) < NeedsOf[i.op] THEN Underflow(e)
     ELSE CASE i.op = "depth" -> PushLiteral(start, Lit("int", Depth(e)), NoLiteral)
            [] i.op = "clear" -> Emit([e EXCEPT !.stack = <<>>], StackComment(<<>>))
            [] i.op = "drop" -> DropTop(e)
            [] i.op = "nip" -> NipSecond(e)
            [] i.op = "dup" -> DupTop(e)
            [] i.op = "over" -> OverSecond(e)
            [] i.op = "tuck" -> EmitTuck(e)
            [] i.op = "swap" -> SwapTop(e)
            [] i.op = "rot" -> EmitRot(e)
            [] i.op = "reverse3" -> ReverseTop(e, 3)
            [] i.op = "reverse4" -> ReverseTop(e, 4)
            [] i.op = "pick" -> EmitPick(e)
            [] i.op = "roll" -> EmitRoll(e)
            [] i.op = "xdrop" -> EmitXdrop(e)
            [] i.op = "reversen" -> EmitReverseN(e)

-----------------------------------------------------------------------------
(* Slots.                                                                  *)
EmitLoadSlot(e, i) ==
  LET name == Name(i.f, i.n)
      literals == CASE i.f = "arg" -> e.literals
                    [] i.f # "arg" /\ Has(e.pointers, name) -> Put(e.literals, name, Literal("ptr", e.pointers[name]))
                    [] OTHER -> Drop(e.literals, name)
  IN Push([PushComment(e) EXCEPT !.literals = literals], name)

EmitStoreSlot(e, i) ==
  LET name == Name(i.f, i.n)
      value == TopAt(e, 0)
      literal == LiteralOf(e, value)
      fresh == i.f # "arg" /\ name \notin e.declared
      stored == Emit(Pop(PushComment(e), 1), IF fresh THEN Let(name, value) ELSE Set(name, value))
  IN IF e.stack = <<>> THEN Underflow(PushComment(e))
     ELSE [stored EXCEPT
             !.declared = IF fresh THEN @ \cup {name} ELSE @,
             !.packed = IF Has(@, value) THEN Put(@, name, @[value]) ELSE Drop(@, name),
             !.pointers = CASE i.f = "arg" -> @
                            [] i.f # "arg" /\ literal.k = "ptr" -> Put(@, name, literal.n)
                            [] OTHER -> Drop(@, name)]

EmitInitSlots(e, i) ==
  LET kind == IF i.op = "initslot" THEN "loc" ELSE "static"
  IN [PushComment(PushComment(e)) EXCEPT !.pointers = Forget(@, {x \in DOMAIN @ : x.f = kind})]

EmitSlotOp(e, i) ==
  CASE i.op = "load"  -> EmitLoadSlot(e, i)
    [] i.op = "store" -> EmitStoreSlot(e, i)
    [] OTHER -> EmitInitSlots(e, i)

-----------------------------------------------------------------------------
(* Collections.                                                            *)
EmitPack(e, i) ==
  LET count == TopAt(e, 0)
      need == TakeUsize(e, count)
      rest == Pop(PushComment(e), 1)
      unit == IF i.f = "map" THEN 2 ELSE 1
      cap == LeastOf({MaxPackInline, need, Depth(rest) \div unit})
      taken == LeastOf({Depth(rest), need * unit})
      elided == Range(SubSeq(rest.stack, Depth(rest) - taken + 1, Depth(rest) - cap * unit))
      elements == Arguments(rest, cap * unit) \o IF need > cap THEN <<Elided(need - cap)>> ELSE <<>>
      packed == NewTempNoted([Shed(rest, taken) EXCEPT !.literals = Forget(@, elided)], App(i.f, elements))
  IN CASE e.stack = <<>> -> Underflow(PushComment(e))
       [] e.stack # <<>> /\ need < 0 -> NewTempNoted(rest, App("pack_dynamic", <<count>>))
       [] OTHER -> IF i.f = "map" THEN packed ELSE [packed EXCEPT !.packed = Put(@, Temp(rest.next), elements)]

(* How many elements the stores behind an UNPACK take.                     *)
InferUnpackElementCount ==
  LET SinglePop(o) == IsOpAt(o, {"drop", "store"})
      pops == GreatestOf({k \in 0 .. Len(Code) : \A o \in at + 2 .. at + 1 + k : SinglePop(o)})
      count == pops - IF IsOpAt(at - 1, {"dup"}) THEN 1 ELSE 0
  IN IF IsOpAt(at + 1, {"drop"}) /\ count > 0 THEN count ELSE DefaultUnpack
EmitUnpack(e) ==
  LET value == TopAt(e, 0)
      rest == Pop(PushComment(e), 1)
      Count(x) == NewTempNoted(x, App("len", <<value>>))
      elements == e.packed[value]
      source == Shed(NewTempNoted(rest, App("unpack", <<value>>)), 1)
      Item(x, k) == NewTempNoted(x, App("unpack_item", <<Temp(rest.next), Lit("int", k - 1)>>))
  IN CASE e.stack = <<>> -> Underflow(PushComment(e))
       [] e.stack # <<>> /\ Has(e.packed, value) ->
            [Count([rest EXCEPT !.stack = @ \o Reverse(elements)]) EXCEPT
               !.literals = Put(@, Temp(rest.next), Literal("int", Len(elements)))]
       [] OTHER -> Count(S!Fold(Item, source, [k \in 1 .. InferUnpackElementCount |-> k]))

EmitCollectionOp(e, i) ==
  CASE i.op = "pack" -> EmitPack(e, i)
    [] i.op = "unpack" -> EmitUnpack(e)
    [] i.op = "effect" -> EmitCall(e, i.f, i.n, FALSE)
    [] i.op = "empty" -> PushLiteral(e, App(i.f, <<>>), NoLiteral)

-----------------------------------------------------------------------------
(* Calls and exits.                                                        *)
ClearStack(e) == [e EXCEPT !.stack = <<>>]
EmitReturn(start) ==
  LET e == PushComment(start)
  IN ClearStack(IF method.void \/ e.stack = <<>> THEN Emit(e, Return(<<>>))
                ELSE Emit(Pop(e, 1), Return(Tops(e, 1))))

EmitSyscall(start, i) ==
  LET e == PushComment(start)
      info == Syscalls[i.n]
      warned == IF Depth(e) < info.params THEN Warn(e) ELSE e
      call == EmitArguments(warned, "sys", i.n, info.params, info.returns)
      Trailing(x) == [x EXCEPT !.out = Append(Front(@), LetNoted(Temp(e.next), Last(@).e))]
  IN IF ~ Has(Syscalls, i.n) THEN NewTemp(Warn(e), CallTo("sys", i.n, <<>>))
     ELSE IF options.trace /\ info.returns THEN Trailing(call) ELSE call

(* A call into the first instructions of a method is a call of the method; *)
(* one with too few arguments goes to a method in front that needs fewer.  *)
Labelled(o) == Has(Callees, o) /\ Callees[o].label # "none"
Counted(o) == Has(Callees, o) /\ Callees[o].params >= 0
Enters(target, c) == target - c <= EntryDelta /\ Labelled(c) /\ Callees[c].label # "script_entry"
NormalizeTarget(target) ==
  LET counted == {c \in DOMAIN Callees : c <= target /\ Counted(c)}
      labelled == {c \in DOMAIN Callees : c <= target /\ Labelled(c)}
      Nearest(cs) == cs # {} /\ Enters(target, GreatestOf(cs))
  IN IF target \in counted \cup labelled THEN target
     ELSE IF Nearest(counted) THEN GreatestOf(counted)
     ELSE IF Nearest(labelled) THEN GreatestOf(labelled)
     ELSE target
CalleeOf(e, target) ==
  LET t == NormalizeTarget(target)
      shorter == {c \in DOMAIN Callees : c < t /\ Counted(c) /\ Enters(t, c) /\ Callees[c].params <= Depth(e)}
  IN IF Counted(t) /\ Depth(e) < Callees[t].params /\ shorter # {} THEN GreatestOf(shorter) ELSE t
ReturnsValue(t) == IF Has(Callees, t) THEN Callees[t].returns ELSE TRUE
EmitInternalCall(start, target) ==
  LET t == CalleeOf(start, target)
      params == IF Counted(t) THEN Callees[t].params ELSE 0
      e == PushComment(start)
      noted == IF Depth(e) < params THEN Underflow(e) ELSE e
  IN EmitArguments(noted, "call", t, params, ReturnsValue(t))

EmitCallToken(start, i) ==
  LET e == PushComment(start)
      noted == IF Depth(e) < Tokens[i.n].params THEN Underflow(e) ELSE e
  IN IF Has(Tokens, i.n) THEN EmitArguments(noted, "token", i.n, Tokens[i.n].params, Tokens[i.n].returns)
     ELSE NewTemp(e, CallTo("callt", i.n, <<>>))
EmitCallPointer(e, i) ==
  LET target == IF e.stack = <<>> THEN Missing ELSE TopAt(e, 0)
      literal == LiteralOf(e, target)
      rest == Pop(e, IF e.stack = <<>> THEN 0 ELSE 1)
  IN CASE literal.k = "ptr" -> EmitInternalCall(rest, literal.n)
       [] literal.k # "ptr" /\ i.n > 0 -> EmitInternalCall(rest, i.n)
       [] OTHER -> NewTemp(PushComment(rest), CallTo("calla", 0, <<target>>))

-----------------------------------------------------------------------------
(* Jumps.                                                                  *)
Unskip(e) == [e EXCEPT !.skips = @ \ {at}]
Targets(e, target) == [e EXCEPT !.labels = IF target \in DOMAIN Code THEN @ \cup {target} ELSE @]
Breaks(e, target) == \E l \in Range(e.loops) : l.break = target
Continues(e, target) == \E l \in Range(e.loops) : l.continue = target

TailCall(e, target) ==
  LET called == EmitInternalCall(e, target)
  IN IF ReturnsValue(CalleeOf(e, target))
     THEN Emit(Shed(called, 1), Return(Tops(called, 1))) ELSE Emit(called, Return(<<>>))
EmitJump(e) ==
  LET target == JumpTarget(at)
  IN IF at \in e.skips THEN Unskip(e)
     ELSE IF Breaks(e, target) THEN ClearStack(Emit(PushComment(e), Line("break")))
     ELSE IF Continues(e, target) THEN ClearStack(Emit(PushComment(e), Line("continue")))
     ELSE IF Labelled(target) THEN TailCall(e, target)
     ELSE Emit(Targets(PushComment(e), target), Transfer("goto", target))

(* An ENDTRY nobody claimed leaves the try statement from its middle.      *)
EmitEndTry(e) ==
  LET target == JumpTarget(at)
      noted == PushComment(e)
  IN IF at \in e.skips THEN Unskip(e)
     ELSE IF Continues(e, target) THEN Emit(noted, Line("continue"))
     ELSE IF \E l \in Range(e.loops) : target >= l.break THEN Emit(noted, Line("break"))
     ELSE Emit(Targets(noted, target), Transfer("leave", target))

-----------------------------------------------------------------------------
(* Conditional jumps.                                                      *)
NeedsBranch(i) == IF i.op = "jmpcmp" THEN 2 ELSE 1
JumpsWhen(e, i) ==
  CASE i.op = "jmpif" -> TopAt(e, 0) [] i.op = "jmpifnot" -> Not(TopAt(e, 0))
    [] i.op = "jmpcmp" -> App(i.f, Tops(e, 2))
StaysWhen(e, i) ==
  CASE i.op = "jmpif" -> Not(TopAt(e, 0)) [] i.op = "jmpifnot" -> TopAt(e, 0)
    [] i.op = "jmpcmp" -> App(Negated[i.f], Tops(e, 2))
GotoWhen(e, i) == IF i.op = "jmpcmp" THEN Not(StaysWhen(e, i)) ELSE JumpsWhen(e, i)

DoWhileTail(start, i) ==
  LET e == [start EXCEPT !.tails = @ \ {at}]
      noted == PushComment(e)
  IN IF Depth(e) < NeedsBranch(i) THEN Underflow(noted)
     ELSE [Emit(Shed(noted, NeedsBranch(i)), Cond("until", JumpsWhen(e, i))) EXCEPT
             !.loops = PopLoops(@, LAMBDA l : l.continue = at)]

(* A block here would cross the end of another one.                        *)
CrossesCloser(e, target) == e.closers # <<>> /\ target > LeastOf(DOMAIN e.closers)
CrossedInside(target) == \E o \in at + 1 .. target - 1 : Conditional(o) /\ JumpTarget(o) > target

(* The jump back in front of the target of a branch that makes it a loop.  *)
DetectLoopBack(e, target) ==
  LET o == IF target > End THEN Len(Code) ELSE target - 1
  IN IsOpAt(o, {"jmp"}) /\ JumpTarget(o) \in 1 .. at /\ ~ Continues(e, JumpTarget(o))
DetectElse(target) ==
  /\ target \in DOMAIN Code
  /\ IsOpAt(target - 1, {"jmp"})
  /\ JumpTarget(target - 1) > target
  /\ ~ \E o \in 1 .. at - 1 : Conditional(o) /\ JumpTarget(o) \in at + 1 .. target - 1

ImplicitElseEnd(e, target) ==
  LET handlers == {o \in DOMAIN e.catches \cup DOMAIN e.finallys : o > target}
  IN IF handlers = {} THEN End ELSE LeastOf(handlers)
DetectImplicitElse(e, target) ==
  LET end == ImplicitElseEnd(e, target)
      body == target .. LeastOf({end, End}) - 1
      NeverReturns(o) == OpAt(o) = "call" /\ Code[o].n \in NoReturns
  IN /\ target \in DOMAIN Code
     /\ IsOpAt(target - 1, {"abort", "throw", "ret"}) \/ NeverReturns(target - 1)
     /\ ~ (Has(e.catches, target) \/ Has(e.finallys, target))
     /\ ~ \E o \in at + 1 .. target - 1 : Conditional(o) /\ JumpTarget(o) = target
     /\ e.closers[target] = 1
     /\ \E o \in body : ~ IsOpAt(o, {"endtry", "nop", "jmp"})
     /\ ~ /\ \E r \in e.finallyBodies : target \in r.from .. r.to - 1
          /\ \E o \in body : IsOpAt(o, {"endfinally"})
     /\ ~ \E o \in DOMAIN e.closers : target < o /\ o < end

AddElseMutant(e, target, end) == [e EXCEPT !.elses = Increment(@, target)]
AddElse(e, target, end) ==
  [e EXCEPT !.elses = Increment(@, target), !.closers = Increment(@, end)]
OpenIf(e, target) ==
  LET jump == target - 1
      end == JumpTarget(jump)
  IN IF DetectElse(target)
     THEN IF Breaks(e, end) \/ Continues(e, end) \/ Has(e.elses, target) THEN e
          ELSE [AddElse(e, target, end) EXCEPT !.skips = @ \cup {jump},
                                               !.depths = PutNew(@, end, Depth(e))]
     ELSE IF DetectImplicitElse(e, target) /\ ~ Has(e.elses, target)
     THEN AddElse(e, target, ImplicitElseEnd(e, target)) ELSE e

EmitIfBlock(e, i) ==
  LET target == JumpTarget(at)
      popped == PushComment(Shed(e, NeedsBranch(i)))
      loop == i.op # "jmpcmp" /\ DetectLoopBack(e, target)
      header == Emit(popped, Cond(IF loop THEN "while" ELSE "if", StaysWhen(e, i)))
      opened == [header EXCEPT !.saved = PutNew(@, target, header.stack), !.closers = Increment(@, target)]
      back == IF target > End THEN Len(Code) ELSE target - 1
  IN IF Depth(e) < NeedsBranch(i) THEN Underflow(PushComment(e))
     ELSE IF CrossesCloser(e, target) \/ CrossedInside(target)
     THEN Emit(Targets(popped, target), IfGoto(GotoWhen(e, i), target))
     ELSE IF loop
     THEN [opened EXCEPT !.skips = @ \cup {back},
                         !.loops = Append(@, [break |-> target, continue |-> JumpTarget(back)])]
     ELSE OpenIf(opened, target)

EmitBranch(e, i) ==
  IF at \in e.tails THEN DoWhileTail(e, i)
  ELSE IF JumpTarget(at) > at THEN EmitIfBlock(e, i)
  ELSE IF at \in e.skips THEN Unskip(e) ELSE Warn(e)       (* emit_relative *)

-----------------------------------------------------------------------------
(* try statements; 0 stands for no handler and for no ENDTRY found.        *)
NoExit == [at |-> 0, to |-> 0]
FindEndTry(skips, start, end) ==
  LET Look(acc, o) ==
        LET to == IF JumpTarget(o) = o THEN end ELSE JumpTarget(o)
            exit == [at |-> o, to |-> to]
            claimed == o \in skips \/ to <= o
        IN CASE IsOpAt(o, {"try"}) -> [acc EXCEPT !.depth = @ + 1]
             [] IsOpAt(o, {"endfinally", "endtry"}) /\ acc.depth > 0 -> [acc EXCEPT !.depth = @ - 1]
             [] IsOpAt(o, {"endtry"}) /\ acc.depth = 0 /\ ~ claimed ->
                  [acc EXCEPT !.last = IF to >= end THEN exit ELSE @,
                              !.first = IF @ = NoExit THEN exit ELSE @]
             [] OTHER -> acc
      found == S!Fold(Look, [depth |-> 0, first |-> NoExit, last |-> NoExit],
                      SelectSeq([o \in DOMAIN Code |-> o], LAMBDA o : start <= o /\ o < end))
  IN IF found.last # NoExit THEN found.last ELSE found.first
FindEndFinally(start) ==
  LET ends == {o \in DOMAIN Code : o >= start /\ OpAt(o) = "endfinally"}
  IN IF ends = {} THEN 0 ELSE LeastOf(ends)

Some(a, b) == IF a # 0 THEN a ELSE b
Claim(e, exit) == [e EXCEPT !.skips = IF exit = NoExit THEN @ ELSE @ \cup {exit.at}]
CloseBodyAt(e, o) == [e EXCEPT !.closers = IF o = 0 THEN @ ELSE Increment(@, o)]

(* The catch body ends where the finally starts, where the try resumes, or *)
(* at an ENDTRY or ENDFINALLY of its own.                                  *)
RegisterCatch(e, catch, finally, resume) ==
  LET known == Some(finally, resume)
      exit == FindEndTry(e.skips, catch, Some(known, End))
      finish == FindEndFinally(catch)
      end == Some(Some(known, exit.to), IF finish = 0 THEN 0 ELSE finish + 1)
  IN CloseBodyAt(Claim([e EXCEPT !.catches = Increment(@, catch),
                                 !.resumes = IF resume = 0 THEN @ ELSE Put(@, catch, resume)], exit), end)
ResumeAfterCatch(e, catch, finally, resume) ==
  Some(resume, FindEndTry(e.skips, catch, Some(Some(finally, resume), End)).to)

RegisterFinally(e, finally, resume) ==
  LET finish == FindEndFinally(finally)
      end == IF finish # 0 THEN finish + 1 ELSE IF resume > finally THEN resume ELSE End
      covered == \E r \in e.finallyBodies : r.from < finally /\ finally < r.to
  IN IF covered THEN e
     ELSE CloseBodyAt([e EXCEPT !.finallys = Increment(@, finally),
                                !.skips = IF finish = 0 THEN @ ELSE @ \cup {finish},
                                !.finallyBodies = @ \cup {[from |-> finally, to |-> end]}], end)

EmitTry(start, i) ==
  LET e == Emit(PushComment(start), Line("try"))
      catch == IF i.n > 0 THEN at + i.n ELSE 0
      finally == IF i.m > 0 THEN at + i.m ELSE 0
      handlers == {catch, finally} \ {0}
      end == IF handlers = {} THEN 0 ELSE LeastOf(handlers)
      exit == IF end = 0 THEN NoExit ELSE FindEndTry(e.skips, at + 1, end)
      body == Claim(CloseBodyAt(e, end), exit)
      resume == IF catch = 0 THEN exit.to ELSE ResumeAfterCatch(body, catch, finally, exit.to)
      caught == IF catch = 0 THEN body ELSE RegisterCatch(body, catch, finally, exit.to)
  IN IF finally = 0 THEN caught ELSE RegisterFinally(caught, finally, resume)

EmitControlFlow(e, i) ==
  CASE i.op = "ret" -> EmitReturn(e)
    [] i.op \in {"abort", "throw"} -> ClearStack(EmitCall(e, i.op, i.n, FALSE))
    [] i.op = "assert" -> EmitCall(e, "assert", i.n, FALSE)
    [] i.op = "syscall" -> EmitSyscall(e, i)
    [] i.op = "jmp" -> EmitJump(e)
    [] i.op \in {"jmpif", "jmpifnot", "jmpcmp"} -> EmitBranch(e, i)
    [] i.op = "endtry" -> EmitEndTry(e)
    [] i.op = "call" -> EmitInternalCall(e, i.n)
    [] i.op = "calla" -> EmitCallPointer(e, i)
    [] i.op = "callt" -> EmitCallToken(e, i)
    [] i.op = "try" -> EmitTry(e, i)
    [] i.op = "endfinally" -> IF at \in e.skips THEN Unskip(e) ELSE PushComment(e)
    [] i.op = "nop" -> PushComment(e)

-----------------------------------------------------------------------------
(* emit_instruction, a family of instructions after the other.             *)
MathOps == {"binary", "intrinsic", "inc", "dec", "not", "nz"}
SlotOps == {"load", "store", "initslot", "initsslot"}
CollectionOps == {"pack", "unpack", "effect", "empty"}
ControlOps == {"ret", "abort", "throw", "assert", "syscall", "jmp", "jmpif", "jmpifnot", "jmpcmp",
               "endtry", "call", "calla", "callt", "try", "endfinally", "nop"}
(* finish closes what is still open, and no more than is open.             *)
OpenDepth(lines) ==
  FoldSeq(LAMBDA line, d : d + (IF Opens(line) THEN 1 ELSE 0) - (IF Closes(line) THEN 1 ELSE 0), 0, lines)
FlushClosers(e) ==
  LET pending == FoldFunction(LAMBDA k, n : k + n, 0, e.closers)
      open == OpenDepth(e.out)
      k == IF open < 0 THEN 0 ELSE LeastOf({pending, open})
  IN e.out \o Times(k, Close)

-----------------------------------------------------------------------------
(* write_method_body: advance_to and emit_instruction for every            *)
(* instruction, then finish.                                               *)
Init ==
  /\ method \in Methods
  /\ options \in OptionSets
  /\ em = Fresh
  /\ at = 1
  /\ phase = IF Len(method.code) > MaxMethodLength THEN "skipped" ELSE "advance"

Advance ==
  /\ phase = "advance" /\ at <= Len(Code)
  /\ \E next \in {AdvanceTo(em, at)} : em' = next
  /\ phase' = "emit"
  /\ UNCHANGED <<method, options, at>>

Lift(ops, Handler(_, _)) ==
  /\ phase = "emit" /\ OpAt(at) \in ops
  /\ \E next \in {Handler(em, Code[at])} : em' = next
  /\ at' = at + 1 /\ phase' = "advance"
  /\ UNCHANGED <<method, options>>
LiftLiteral == Lift({"push"}, EmitLiteral)
LiftMath == Lift(MathOps, EmitMath)
LiftStackOp == Lift(DOMAIN NeedsOf, EmitStackOp)
LiftSlotOp == Lift(SlotOps, EmitSlotOp)
LiftCollectionOp == Lift(CollectionOps, EmitCollectionOp)
LiftControlFlow == Lift(ControlOps, EmitControlFlow)

Finish ==
  /\ phase = "advance" /\ at > Len(Code)
  /\ em' = [em EXCEPT !.out = FlushClosers(em), !.closers = <<>>]
  /\ phase' = "else_if"
  /\ UNCHANGED <<method, options, at>>

LiftNext ==
  \/ Advance \/ LiftLiteral \/ LiftMath \/ LiftStackOp \/ LiftSlotOp
  \/ LiftCollectionOp \/ LiftControlFlow \/ Finish
====
