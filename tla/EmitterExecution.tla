-------------------------- MODULE EmitterExecution --------------------------
(***************************************************************************)
(* The lines of the high-level view run beside the method they were lifted *)
(* from.  The VM executes instructions up to the next thing a caller can   *)
(* see: a call with its arguments, the end of the method with its result   *)
(* and the static fields.  Then the program runs to the same event or is   *)
(* wrong.  The outcome of a call is chosen once, for both.                 *)
(*                                                                         *)
(* A value is a tree like an expression: a literal, an uninterpreted       *)
(* application, or a reference into the heap of its side.                  *)
(***************************************************************************)
EXTENDS EmitterSwitches

CONSTANTS
  Inputs,      (* the values of an argument                                *)
  Results,     (* the values a call can return                             *)
  MaxVmSteps   (* bound: the VM stops there without an event               *)

VARIABLES
  vm,          (* pc, stack, slots, tries, heap, steps, status             *)
  event,       (* what the program has to do next; NoEvent: VM's turn      *)
  prog,        (* pc, mode, vars, heap, owed, exc, status                  *)
  blocks       (* per line: where its block ends, and the block it is in   *)

runVars == <<vm, event, prog, blocks>>
vars == <<emitVars, runVars>>

NoEvent == [k |-> "none", n |-> 0, args |-> <<>>, r |-> Missing]
Event(k, n, args, r) == [k |-> k, n |-> n, args |-> args, r |-> r]

-----------------------------------------------------------------------------
(* Values.                                                                 *)
Num(n) == Lit("int", n)
Bool(b) == Lit("bool", IF b THEN 1 ELSE 0)
Null == Lit("null", 0)
Fault == Name("fault", 0)                        (* ends the execution     *)
Raise == Name("raise", 0)                        (* can be caught ...      *)
Error == Name("error", 0)                        (* ... as this value      *)
Failed(v) == v \in {Fault, Raise}
Truthy(v) == ~ (v.f \in {"int", "bool", "null"} /\ v.n = 0)
Elements(v, heap) == IF v.f = "ref" THEN heap[v.n] ELSE v.a
IsArray(v) == v.f \in {"ref", "array", "struct"}
Deep(v, heap) == IF v.f = "ref" THEN App("array", heap[v.n]) ELSE v
DeepAll(vs, heap) == [k \in DOMAIN vs |-> Deep(vs[k], heap)]
Truncated(a, b) == IF (a < 0) = (b < 0) THEN IF a < 0 THEN (-a) \div (-b) ELSE a \div b
                   ELSE IF a < 0 THEN -((-a) \div b) ELSE -(a \div (-b))

Calculate(f, a, b) ==
  CASE f = "+" -> Num(a + b) [] f = "-" -> Num(a - b) [] f = "*" -> Num(a * b)
    [] f = "/" -> IF b = 0 THEN Fault ELSE Num(Truncated(a, b))
    [] f = "%" -> IF b = 0 THEN Fault ELSE Num(a - b * Truncated(a, b))
    [] f = "<" -> Bool(a < b) [] f = "<=" -> Bool(a <= b)
    [] f = ">" -> Bool(a > b) [] f = ">=" -> Bool(a >= b)
    [] f = "min" -> Num(IF a < b THEN a ELSE b) [] f = "max" -> Num(IF a < b THEN b ELSE a)
Number(v) == v.f \in {"int", "bool"}
Apply(f, args, heap) ==
  CASE \E k \in DOMAIN args : Failed(args[k]) ->
         args[FirstOf({k \in DOMAIN args : Failed(args[k])})]
    [] f = "==" -> Bool(args[1] = args[2])
    [] f = "!=" -> Bool(args[1] # args[2])
    [] f \in Arithmetic \cup Comparisons \cup {"min", "max"} ->
         IF Number(args[1]) /\ Number(args[2]) THEN Calculate(f, args[1].n, args[2].n) ELSE Fault
    [] f = "!" -> Bool(~ Truthy(args[1]))
    [] f = "checked" -> args[1]
    [] f = "len" -> IF IsArray(args[1]) THEN Num(Len(Elements(args[1], heap))) ELSE Fault
    [] f = "index" ->
         IF ~ IsArray(args[1]) THEN Fault
         ELSE IF args[2].n + 1 \in DOMAIN Elements(args[1], heap) THEN Elements(args[1], heap)[args[2].n + 1] ELSE Raise
    [] f = "unpack" -> App("array", Elements(args[1], heap))
    [] f = "unpack_item" -> IF args[2].n + 1 \in DOMAIN args[1].a THEN args[1].a[args[2].n + 1] ELSE Missing
    [] OTHER -> App(f, args)
Mutate(f, args, heap) ==
  IF args = <<>> \/ args[1].f # "ref" THEN heap
  ELSE CASE f = "append" -> [heap EXCEPT ![args[1].n] = Append(@, args[2])]
         [] f = "clear_items" -> [heap EXCEPT ![args[1].n] = <<>>]
         [] OTHER -> heap

-----------------------------------------------------------------------------
(* The VM.                                                                 *)
SlotNames == {Name(Code[o].f, Code[o].n) : o \in {p \in DOMAIN Code : OpAt(p) \in {"load", "store"}}}
ArgNames == {Name("arg", k) : k \in 0 .. method.params - 1}
Statics == SetToSortSeq({x.n : x \in {y \in SlotNames : y.f = "static"}}, <)
Started(args) ==
  [x \in SlotNames \cup ArgNames |-> IF x \in ArgNames THEN args[x.n] ELSE Null]

VmTurn == phase = "done" /\ event = NoEvent /\ vm.status = "running" /\ vm.steps < MaxVmSteps
Instr == IF vm.pc \in DOMAIN Code THEN Code[vm.pc] ELSE [op |-> "ret", n |-> 0, m |-> 0, f |-> ""]
VmTops(k) == SubSeq(vm.stack, Len(vm.stack) - k + 1, Len(vm.stack))
VmTop(k) == vm.stack[Len(vm.stack) - k]
VmShed(k) == SubSeq(vm.stack, 1, Len(vm.stack) - k)
VmArgs(k) == [i \in 1 .. k |-> VmTop(i - 1)]
Going(v, pc, stack) == [v EXCEPT !.pc = pc, !.stack = stack, !.steps = @ + 1]
Goes(pc, stack) == Going(vm, pc, stack)
Falls(stack) == Goes(vm.pc + 1, stack)

Outcome(v, slots) == Event("return", 0, v \o [k \in DOMAIN Statics |-> slots[Name("static", Statics[k])]], Missing)
Stops(e) == vm' = [vm EXCEPT !.status = "stopped"] /\ event' = e

(* The innermost try statement of v that still has a handler takes over.   *)
Handles(t) == (t.state = "try" /\ t.catch # 0) \/ (t.state # "finally" /\ t.finally # 0)
ThrowsIn(v, x) ==
  LET k == LastOf({j \in DOMAIN v.tries : Handles(v.tries[j])})
      t == v.tries[k]
      kept == SubSeq(v.tries, 1, k - 1)
  IN IF k = 0 THEN Stops(Event("throw", 0, <<Deep(x, v.heap)>>, Missing))
     ELSE /\ UNCHANGED event
          /\ vm' = IF t.state = "try" /\ t.catch # 0
                   THEN [Going(v, t.catch, Append(v.stack, x)) EXCEPT
                           !.tries = Append(kept, [t EXCEPT !.state = "catch"])]
                   ELSE [Going(v, t.finally, v.stack) EXCEPT
                           !.tries = Append(kept, [t EXCEPT !.state = "finally", !.exc = <<x>>])]
Throws(x) == ThrowsIn(vm, x)
Pushes(rest, v) ==
  CASE v = Fault -> Stops(Event("fault", 0, <<>>, Missing))
    [] v = Raise -> Throws(Error)
    [] OTHER -> vm' = Falls(Append(rest, v)) /\ UNCHANGED event

Quiet == UNCHANGED <<emitVars, prog, blocks>>

VmPush ==
  /\ VmTurn /\ Instr.op = "push" /\ Quiet
  /\ Pushes(vm.stack, Lit(Instr.f, IF Instr.f = "ptr" THEN vm.pc + Instr.n ELSE Instr.n))
VmMath ==
  /\ VmTurn /\ Instr.op \in MathOps /\ Quiet
  /\ LET k == IF Instr.op = "binary" THEN 2 ELSE IF Instr.op = "intrinsic" THEN Instr.n ELSE 1
         args == VmTops(k)
         v == CASE Instr.op \in {"binary", "intrinsic"} -> Apply(Instr.f, args, vm.heap)
                [] Instr.op = "inc" -> Apply("+", args \o <<Num(1)>>, vm.heap)
                [] Instr.op = "dec" -> Apply("-", args \o <<Num(1)>>, vm.heap)
                [] Instr.op = "not" -> Apply("!", args, vm.heap)
                [] Instr.op = "nz" -> Apply("!=", args \o <<Num(0)>>, vm.heap)
     IN Pushes(VmShed(k), v)

Rearranged ==
  LET n == VmTop(0).n
      rest == VmShed(1)
      depth == Len(rest)
      Without(s, k) == RemoveAt(s, Len(s) - k)
  IN CASE Instr.op = "dup" -> Append(vm.stack, VmTop(0))
       [] Instr.op = "over" -> Append(vm.stack, VmTop(1))
       [] Instr.op = "drop" -> rest
       [] Instr.op = "nip" -> Without(vm.stack, 1)
       [] Instr.op = "tuck" -> VmShed(2) \o <<VmTop(0), VmTop(1), VmTop(0)>>
       [] Instr.op = "swap" -> VmShed(2) \o <<VmTop(0), VmTop(1)>>
       [] Instr.op = "rot" -> VmShed(3) \o <<VmTop(1), VmTop(0), VmTop(2)>>
       [] Instr.op = "reverse3" -> VmShed(3) \o Reverse(VmTops(3))
       [] Instr.op = "reverse4" -> VmShed(4) \o Reverse(VmTops(4))
       [] Instr.op = "clear" -> <<>>
       [] Instr.op = "depth" -> Append(vm.stack, Num(Len(vm.stack)))
       [] Instr.op = "pick" -> Append(rest, rest[depth - n])
       [] Instr.op = "roll" -> Append(Without(rest, n), rest[depth - n])
       [] Instr.op = "xdrop" -> Without(rest, n)
       [] Instr.op = "reversen" -> SubSeq(rest, 1, depth - n) \o Reverse(SubSeq(rest, depth - n + 1, depth))
VmStackOp ==
  /\ VmTurn /\ Instr.op \in DOMAIN NeedsOf /\ Quiet
  /\ vm' = Falls(Rearranged) /\ UNCHANGED event

VmSlotOp ==
  /\ VmTurn /\ Instr.op \in SlotOps /\ Quiet /\ UNCHANGED event
  /\ LET x == Name(Instr.f, Instr.n)
     IN vm' = CASE Instr.op = "load" -> Falls(Append(vm.stack, vm.slots[x]))
                [] Instr.op = "store" -> [Falls(VmShed(1)) EXCEPT !.slots[x] = VmTop(0)]
                [] Instr.op = "initslot" ->
                     [Falls(VmShed(Instr.m)) EXCEPT
                        !.slots = [y \in DOMAIN @ |-> IF y.f = "arg" THEN VmTop(y.n) ELSE @[y]]]
                [] OTHER -> Falls(vm.stack)

VmCollection ==
  /\ VmTurn /\ Instr.op \in CollectionOps /\ Quiet /\ UNCHANGED event
  /\ LET fresh == Lit("ref", Len(vm.heap) + 1)
         n == VmTop(0).n
         els == Elements(VmTop(0), vm.heap)
         taken == SubSeq(VmArgs(n + 1), 2, n + 1)
     IN vm' = CASE Instr.op = "pack" -> [Falls(Append(VmShed(n + 1), fresh)) EXCEPT !.heap = Append(@, taken)]
                [] Instr.op = "empty" -> [Falls(Append(vm.stack, fresh)) EXCEPT !.heap = Append(@, <<>>)]
                [] Instr.op = "unpack" -> Falls(VmShed(1) \o Reverse(els) \o <<Num(Len(els))>>)
                [] Instr.op = "effect" ->
                     [Falls(VmShed(Instr.n)) EXCEPT !.heap = Mutate(Instr.f, VmTops(Instr.n), @)]

(* A call is an event; it returns one of the results or raises.            *)
Signature ==
  CASE Instr.op = "syscall" -> [k |-> "sys", n |-> Instr.n, params |-> Syscalls[Instr.n].params, returns |-> Syscalls[Instr.n].returns]
    [] Instr.op = "callt" -> [k |-> "token", n |-> Instr.n, params |-> Tokens[Instr.n].params, returns |-> Tokens[Instr.n].returns]
    [] OTHER -> LET target == IF Instr.op = "call" THEN Instr.n ELSE IF Instr.op = "jmp" THEN JumpTarget(vm.pc) ELSE VmTop(0).n
                    t == NormalizeTarget(target)
                IN [k |-> "call", n |-> t, params |-> Callees[t].params, returns |-> Callees[t].returns]
TailCalls == Instr.op = "jmp" /\ JumpTarget(vm.pc) \notin 1 .. End
VmCall(r) ==
  /\ VmTurn /\ (Instr.op \in {"syscall", "callt", "call", "calla"} \/ TailCalls) /\ Quiet
  /\ LET s == Signature
         popped == IF Instr.op = "calla" THEN 1 ELSE 0
         args == [i \in 1 .. s.params |-> VmTop(popped + i - 1)]
         rest == VmShed(popped + s.params)
         e == Event(s.k, s.n, DeepAll(args, vm.heap), r)
         stack == IF s.returns THEN Append(rest, r) ELSE rest
     IN /\ event' = e
        /\ IF r = Raise THEN vm' = [vm EXCEPT !.status = "raising"]
           ELSE vm' = Goes(IF TailCalls THEN End ELSE vm.pc + 1, stack)
VmRaise ==
  /\ phase = "done" /\ event = NoEvent /\ vm.status = "raising" /\ Quiet
  /\ ThrowsIn([vm EXCEPT !.status = "running"], Error)

VmJump ==
  /\ VmTurn /\ Quiet /\ UNCHANGED event
  /\ \/ Instr.op = "jmp" /\ ~ TailCalls /\ vm' = Goes(JumpTarget(vm.pc), vm.stack)
     \/ /\ Instr.op \in {"jmpif", "jmpifnot", "jmpcmp"}
        /\ LET jumps == CASE Instr.op = "jmpif" -> Truthy(VmTop(0)) [] Instr.op = "jmpifnot" -> ~ Truthy(VmTop(0))
                          [] OTHER -> Truthy(Apply(Instr.f, VmTops(2), vm.heap))
           IN vm' = Goes(IF jumps THEN JumpTarget(vm.pc) ELSE vm.pc + 1, VmShed(NeedsBranch(Instr)))
     \/ Instr.op = "nop" /\ vm' = Falls(vm.stack)

Try(c, f) == [catch |-> IF c > 0 THEN vm.pc + c ELSE 0, finally |-> IF f > 0 THEN vm.pc + f ELSE 0,
              state |-> "try", end |-> 0, exc |-> <<>>]
VmTry ==
  /\ VmTurn /\ Quiet /\ UNCHANGED event
  /\ \/ Instr.op = "try" /\ vm' = [Falls(vm.stack) EXCEPT !.tries = Append(@, Try(Instr.n, Instr.m))]
     \/ /\ Instr.op = "endtry"
        /\ LET t == Last(vm.tries)
           IN vm' = IF t.finally = 0 THEN [Goes(JumpTarget(vm.pc), vm.stack) EXCEPT !.tries = Front(@)]
                    ELSE [Goes(t.finally, vm.stack) EXCEPT
                            !.tries = Append(Front(@), [t EXCEPT !.state = "finally", !.end = JumpTarget(vm.pc)])]
     \/ /\ Instr.op = "endfinally" /\ Last(vm.tries).exc = <<>>
        /\ vm' = [Goes(Last(vm.tries).end, vm.stack) EXCEPT !.tries = Front(@)]
VmRethrow ==
  /\ VmTurn /\ Quiet /\ Instr.op = "endfinally" /\ Last(vm.tries).exc # <<>>
  /\ ThrowsIn([vm EXCEPT !.tries = Front(@)], Last(vm.tries).exc[1])
VmExit ==
  /\ VmTurn /\ Quiet
  /\ \/ /\ Instr.op = "ret"
        /\ Stops(Outcome(IF method.void \/ vm.stack = <<>> THEN <<>> ELSE <<Deep(VmTop(0), vm.heap)>>, vm.slots))
     \/ Instr.op = "throw" /\ Throws(VmTop(0))
     \/ Instr.op = "abort" /\ Stops(Event("fault", 0, <<>>, Missing))
     \/ /\ Instr.op = "assert"
        /\ IF Truthy(VmTop(Instr.n - 1)) THEN vm' = Falls(VmShed(Instr.n)) /\ UNCHANGED event
           ELSE Stops(Event("fault", 0, <<>>, Missing))

-----------------------------------------------------------------------------
(* The program.  One recursive operator evaluates an expression            *)
(* [x, vars, heap, r]; r is what the call in it returned.                  *)
Kinds == {"sys", "call", "token", "calla", "callt"}
Literals == {"int", "bool", "str", "null", "ptr"}
RECURSIVE Evaluated(_)
Evaluated(q) ==
  LET Sub(k) == Evaluated([q EXCEPT !.x = q.x.a[k]])
  IN CASE q.x.f \in Kinds -> q.r
       [] q.x.f \in Literals -> q.x
       [] q.x.a = <<>> /\ q.x.f \notin {"array", "struct", "map"} ->
            IF q.x \in DOMAIN q.vars THEN q.vars[q.x] ELSE IF IsSlot(q.x) THEN Null ELSE Missing
       [] OTHER -> S!Apply(LAMBDA args : Apply(q.x.f, args, q.heap), [k \in DOMAIN q.x.a |-> Sub(k)])
Value(x, r) == S!Apply(Evaluated, [x |-> x, vars |-> prog.vars, heap |-> prog.heap, r |-> r])

(* The call in an expression: calls are never nested, only negated.        *)
CallIn(x) == IF x.f = "!" THEN x.a[1] ELSE x
Calls(x) == CallIn(x).f \in Kinds

-----------------------------------------------------------------------------
(* Blocks: the line an opener is closed by, the opener around a line.      *)
Blocks(s) ==
  LET ends == [i \in {j \in DOMAIN s : Opens(s[j])} |-> FindBlockEnd(s, i)]
      Around(i) == LastOf({j \in DOMAIN ends : j < i /\ i <= ends[j]})
  IN [ends |-> ends, around |-> [i \in 1 .. Len(s) + 1 |-> Around(i)]]
Out == em.out
After(i) == NextCode(Out, i)
IsAt(i, ks) == i # 0 /\ i <= Len(Out) /\ Out[i].s \in ks
LabelAt(l) == FirstOf({k \in DOMAIN Out : Out[k] = Transfer("label", l)})
Inside(i, j) == j = 0 \/ (j < i /\ i <= blocks.ends[j])

(* The else branches and handlers behind a block that was completed.       *)
PastChain(i, ks) ==
  LET chain[j \in 0 .. Len(Out) + 1] ==
        IF IsAt(After(j), ks) /\ After(j) > j THEN chain[blocks.ends[After(j)]] ELSE j + 1
  IN chain[i]
FinallyOf(j) ==                      (* the finally of the try or catch at j *)
  LET next == After(blocks.ends[j])
  IN IF IsAt(next, {"finally"}) THEN next
     ELSE IF IsAt(next, {"catch"}) /\ IsAt(After(blocks.ends[next]), {"finally"})
     THEN After(blocks.ends[next]) ELSE 0
CatchOf(j) ==
  IF Out[j].s = "try" /\ IsAt(After(blocks.ends[j]), {"catch"}) THEN After(blocks.ends[j]) ELSE 0

Completion(k, l, v) == [k |-> k, l |-> l, v |-> v]
To(p, pc) == [p EXCEPT !.pc = pc, !.mode = "run"]
Ends(p, k, v) == [p EXCEPT !.status = k, !.exc = v]

(* Where the program p goes from line r.i when control leaves with r.how.  *)
RECURSIVE Leaving(_)
Leaving(r) ==
  LET j == blocks.around[r.i]
      kind == Out[j].s
      how == r.how
      label == LabelAt(how.l)
      Outward(h, p) == Leaving([i |-> j, how |-> h, p |-> p])
      loop == j # 0 /\ kind \in {"while", "for", "do", "loop"}
  IN CASE how.k = "goto" /\ label # 0 /\ Inside(label, j) -> To(r.p, label)
       [] j = 0 /\ ~ (how.k = "goto" /\ label # 0) ->
            Ends(r.p, IF how.k \in {"return", "throw"} THEN how.k ELSE "lost", how.v)
       [] (loop \/ (j # 0 /\ kind = "switch")) /\ how.k = "break" -> To(r.p, blocks.ends[j] + 1)
       [] loop /\ how.k = "continue" ->
            CASE kind = "for" -> [r.p EXCEPT !.pc = j, !.mode = "inc"]
              [] kind = "do" -> To(r.p, blocks.ends[j])
              [] OTHER -> To(r.p, j)
       [] j # 0 /\ kind = "try" /\ how.k = "throw" /\ CatchOf(j) # 0 ->
            [To(r.p, CatchOf(j) + 1) EXCEPT !.vars = Put(@, Exception, how.v)]
       [] j # 0 /\ kind \in {"try", "catch"} /\ FinallyOf(j) # 0 ->
            [To(r.p, FinallyOf(j) + 1) EXCEPT !.owed = <<how>> \o @]
       [] j # 0 /\ kind = "finally" -> Outward(how, [r.p EXCEPT !.owed = Tail(@)])
       [] OTHER -> Outward(how, r.p)
Leave(how, p) == S!Apply(Leaving, [i |-> p.pc, how |-> how, p |-> p])

-----------------------------------------------------------------------------
(* The program's steps.                                                    *)
ProgTurn == phase = "done" /\ event # NoEvent /\ prog.status = "running"
Here == Out[prog.pc]
Before(ks) == ProgTurn /\ prog.pc <= Len(Out) /\ Here.s \in ks
Still == UNCHANGED <<emitVars, vm, blocks>>
NextLine == To(prog, prog.pc + 1)
Stored(p, d, v) ==
  IF v.f \in {"array", "struct"}
  THEN [p EXCEPT !.heap = Append(@, v.a), !.vars = Put(@, d, Lit("ref", Len(p.heap) + 1))]
  ELSE [p EXCEPT !.vars = Put(@, d, v)]

(* Evaluates x, whose call must be the pending event, and goes on with v.  *)
With(x, Then(_)) ==
  LET c == CallIn(x)
      args == [k \in DOMAIN c.a |-> Value(c.a[k], Missing)]
      same == event.k = c.f /\ event.n = c.n /\ event.args = DeepAll(args, prog.heap)
  IN IF Calls(x) /\ ~ same THEN prog' = [prog EXCEPT !.status = "wrong"] /\ UNCHANGED event
     ELSE /\ event' = IF Calls(x) THEN NoEvent ELSE event
          /\ \E v \in {IF Calls(x) /\ event.r = Raise THEN Raise ELSE Value(x, event.r)} :
               prog' = CASE v = Fault -> Ends(prog, "fault", Missing)
                         [] v = Raise -> Leave(Completion("throw", 0, Error), prog)
                         [] OTHER -> Then(v)

Assigned(line) == IF line.s = "compound" THEN App(line.op, <<line.d, line.e>>) ELSE line.e
ProgAssign ==
  /\ Before({"let", "letc", "set", "compound"}) /\ Still
  /\ With(Assigned(Here), LAMBDA v : Stored(NextLine, Here.d, v))
ProgForStep ==
  /\ Before({"for"}) /\ prog.mode \in {"run", "inc"} /\ Still
  /\ LET line == IF prog.mode = "inc" THEN Here.inc ELSE Here.init
     IN With(Assigned(line), LAMBDA v : [Stored(prog, line.d, v) EXCEPT !.mode = "test"])
ProgTest ==
  /\ Before({"if", "elseif", "while", "for", "until", "ifgoto"}) /\ Still
  /\ Here.s = "for" => prog.mode = "test"
  /\ With(Here.e, LAMBDA v :
       CASE Here.s = "ifgoto" -> IF Truthy(v) THEN Leave(Completion("goto", Here.l, Missing), prog) ELSE NextLine
         [] Here.s = "until" -> IF Truthy(v) THEN To(prog, blocks.around[prog.pc] + 1) ELSE NextLine
         [] Here.s \in {"if", "elseif"} /\ ~ Truthy(v) ->
              LET next == After(blocks.ends[prog.pc])
              IN To(prog, IF IsAt(next, {"else", "elseif"}) THEN next ELSE blocks.ends[prog.pc] + 1)
         [] OTHER -> To(prog, IF Truthy(v) THEN prog.pc + 1 ELSE blocks.ends[prog.pc] + 1))
ProgCall ==
  /\ Before({"call"}) /\ Still
  /\ With(IF Calls(Here.e) THEN Here.e ELSE App("args", Here.e.a), LAMBDA v :
       CASE Calls(Here.e) -> NextLine
         [] Here.e.f = "throw" -> Leave(Completion("throw", 0, v.a[1]), prog)
         [] Here.e.f = "abort" \/ (Here.e.f = "assert" /\ ~ Truthy(v.a[1])) -> Ends(prog, "fault", Missing)
         [] OTHER -> [NextLine EXCEPT !.heap = Mutate(Here.e.f, v.a, @)])
ProgReturn ==
  /\ Before({"return"}) /\ Still
  /\ With(IF Here.es = <<>> THEN Null ELSE Here.es[1], LAMBDA v :
       Leave(Completion("return", 0, IF Here.es = <<>> THEN Missing ELSE v), prog))
ProgTransfer ==
  /\ Before({"goto", "leave", "break", "continue"}) /\ Still /\ UNCHANGED event
  /\ prog' = Leave(IF Here.s \in {"goto", "leave"} THEN Completion("goto", Here.l, Missing)
                   ELSE Completion(Here.s, 0, Missing), prog)
ProgSwitch ==
  /\ Before({"switch"}) /\ Still
  /\ With(Here.e, LAMBDA v :
       LET own == {k \in DOMAIN Out : blocks.around[k] = prog.pc}
           chosen == FirstOf({k \in own : Out[k].s = "case" /\ Apply("==", <<v, Out[k].e>>, prog.heap) = Bool(TRUE)})
           default == FirstOf({k \in own : Out[k].s = "default"})
       IN To(prog, IF chosen # 0 THEN chosen + 1 ELSE IF default # 0 THEN default + 1 ELSE blocks.ends[prog.pc] + 1))
ProgEnter ==
  /\ Before({"do", "loop", "try", "else", "label", "note"}) /\ Still /\ UNCHANGED event
  /\ prog' = NextLine

(* The closing brace of a block.                                           *)
ProgClose ==
  /\ Before({"close"}) /\ Still /\ UNCHANGED event
  /\ LET j == blocks.around[prog.pc]
         kind == IF j = 0 THEN "none" ELSE Out[j].s
         owing == [prog EXCEPT !.owed = Tail(@)]
         how == Head(prog.owed)
     IN prog' = CASE kind \in {"if", "elseif"} -> To(prog, PastChain(prog.pc, {"else", "elseif"}))
                  [] kind \in {"while", "loop"} -> To(prog, j)
                  [] kind = "for" -> [prog EXCEPT !.pc = j, !.mode = "inc"]
                  [] kind \in {"try", "catch"} ->
                       IF FinallyOf(j) = 0 THEN To(prog, PastChain(prog.pc, {"catch"}))
                       ELSE [To(prog, FinallyOf(j) + 1) EXCEPT !.owed = <<Completion("normal", 0, Missing)>> \o @]
                  [] kind \in {"case", "default"} -> To(prog, blocks.ends[blocks.around[j]] + 1)
                  [] kind = "finally" ->
                       IF how.k = "normal" THEN To(owing, prog.pc + 1)
                       ELSE S!Apply(Leaving, [i |-> j, how |-> how, p |-> owing])
                  [] OTHER -> NextLine
ProgFallOff ==
  /\ ProgTurn /\ prog.pc > Len(Out) /\ Still /\ UNCHANGED event
  /\ prog' = Ends(prog, "return", Missing)

(* The end: the result and the static fields are compared.                 *)
ProgEnd ==
  /\ phase = "done" /\ event # NoEvent /\ prog.status \in {"return", "throw", "fault", "lost"} /\ Still
  /\ LET result == IF prog.exc = Missing THEN <<>> ELSE <<Deep(prog.exc, prog.heap)>>
         Static(k) == LET x == Name("static", Statics[k]) IN IF x \in DOMAIN prog.vars THEN prog.vars[x] ELSE Null
         did == CASE prog.status = "return" -> Event("return", 0, result \o [k \in DOMAIN Statics |-> Static(k)], Missing)
                  [] OTHER -> Event(prog.status, 0, result, Missing)
     IN prog' = [prog EXCEPT !.status = IF event = did THEN "ended" ELSE "wrong"]
  /\ event' = NoEvent

-----------------------------------------------------------------------------
Idle == [status |-> "idle"]
RunInit == Init /\ vm = Idle /\ prog = Idle /\ event = NoEvent /\ blocks = Idle

Start ==
  /\ phase = "done" /\ vm = Idle /\ UNCHANGED <<emitVars, event>>
  /\ \E args \in [0 .. method.params - 1 -> Inputs] :
       LET started == Started(args)
       IN /\ vm' = [pc |-> 1, stack |-> [k \in 1 .. method.params |-> args[method.params - k]],
                    slots |-> started, tries |-> <<>>, heap |-> <<>>, steps |-> 0, status |-> "running"]
          /\ prog' = [pc |-> 1, mode |-> "run", vars |-> [x \in ArgNames |-> args[x.n]], heap |-> <<>>,
                      owed |-> <<>>, exc |-> Missing, status |-> "running"]
  /\ \E table \in {Blocks(Out)} : blocks' = table

VmNext ==
  \/ VmPush \/ VmMath \/ VmStackOp \/ VmSlotOp \/ VmCollection
  \/ (\E r \in Results : VmCall(r)) \/ VmRaise \/ VmJump \/ VmTry \/ VmRethrow \/ VmExit
ProgNext ==
  \/ ProgAssign \/ ProgForStep \/ ProgTest \/ ProgSwitch \/ ProgCall \/ ProgReturn \/ ProgTransfer
  \/ ProgEnter \/ ProgClose \/ ProgFallOff \/ ProgEnd
Next == ((LiftNext \/ PassNext \/ SwitchNext) /\ UNCHANGED runVars) \/ Start \/ VmNext \/ ProgNext
Spec == RunInit /\ [][Next]_vars /\ WF_vars(ProgNext)

-----------------------------------------------------------------------------
(* Properties.                                                             *)
Passing == phase \notin {"advance", "emit", "skipped"}

(* Braces match in the lines finish starts from and after each pass: the   *)
(* passes find blocks by counting braces, and finish clamps the closers it *)
(* flushes so as not to unbalance the output (core.rs).                    *)
BracesBalance ==
  Passing => /\ OpenDepth(em.out) = 0
             /\ \A k \in DOMAIN em.out : OpenDepth(SubSeq(em.out, 1, k)) >= 0

(* The lines do what the method does: the same calls with the same         *)
(* arguments in the same order, the same end, for every outcome of every   *)
(* call and every argument.                                                *)
LiftedSimulatesMethod == prog.status # "wrong"

(* The lines never run on without an event the method is waiting for.      *)
ProgramAnswers == (event # NoEvent) ~> (event = NoEvent \/ prog.status = "wrong")
====
