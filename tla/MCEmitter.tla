----------------------------- MODULE MCEmitter -----------------------------
(***************************************************************************)
(* Methods for the high-level emitter.  The targets of jumps and handlers  *)
(* are written as positions; Method makes them relative as in the byte     *)
(* code.                                                                   *)
(***************************************************************************)
EXTENDS EmitterExecution

I4(op, n, m, f) == [op |-> op, n |-> n, m |-> m, f |-> f]
X(op) == I4(op, 0, 0, "")
N(op, n) == I4(op, n, 0, "")
Push_(k, n) == I4("push", n, 0, k)
P(n) == Push_("int", n)
Ld(k, n) == I4("load", n, 0, k)
St(k, n) == I4("store", n, 0, k)
Bin(f) == I4("binary", 2, 0, f)
Fn(f, n) == I4("intrinsic", n, 0, f)
Do_(f, n) == I4("effect", n, 0, f)
Cmp(f, to) == I4("jmpcmp", to, 0, f)
TryAt(c, f) == I4("try", c, f, "")
InitSlot(l, a) == I4("initslot", l, a, "")
Sys(n) == N("syscall", n)
Ret == X("ret")

Jumps == {"jmp", "jmpif", "jmpifnot", "jmpcmp", "endtry"}
Relative(code) ==
  [o \in DOMAIN code |->
     CASE code[o].op \in Jumps -> [code[o] EXCEPT !.n = @ - o]
       [] code[o].op = "try" -> [code[o] EXCEPT !.n = IF @ = 0 THEN 0 ELSE @ - o, !.m = IF @ = 0 THEN 0 ELSE @ - o]
       [] OTHER -> code[o]]
Fun(params, code) == [code |-> Relative(code), params |-> params, void |-> FALSE]
Proc(params, code) == [code |-> Relative(code), params |-> params, void |-> TRUE]

-----------------------------------------------------------------------------
(* Branches: the arms leave a value, store one, are nested, are empty,     *)
(* or return.                                                              *)
Choice(op) == Fun(1, <<InitSlot(0, 1), Ld("arg", 0), N(op, 6), P(1), N("jmp", 7), P(2), Ret>>)
ChoiceDeep == Fun(1, <<InitSlot(0, 1), P(7), Ld("arg", 0), N("jmpifnot", 8), Sys(2), X("nz"), N("jmp", 9), P(2), Bin("+"), Ret>>)
Compare(op) ==
  Fun(2, <<InitSlot(1, 2), P(5), St("loc", 0), Ld("arg", 0), Ld("arg", 1), Cmp(op, 9), Sys(3), N("jmp", 11), P(6), St("loc", 0),
           Ld("loc", 0), Ret>>)
EarlyReturn == Fun(1, <<InitSlot(0, 1), Ld("arg", 0), N("jmpifnot", 6), P(4), Ret, Sys(3), P(5), Ret>>)
EmptyThen == Proc(1, <<InitSlot(0, 1), Ld("arg", 0), N("jmpifnot", 5), N("jmp", 6), Sys(3), Ret>>)
Guard == Proc(2, <<InitSlot(0, 2), Ld("arg", 0), N("jmpifnot", 8), Ld("arg", 1), N("jmpifnot", 8), Sys(3), X("nop"), Sys(4), Ret>>)
CrossingJumps ==
  Proc(2, <<InitSlot(0, 2), Ld("arg", 0), N("jmpif", 7), Ld("arg", 1), N("jmpif", 9), Sys(3), Sys(4), N("jmp", 10), Sys(5), Ret>>)

(* Loops: tested first, tested last, entered at the test, endless, left    *)
(* from the middle.                                                        *)
WhileLess ==
  Proc(1, <<InitSlot(1, 1), P(0), St("loc", 0), Ld("loc", 0), Ld("arg", 0), Bin("<"), N("jmpifnot", 14),
            Ld("loc", 0), Sys(1), Ld("loc", 0), X("inc"), St("loc", 0), N("jmp", 4), Ret>>)
ForLoop(op) ==
  Proc(1, <<InitSlot(1, 1), P(0), St("loc", 0), N("jmp", 11), Ld("loc", 0), Sys(1), Ld("loc", 0), P(1), Bin(op), St("loc", 0),
            Ld("loc", 0), Ld("arg", 0), Bin("<"), N("jmpif", 5), Ret>>)
DoWhile == Proc(0, <<Sys(3), Sys(2), N("jmpif", 1), Ret>>)
DoWhileCompare ==
  Proc(1, <<InitSlot(1, 1), P(0), St("loc", 0), Ld("loc", 0), X("inc"), St("loc", 0), Ld("loc", 0), Ld("arg", 0), Cmp("<", 4), Ret>>)
Forever == Proc(0, <<Sys(3), N("jmp", 1)>>)

WhileBreak ==
  Proc(1, <<InitSlot(1, 1), P(0), St("loc", 0), Ld("loc", 0), Ld("arg", 0), Bin("<"), N("jmpifnot", 17),
            Sys(2), N("jmpifnot", 11), N("jmp", 17), Ld("loc", 0), X("inc"), St("loc", 0), Ld("loc", 0), Sys(1), N("jmp", 4), Ret>>)
WhileContinue ==
  Proc(1, <<InitSlot(1, 1), P(0), St("loc", 0), Ld("loc", 0), Ld("arg", 0), Bin("<"), N("jmpifnot", 16),
            Ld("loc", 0), X("inc"), St("loc", 0), Sys(2), N("jmpif", 15), Ld("loc", 0), Sys(1), N("jmp", 4), Ret>>)
NestedLoop ==
  Proc(1, <<InitSlot(2, 1), P(0), St("loc", 0), Ld("loc", 0), Ld("arg", 0), Bin("<"), N("jmpifnot", 23),
            P(0), St("loc", 1), Ld("loc", 1), Ld("loc", 0), Bin("<"), N("jmpifnot", 19),
            Sys(3), Ld("loc", 1), X("inc"), St("loc", 1), N("jmp", 10),
            Ld("loc", 0), X("inc"), St("loc", 0), N("jmp", 4), Ret>>)

(* try statements.                                                         *)
TryCatch == Proc(0, <<TryAt(4, 0), Sys(3), N("endtry", 7), X("drop"), Sys(4), N("endtry", 7), Ret>>)
TryFinally == Proc(0, <<TryAt(0, 4), Sys(3), N("endtry", 6), Sys(4), X("endfinally"), Ret>>)
TryAll ==
  Proc(1, <<InitSlot(0, 1), TryAt(7, 10), Sys(3), Ld("arg", 0), N("throw", 1), N("endtry", 12), X("drop"), Sys(4), N("endtry", 12),
            Sys(5), X("endfinally"), Ret>>)
LoopInTry == Proc(0, <<TryAt(6, 0), Sys(3), Sys(2), N("jmpif", 2), N("endtry", 8), X("drop"), N("endtry", 8), Ret>>)

TryInLoop ==
  Proc(1, <<InitSlot(1, 1), P(0), St("loc", 0), Ld("loc", 0), Ld("arg", 0), Bin("<"), N("jmpifnot", 18),
            TryAt(11, 0), Sys(3), N("endtry", 14), X("drop"), Sys(4), N("endtry", 14), Ld("loc", 0), X("inc"), St("loc", 0), N("jmp", 4), Ret>>)
NestedTry ==
  Proc(0, <<TryAt(8, 0), TryAt(0, 5), Sys(3), N("endtry", 7), Sys(4), X("endfinally"), N("endtry", 10), X("drop"), N("endtry", 10), Ret>>)
ReturnInTry == Fun(0, <<TryAt(0, 5), Sys(2), St("loc", 0), N("endtry", 7), Sys(4), X("endfinally"), Ld("loc", 0), Ret>>)
BadHandler == Proc(0, <<TryAt(20, 0), P(1), X("drop"), N("endtry", 5), Sys(3), Ret>>)
IfTrue == Proc(0, <<Push_("bool", 1), N("jmpifnot", 4), Sys(3), Ret>>)
IfBool(op) == Proc(1, <<InitSlot(0, 1), Ld("arg", 0), X("nz"), N(op, 6), Sys(3), Sys(4), Ret>>)
StaticFields == Proc(1, <<InitSlot(0, 1), Ld("arg", 0), N("jmpifnot", 6), P(1), St("static", 0), Ld("static", 0), X("inc"), St("static", 1), Ret>>)
NoReturn == Proc(0, <<Sys(3)>>)
Shared == Fun(1, <<InitSlot(1, 1), Ld("arg", 0), X("inc"), X("dup"), St("loc", 0), Sys(1), Ld("loc", 0), Ret>>)
Settle ==
  Fun(1, <<InitSlot(1, 1), Ld("arg", 0), St("loc", 0), Ld("loc", 0), P(2), Bin("!="), N("jmpifnot", 11), P(2), St("loc", 0), N("jmp", 4),
           Ld("loc", 0), Ret>>)
Arguments2 == Fun(2, <<Bin("-"), Ret>>)

(* Straight code: the stack, slots, collections, calls.                    *)
Stack3(op) == Fun(0, <<P(1), P(2), P(3), P(4), X(op), Bin("-"), Bin("*"), Ret>>)
Indexed(op, n) == Fun(0, <<P(1), P(2), P(3), P(n), X(op), Bin("-"), Ret>>)
Arith(f) == Fun(2, <<InitSlot(0, 2), Ld("arg", 0), Ld("arg", 1), Bin(f), X("dup"), Bin("*"), X("dec"), Ret>>)
Unused(f) == Fun(2, <<InitSlot(0, 2), Ld("arg", 0), Ld("arg", 1), Bin(f), X("drop"), Ld("arg", 0), Ret>>)
PackUnpack ==
  Fun(0, <<P(4), P(5), P(2), I4("pack", 0, 0, "array"), St("loc", 0), Ld("loc", 0), X("unpack"), X("drop"), Bin("-"), Ret>>)
PackDeep == Fun(0, <<P(1), P(2), P(3), P(4), P(4), I4("pack", 0, 0, "array"), P(0), Fn("index", 2), Ret>>)
Appending ==
  Fun(1, <<InitSlot(1, 1), I4("empty", 0, 0, "array"), X("dup"), St("loc", 0), Ld("arg", 0), Do_("append", 2), Ld("loc", 0), Fn("len", 1),
           St("static", 0), Ld("loc", 0), Ret>>)
CallsAll ==
  Fun(1, <<InitSlot(0, 1), Ld("arg", 0), P(3), N("call", 40), Push_("ptr", 46), N("calla", 0), N("callt", 1), Sys(1), Sys(2), Ret>>)
TailCalling == Fun(1, <<InitSlot(0, 1), P(2), Ld("arg", 0), N("jmp", 41)>>)
Asserts == Proc(1, <<InitSlot(0, 1), Ld("arg", 0), N("assert", 1), Ld("arg", 0), X("not"), N("jmpifnot", 8), N("abort", 0), Ret>>)

(* Statements inside statements; jumps are relative, so blocks compose.    *)
Then(c, a) == c \o <<N("jmpifnot", Len(a) + 1)>> \o a
ThenElse(c, a, b) == c \o <<N("jmpifnot", Len(a) + 2)>> \o a \o <<N("jmp", Len(b) + 1)>> \o b
While_(c, a) == c \o <<N("jmpifnot", Len(a) + 2)>> \o a \o <<N("jmp", -(Len(c) + Len(a) + 1))>>
DoWhile_(a, c) == a \o c \o <<N("jmpif", -(Len(a) + Len(c)))>>
TryCatch_(a, b) == <<TryAt(Len(a) + 2, 0)>> \o a \o <<N("endtry", Len(b) + 3), X("drop")>> \o b \o <<N("endtry", 1)>>
TryFinally_(a, b) == <<TryAt(0, Len(a) + 2)>> \o a \o <<N("endtry", Len(b) + 2)>> \o b \o <<X("endfinally")>>
Arg0 == <<Ld("arg", 0)>>
Next_(k) == <<Ld("loc", k), X("inc"), St("loc", k)>>
Below(k) == <<Ld("loc", k), P(2), Bin("<")>>
Zero(k) == <<P(0), St("loc", k)>>
Statements(a) ==
  [then |-> Then(Arg0, a), both |-> ThenElse(Arg0, a, <<Sys(5)>>), other |-> ThenElse(Arg0, <<Sys(5)>>, a),
   while |-> Zero(1) \o While_(Below(1), a \o Next_(1)),
   dowhile |-> DoWhile_(a, <<Sys(2)>>),
   try |-> TryCatch_(a, <<Sys(5)>>), catch |-> TryCatch_(<<Sys(5)>>, a),
   guarded |-> TryFinally_(a, <<Sys(5)>>), finally |-> TryFinally_(<<Sys(5)>>, a)]
Nested(outer, inner, v) ==
  LET body == Statements(<<Sys(3)>>)[inner] \o IF v THEN <<Sys(4)>> ELSE <<>>
  IN [code |-> <<InitSlot(2, 1)>> \o Statements(body)[outer] \o <<Ret>>, params |-> 1, void |-> TRUE]

Outer == {"then", "both", "other", "while", "dowhile", "try", "catch", "guarded", "finally"}
Inner == {"both", "while", "try", "guarded"}
(* An else that starts with an if, and a finally in a finally, are lifted  *)
(* wrongly.                                                                *)
NestedMethods ==
  {Nested(outer, inner, TRUE) : <<outer, inner>> \in (Outer \X Inner) \ {<<"other", "both">>, <<"finally", "guarded">>}}

(* Comparisons of a local with literals: guarded gotos as compilers write  *)
(* a switch, a chain, one behind the other with something in between.      *)
Is_(n) == <<Ld("loc", 0), P(n), Bin("==")>>
Local(code) == [code |-> <<InitSlot(2, 1), Ld("arg", 0), St("loc", 0)>> \o code \o <<Ret>>, params |-> 1, void |-> TRUE]
Guarding(a, b, c) ==
  LET rest == a \o <<N("jmp", Len(b) + Len(c) + 2)>> \o b \o <<N("jmp", Len(c) + 1)>> \o c
      second == Is_(1) \o <<N("jmpif", Len(a) + 3), N("jmp", Len(a) + Len(b) + 3)>>
  IN Local(Is_(0) \o <<N("jmpif", Len(second) + 1)>> \o second \o rest)
Chained(a, b, c) == Local(ThenElse(Is_(0), a, ThenElse(Is_(1), b, c)))
Siblings(a, between) == Local(Then(Is_(0), a) \o Then(Is_(1), <<Sys(4)>>) \o between \o Then(Is_(2), <<Sys(5)>>))
Prelude(a) == Local(ThenElse(Is_(0), <<Sys(3)>>, a \o Then(Is_(1), <<Sys(4)>>)))
SwitchMethods ==
  {Guarding(<<Sys(3)>>, <<Sys(4)>>, <<Sys(5)>>), Guarding(<<Sys(3), Ret>>, <<Sys(4)>>, <<Sys(5)>>),
   Chained(<<Sys(3)>>, <<Sys(4)>>, <<Sys(5)>>), Chained(<<P(1), St("loc", 0)>>, <<Sys(4)>>, <<Sys(5)>>),
   Siblings(<<Sys(3)>>, <<>>), Siblings(<<Sys(3), Ret>>, <<>>), Siblings(<<P(1), St("loc", 0)>>, <<>>),
   Siblings(<<Sys(3)>>, <<Sys(3)>>), Siblings(<<Sys(3)>>, <<Sys(2), X("drop")>>),
   Siblings(<<Sys(3)>>, <<P(2), St("loc", 0)>>), Prelude(<<>>)}

SmallMethods == NestedMethods \cup SwitchMethods \cup
  {Choice("jmpif"), Choice("jmpifnot"), ChoiceDeep, Compare("<"), Compare("=="), EarlyReturn, EmptyThen, Guard, IfTrue, IfBool("jmpif"), IfBool("jmpifnot"), CrossingJumps,
   WhileLess, ForLoop("+"), DoWhile, DoWhileCompare, Forever, WhileBreak, WhileContinue, NestedLoop,
   TryCatch, TryFinally, TryAll, LoopInTry, TryInLoop, NestedTry, ReturnInTry, BadHandler, NoReturn, Shared, Settle, StaticFields, Arguments2,
   Stack3("swap"), Stack3("rot"), Stack3("reverse3"), Stack3("tuck"), Stack3("over"), Stack3("nip"),
   Indexed("pick", 1), Indexed("roll", 2), Indexed("xdrop", 1), Indexed("reversen", 3),
   Arith("+"), Arith("/"), Unused("+"), PackUnpack, PackDeep, Appending, CallsAll, TailCalling, Asserts}
AllOptions == [trace : BOOLEAN, inline : BOOLEAN]
Known(label, params, returns) == [label |-> label, params |-> params, returns |-> returns]
SmallCallees == (40 :> Known("m40", 2, TRUE)) @@ (41 :> Known("m41", 2, TRUE)) @@ (50 :> Known("m50", 1, TRUE))
Takes(params, returns) == [params |-> params, returns |-> returns]
SmallSyscalls == <<Takes(1, FALSE), Takes(0, TRUE), Takes(0, FALSE), Takes(0, FALSE), Takes(0, FALSE)>>
SmallTokens == <<Takes(1, TRUE)>>
SmallInputs == {Num(0), Num(1), Num(2)}
SmallResults == {Bool(TRUE), Bool(FALSE), Raise}
====
