----------------------------- MODULE MCStructure -----------------------------
(***************************************************************************)
(* Methods for StructureExecution, laid out as compilers lay them out:     *)
(* statements nested two deep, each a position-independent fragment.       *)
(***************************************************************************)
EXTENDS StructureExecution

I(op, delta) == [op |-> op, delta |-> delta, catch |-> 0, finally |-> 0]
TryAt(catch, finally) == [op |-> "try", delta |-> 0, catch |-> catch, finally |-> finally]

Plain == <<I("plain", 0)>>

IfThen(body) == <<I("jmpifnot", Len(body) + 1)>> \o body
IfThenElse(then, else) ==
  <<I("jmpif", Len(else) + 2)>> \o else \o <<I("jmp", Len(then) + 1)>> \o then
(* test first, test last, no test                                          *)
WhileDo(body) == <<I("jmpifnot", Len(body) + 2)>> \o body \o <<I("jmp", 0 - Len(body) - 1)>>
WhileEval(body) == Plain \o <<I("jmpifnot", Len(body) + 2)>> \o body \o <<I("jmp", 0 - Len(body) - 2)>>
RepeatWhile(body) == body \o <<I("jmpif", 0 - Len(body))>>
Loop(body) == body \o <<I("jmp", 0 - Len(body))>>
TwoCases(a, b) ==
  <<I("jmpif", Len(b) + 4), I("jmpif", 2), I("jmp", Len(b) + Len(a) + 2)>> \o b
     \o <<I("jmp", Len(a) + 1)>> \o a
TryThenCatch(body, catch) ==
  <<TryAt(Len(body) + 2, 0)>> \o body \o <<I("endtry", Len(catch) + 2)>>
     \o catch \o <<I("endtry", 1)>>
TryThenFinally(body, finally) ==
  <<TryAt(0, Len(body) + 2)>> \o body \o <<I("endtry", Len(finally) + 2)>>
     \o finally \o <<I("endfinally", 0)>>
TryCatchThenFinally(body, catch, finally) ==
  <<TryAt(Len(body) + 2, Len(body) + Len(catch) + 3)>> \o body
     \o <<I("endtry", Len(catch) + Len(finally) + 3)>> \o catch
     \o <<I("endtry", Len(finally) + 2)>> \o finally \o <<I("endfinally", 0)>>
(* if (..) break; and if (..) continue; inside a loop                      *)
WhileBreak(body) ==
  <<I("jmpifnot", Len(body) + 3), I("jmpif", Len(body) + 2)>> \o body
    \o <<I("jmp", 0 - Len(body) - 2)>>
WhileContinue(body) ==
  <<I("jmpifnot", Len(body) + 4)>> \o Plain \o <<I("jmpif", 0 - 2)>> \o body
    \o <<I("jmp", 0 - Len(body) - 3)>>

(* leaving a try for a return that is not what follows its finally         *)
TryThenReturn(body, finally) ==
  <<TryAt(0, Len(body) + 2)>> \o body \o <<I("endtry", Len(finally) + 3)>> \o finally
     \o <<I("endfinally", 0)>> \o Plain
TryCatchThenReturn(body, catch) ==
  <<TryAt(Len(body) + 2, 0)>> \o body \o <<I("endtry", Len(catch) + 3)>> \o catch
     \o <<I("endtry", 2)>> \o Plain
(* and for what follows the loop around it                                 *)
WhileTryBreak(body, catch) ==
  <<I("jmpifnot", Len(body) + Len(catch) + 5), TryAt(Len(body) + 2, 0)>> \o body
     \o <<I("endtry", Len(catch) + 3)>> \o catch
     \o <<I("endtry", 1), I("jmp", 0 - Len(body) - Len(catch) - 4)>>

Conditionals(bodies) ==
  {IfThen(b) : b \in bodies} \cup {IfThenElse(b, Plain) : b \in bodies}
  \cup {WhileDo(b) : b \in bodies}
TryStatements(bodies) ==
  {TryThenCatch(b \o Plain, Plain) : b \in bodies}
  \cup {TryThenCatch(Plain, b) : b \in bodies}
  \cup {TryThenFinally(b \o Plain, Plain) : b \in bodies}
  \cup {TryThenFinally(Plain, b) : b \in bodies}
  \cup {TryCatchThenFinally(b \o Plain, Plain, Plain) : b \in bodies}
TestedLast(bodies) ==
  {RepeatWhile(Plain \o WhileDo(b)) : b \in bodies}
  \cup {RepeatWhile(TryThenCatch(b \o Plain, Plain)) : b \in bodies}
Transfers(bodies) ==
  {WhileBreak(b) : b \in bodies} \cup {WhileContinue(b) : b \in bodies}
  \cup {TwoCases(Plain, b) : b \in bodies} \cup {Loop(IfThenElse(Plain, b)) : b \in bodies}

(* Two entries into one loop, and more blocks than MaxStructuredBlocks.    *)
Irreducible == <<I("jmpif", 2)>> \o Plain \o Plain \o <<I("jmpif", 0 - 2)>>
Long == WhileDo(IfThenElse(Plain, Plain)) \o IfThen(Plain) \o WhileDo(IfThen(Plain)) \o Plain

Simple == {Plain}
Ending == {<<I("throw", 0)>>, <<I("abort", 0)>>, <<I("noreturn", 0)>>}
Returning(statements) == {s \o <<I("ret", 0)>> : s \in statements}
Nested == Conditionals(Simple) \cup TryStatements(Simple)

(* what the try is left for is also what follows the condition             *)
OrReturn == {IfThen(TryThenReturn(b, Plain)) \o after :
               b \in Simple \cup Conditionals(Simple), after \in {<<>>, Plain}}

WithPhis ==
  Returning(Conditionals(Nested \cup TestedLast(Simple) \cup Simple) \cup TryStatements(Nested \cup Simple)
            \cup TestedLast(Simple \cup Nested)
            \cup {TryThenReturn(b \o Plain, Plain) : b \in Nested}
            \cup {Plain \o TryThenReturn(b, Plain) : b \in Simple \cup Nested}
            \cup {Plain \o TryCatchThenReturn(b \o Plain, Plain) : b \in Simple \cup Conditionals(Simple)}
            \cup OrReturn)
WithoutPhis ==
  Returning(Transfers(Simple \cup Nested) \cup Conditionals(Transfers(Simple))
            \cup TryStatements(Transfers(Simple)) \cup TestedLast({WhileBreak(Plain), WhileContinue(Plain)})
            \cup {WhileEval(b) : b \in Simple \cup Nested}
            \cup {WhileTryBreak(b \o Plain, Plain) : b \in Conditionals(Simple)}
            \cup Conditionals(Ending) \cup TryStatements({IfThen(b) \o Plain : b \in Ending})
            \cup {Irreducible, Plain \o Irreducible, Long})
OpenReturns == Returning(OrReturn)
Methods == WithPhis \cup WithoutPhis

=============================================================================
