------------------------------- MODULE MCCfg -------------------------------
(***************************************************************************)
(* Methods for CfgExecution, built like compiled code: statements nested   *)
(* two deep, each a position-independent fragment.                         *)
(***************************************************************************)
EXTENDS CfgExecution

I(op, delta) == [op |-> op, delta |-> delta, catch |-> 0, finally |-> 0]

Try(catch, finally) ==
    [op |-> "try", delta |-> 0, catch |-> catch, finally |-> finally]

If(body) == <<I("jmpifnot", Len(body) + 1)>> \o body

IfElse(then, else) ==
    <<I("jmpif", Len(else) + 2)>> \o else \o <<I("jmp", Len(then) + 1)>> \o then

DoWhile(body) == body \o <<I("jmpif", 0 - Len(body))>>

TryCatch(body, catch) ==
    <<Try(Len(body) + 2, 0)>> \o body \o <<I("endtry", Len(catch) + 2)>>
        \o catch \o <<I("endtry", 1)>>

TryFinally(body, finally) ==
    <<Try(0, Len(body) + 2)>> \o body \o <<I("endtry", Len(finally) + 2)>>
        \o finally \o <<I("endfinally", 0)>>

TryCatchFinally(body, catch, finally) ==
    <<Try(Len(body) + 2, Len(body) + Len(catch) + 3)>> \o body
        \o <<I("endtry", Len(catch) + Len(finally) + 3)>> \o catch
        \o <<I("endtry", Len(finally) + 2)>> \o finally \o <<I("endfinally", 0)>>

Simple == {<<I(op, 0)>> : op \in {"plain", "throw", "noreturn"}}

Plain == <<I("plain", 0)>>

\* A statement whose parts come from `bodies`.
Statements(bodies) ==
    {If(b) : b \in bodies} \cup {DoWhile(b) : b \in bodies}
    \cup {IfElse(b, Plain) : b \in bodies}
    \cup {TryCatch(b, c) : b \in bodies, c \in Simple}
    \cup {TryCatch(Plain, c) : c \in bodies}
    \cup {TryFinally(b, f) : b \in bodies, f \in Simple}
    \cup {TryFinally(Plain, f) : f \in bodies}
    \cup {TryCatchFinally(b, c, Plain) : b \in bodies, c \in Simple}
    \cup {TryCatchFinally(Plain, c, Plain) : c \in bodies}
    \cup {TryCatchFinally(Plain, Plain, f) : f \in bodies}

Nested == Statements(Simple \cup Statements(Simple \cup {<<I("ret", 0)>>}))

\* A `return` inside a try body: a conditional ENDTRY to the final return of
\* the method, past the statement's own continuation.
LeavingBody(distance) == <<I("jmpifnot", 2), I("endtry", distance)>>

Leaving ==
    {TryFinally(LeavingBody(Len(f) + 4), f) \o Plain : f \in Simple}
    \cup {TryCatch(LeavingBody(Len(c) + 4), c) \o Plain : c \in Simple}
    \cup {TryCatchFinally(LeavingBody(Len(c) + 6), c, Plain) \o Plain : c \in Simple}

\* The same from two finally blocks deep: the inner ENDTRY goes to an ENDTRY of
\* the outer try, which goes to the final return.
LeavingTwice ==
    {<<Try(0, 9)>> \o <<Try(0, 4)>> \o LeavingBody(5) \o <<I("endtry", 3)>>
        \o Plain \o <<I("endfinally", 0)>> \o <<I("endtry", 4), I("endtry", 4)>>
        \o Plain \o <<I("endfinally", 0)>> \o Plain}

\* Jumps out of the method.
Invalid == {<<I(op, 9)>> : op \in {"jmp", "endtry"}}

\* The methods of the passing run end with a return or an abort.
Methods == {s \o <<I("ret", 0)>> :
                s \in Nested \cup Leaving \cup LeavingTwice \cup Invalid}
           \cup {s \o Plain \o <<I("abort", 0)>> : s \in Statements(Simple)}

\* The proofs about CfgExecution assume the same of every method.
ASSUME MethodsLand == BranchesLand
ASSUME MethodsNest == TriesNest

=============================================================================
