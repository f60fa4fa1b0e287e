------------------------------- MODULE MCSsa -------------------------------
(***************************************************************************)
(* Methods for SsaExecution: branches, loops, and a try with a catch,      *)
(* filled with short pieces of code.                                       *)
(***************************************************************************)
EXTENDS SsaExecution

Loc == <<"loc", 0>>
Sta == <<"static", 0>>
MCSlots == {Loc, Sta, <<"arg", 0>>, <<"arg", 1>>}

I(op) == <<[op |-> op]>>
Take(n) == <<[op |-> "compute", n |-> n]>>
Use(n) == <<[op |-> "consume", n |-> n]>>
Push == Take(0)
Load(slot) == <<[op |-> "load", slot |-> slot]>>
Store(slot) == <<[op |-> "store", slot |-> slot]>>
Assign(slot) == Push \o Store(slot)
Initslot == <<[op |-> "initslot", n |-> 1]>>

Edges(pairs) == {<<e[1], e[2], "Normal">> : e \in pairs}

\* A method without arguments and without a try.
Plain(code, pairs) ==
    [code |-> code, edges |-> Edges(pairs), args |-> 0, onStack |-> FALSE,
     handler |-> [b \in DOMAIN code |-> 0]]

\* if / else, both arms joining in block 4.
Diamond(head, then, else, tail) ==
    Plain(<<head \o Push \o I("branch"), then, else, tail>>,
          {<<1, 2>>, <<1, 3>>, <<2, 4>>, <<3, 4>>})

\* while, with the condition in block 2 and the body in block 3.
Loop(head, cond, body, tail) ==
    Plain(<<head, cond \o Push \o I("branch"), body, tail>>,
          {<<1, 2>>, <<2, 3>>, <<3, 2>>, <<2, 4>>})

\* Two joins in a row: what the first merges, the second merges again.
TwoDiamonds(then, arm, tail) ==
    Plain(<<Push \o I("branch"), then, <<>>, Push \o I("branch"), arm, tail>>,
          {<<1, 2>>, <<1, 3>>, <<2, 4>>, <<3, 4>>, <<4, 5>>, <<4, 6>>, <<5, 6>>})

\* The entry block is the loop; arguments in slots or on the stack.
EntryLoop(body, tail, args, onStack) ==
    [Plain(<<body \o Push \o I("branch"), tail>>, {<<1, 1>>, <<1, 2>>})
        EXCEPT !.args = args, !.onStack = onStack]

\* try in block 2, catch in block 3.
Try(head, body, handler, tail) ==
    [code |-> <<head, body, handler, tail>>,
     edges |-> Edges({<<1, 2>>, <<2, 4>>, <<3, 4>>}) \cup {<<1, 3, "Exception">>},
     args |-> 0, onStack |-> FALSE, handler |-> <<0, 3, 0, 0>>]

Arms == {<<>>, Push, I("drop"), I("dup"), I("swap"), I("tuck"), Push \o Push,
         Assign(Loc), Load(Loc) \o Store(Loc)}

Tails == {Take(2) \o I("ret"), Load(Loc) \o I("ret"), I("rot") \o Use(2) \o I("ret")}

Heads == {Push \o Push, Initslot \o Push \o Push, Push \o Assign(Loc) \o Push}

Branching == {Diamond(h, a, b, t) : h \in Heads, a \in Arms, b \in Arms, t \in Tails}

Balanced == {<<>>, I("swap"), I("dup") \o I("nip"), I("over") \o Use(1), Assign(Loc),
             Load(Loc) \o Use(1), I("drop") \o Load(Loc), I("drop") \o I("depth"),
             Push \o I("reverse3") \o Use(1)}

Looping == {Loop(h, c, b, t) : h \in Heads, c \in Balanced, b \in Balanced, t \in Tails}
           \cup {Loop(<<>>, <<>>, Assign(Sta), Load(Sta) \o I("ret")),
                 Loop(<<>>, Load(Sta) \o Use(1), Assign(Sta), Load(Sta) \o I("ret"))}

Sequenced == {TwoDiamonds(a, b, t) : a \in {Push, Assign(Loc)},
                                     b \in {<<>>, Assign(Loc), I("drop") \o Push},
                                     t \in {Use(1), Load(Loc) \o I("ret")}}

Entering == {EntryLoop(b, t, 2, onStack) :
                b \in {<<>>, Assign(<<"arg", 0>>), I("drop") \o Push, Load(<<"arg", 0>>) \o Use(1)},
                t \in {I("ret"), Take(2) \o I("ret"), Load(<<"arg", 0>>) \o I("ret")},
                onStack \in BOOLEAN}

\* The body of the try leaves the slots alone.
Catching == {Try(Initslot \o h, b, c, t) : h \in {<<>>, Push, Assign(Loc)},
                b \in {Push, Push \o Use(1)},
                c \in {<<>>, Assign(Loc), Store(Loc), Load(Loc)},
                t \in {I("ret"), Load(Loc) \o I("ret")}}

\* A static in the arms, which the method has loaded or stored before: one whose
\* first mention is a store in an arm takes version 0, which the join also takes
\* for the value on entry (see SingleAssignment).
Shared == {Diamond(h \o Push \o Push, a, b, t) :
              h \in {Load(Sta) \o Use(1), Assign(Sta)},
              a \in {<<>>, Push, Assign(Sta), Store(Sta), Load(Sta)},
              b \in {<<>>, Assign(Sta), Load(Sta) \o Store(Sta)},
              t \in {Load(Sta) \o I("ret"), Take(2) \o Store(Sta) \o I("ret")}}

MCMethods == Branching \cup Looping \cup Sequenced \cup Entering \cup Catching
             \cup Shared

=============================================================================
