----------------------------- MODULE MCIrCleanup ----------------------------
(***************************************************************************)
(* Statements the structurer recovers from compiled methods: temporaries   *)
(* with a write between definition and use, branches that merge a value,   *)
(* array literals, wrapped arithmetic and counting loops.                  *)
(***************************************************************************)
EXTENDS IrExecution

loc0 == <<"loc0">>
loc1 == <<"loc1">>
list == <<"loc2">>
arg == Var(<<"arg0">>)
static == <<"static0">>
t(n) == <<"t", n>>
p(n) == <<"p0", n>>
Bin(f, x, y) == Op(f, <<x, y>>)
Plus1(x) == Bin("+", x, Num(1))
Invoke(name, a) == App("call", <<name>>, a)
Store(a, k, x) == Do(Op("setitem", <<Var(a), Num(k), x>>))
At(a, x) == Op("index", <<Var(a), x>>)
Positive(x) == Bin(">", x, Num(0))

(* A temporary, statements that may disturb it, and the place it is used.  *)
Start == <<Set(loc0, Num(2)), Set(list, Op("array", <<Num(1), arg>>))>>
Pure == {Plus1(arg), Plus1(Var(loc0)), At(list, Num(0)), Op("size", <<Var(list)>>), Invoke("f", <<>>)}
Between ==
  {<<>>, <<Set(loc0, Num(4))>>, <<Do(Invoke("g", <<Var(list)>>))>>, <<Store(list, 0, Num(2))>>,
   <<Do(Op("append", <<Var(list), Num(1)>>))>>, <<Do(Invoke("poke", <<>>))>>,
   <<IfThen(Positive(arg), <<Set(loc0, Num(5))>>)>>, <<Set(t(1), Num(9))>>, <<Set(static, Var(t(1)))>>,
   <<Set(t(2), Plus1(Var(loc0))), Set(loc0, Var(t(2)))>>}
Use ==
  {<<Return(Var(t(1)))>>,
   <<Set(loc0, Bin("+", Var(t(1)), Var(loc0))), Return(Var(loc0))>>,
   <<IfElse(Positive(arg), <<Set(loc0, Num(1)), Return(Var(t(1)))>>, <<Return(Var(loc0))>>)>>,
   <<Do(Invoke("h", <<Var(t(1))>>)), Return(At(list, Num(0)))>>,
   <<IfThen(Positive(arg), <<Store(list, 0, Num(2)), Return(Var(t(1)))>>), Return(Num(0))>>,
   <<Store(list, 0, Var(t(1))), Return(Var(list))>>}
Temporaries == {Start \o <<Set(t(1), v)>> \o m \o u : v \in Pure, m \in Between, u \in Use}
(* The branch the temporary decides rebinds what it was computed from.     *)
Guarded ==
  {Start \o <<Set(t(1), v)>> \o m
     \o <<IfElse(Bin(">", Var(t(1)), Num(3)), <<Set(loc0, Num(1))>>, <<Set(loc0, Num(0))>>), Return(Var(loc0))>> :
     v \in Pure, m \in Between}

(* A value merged over two branches.                                       *)
MergedValues == {Num(0), Plus1(arg), Invoke("f", <<>>), At(list, Num(1))}
MergedUse ==
  {<<Return(Var(p(0)))>>, <<Do(Invoke("g", <<Var(p(0))>>)), Return(Num(1))>>,
   <<IfElse(Var(p(0)), <<Return(Num(1))>>, <<Return(Num(2))>>)>>,
   <<Set(loc0, Bin("+", Var(p(0)), Var(p(0)))), Return(Var(loc0))>>,
   <<Set(static, Num(1)), Return(Var(p(0)))>>,
   <<Set(t(3), Var(p(0))), Set(p(1), Bin("+", Var(t(3)), Num(2))), Return(Var(p(1)))>>}
Merged(a, b) == IfElse(Positive(arg), <<Set(p(0), a)>>, <<Set(p(0), b)>>)
NestedMerge(a) ==
  IfElse(Positive(arg),
         <<IfElse(Bin("<", arg, Num(3)), <<Set(p(2), a)>>, <<Set(p(2), Num(7))>>), Set(p(0), Var(p(2)))>>,
         <<Set(p(0), Num(0))>>)
BranchMerges ==
  {Start \o <<Merged(a, b)>> \o u : a \in MergedValues, b \in {Num(1), Invoke("g", <<>>)}, u \in MergedUse}
    \cup {Start \o <<NestedMerge(a)>> \o u : a \in MergedValues, u \in MergedUse}

(* Casts, array literals and values nothing reads.                         *)
Cast2(a, b, x) == Cast(<<a>>, Cast(<<b>>, x))
CastsOf == {Cast2("byte", "byte", arg), Cast2("int", "dynamic", arg), Cast2("byte", "int", arg),
            Cast2("int", "byte", arg), Cast(<<"int">>, Num(3)), Cast(<<"byte">>, Num(3))}
Filled(new, n, a, b) ==
  <<Set(t(1), Op(new, <<Num(n)>>)), Store(t(1), 0, a), Store(t(1), 1, b), Return(Var(t(1)))>>
Bytes == {Num(1), Num(MaxByte + 1), Cast(<<"byte">>, arg), arg}
Objects == {Num(1), arg, Invoke("f", <<>>), Op("size", <<Var(t(1))>>)}
Unread == {Bin("/", Num(1), arg), Plus1(arg), Invoke("f", <<>>), At(list, arg), Op("size", <<Var(list)>>)}
Values ==
  {<<Return(x)>> : x \in CastsOf}
    \cup {Filled("newbuffer", n, a, b) : n \in 1 .. 3, a \in Bytes, b \in Bytes}
    \cup {Filled("newarray", n, a, b) : n \in 1 .. 3, a \in Objects, b \in Objects}
    \cup {Start \o <<Set(v, x)>> \o e : x \in Unread, v \in {t(1), static, loc0},
             e \in {<<>>, <<Return(Num(1))>>}}
    \cup {Start \o <<Set(t(1), x), Set(t(2), Plus1(Var(t(1)))), Return(Num(1))>> : x \in Unread}

(* Arithmetic wrapped into an integer of w bytes.                          *)
Masked(v, n, w) ==
  <<Set(t(3), Bin("&", Var(v), Num(Modulus(w) - 1))),
    IfElse(Bin("<=", Var(t(3)), Num(Largest(w))), <<Set(n, Var(t(3)))>>,
           <<Set(t(4), Bin("-", Var(t(3)), Num(Modulus(w)))), Set(n, Var(t(4)))>>)>>
SizeWrapped(v, n, w, m) ==
  {<<Set(t(2), Op("size", <<Var(v)>>)), IfElse(Bin("<=", Var(t(2)), Num(w)), <<Set(n, Var(v))>>, Masked(v, n, m))>>,
   <<Set(t(2), Op("size", <<Var(v)>>)), IfElse(Bin("<", Num(w), Var(t(2))), Masked(v, n, m), <<Set(n, Var(v))>>)>>}
Int32Wrapped(v, n, m) ==
  IfElse(Bin(">=", Var(v), Num(Smallest(4))),
         <<IfElse(Bin("<=", Var(v), Num(Largest(4))), <<Set(n, Var(v))>>, Masked(v, n, m))>>,
         Masked(v, n, 4))
Double == Set(t(1), Bin("+", arg, arg))
WrapUse ==
  {<<Return(Var(p(0)))>>, <<Set(loc0, Var(p(0))), Return(Plus1(Var(loc0)))>>,
   <<Set(loc0, Var(p(0))), Return(Bin("+", Var(loc0), Var(p(0))))>>,
   <<Store(list, 0, Var(p(0))), Return(Bin("-", At(list, Num(0)), Var(p(0))))>>,
   <<Do(Invoke("h", <<Var(p(0))>>)), Return(Var(p(0)))>>}
Wrapped ==
  {Start \o <<Double>> \o s \o u : s \in UNION {SizeWrapped(t(1), p(0), w, m) : w \in {4, 8}, m \in {4, 8}}, u \in WrapUse}
    \cup {Start \o <<Double, Int32Wrapped(t(1), p(0), m)>> \o u : m \in {4, 8}, u \in WrapUse}

(* Loops that count.                                                       *)
StepsBy(v) ==
  {<<Set(v, Plus1(Var(v)))>>, <<Set(v, Bin("+", Num(1), Var(v)))>>,
   <<Set(t(1), Op("inc", <<Var(v)>>)), Set(v, Var(t(1)))>>,
   <<Set(t(1), Plus1(Var(v))), Set(v, Var(t(1)))>>,
   <<Set(t(1), Op("inc", <<Var(v)>>)),
     IfElse(Bin("<=", Var(t(1)), Num(7)), <<Set(t(2), Var(t(1)))>>, <<Set(t(2), Num(0))>>), Set(v, Var(t(2)))>>,
   <<Set(v, Bin("+", Var(v), Num(2)))>>}
LoopBodies(v) ==
  {<<Do(Invoke("f", <<Var(v)>>))>>,
   <<Do(Invoke("f", <<Var(v)>>)), IfThen(Bin("==", arg, Var(v)), <<Stmt("break")>>)>>,
   <<Set(loc1, Plus1(Var(loc1)))>>}
BeforeLoop(v) == {<<>>, <<Set(loc1, Num(1))>>, <<Set(loc1, Var(v))>>}
Counting(v, first, n, mid, body, step) ==
  <<Set(loc1, Num(0)), Set(v, first)>> \o mid \o <<While(Bin("<", Var(v), n), body \o step), Return(Bin("+", Var(v), Var(loc1)))>>
Counted ==
  {Counting(v, Num(0), n, mid, body, step) :
     v \in {loc0}, n \in {Num(3), arg}, mid \in BeforeLoop(loc0), body \in LoopBodies(loc0), step \in StepsBy(loc0)}
    \cup {Counting(p(0), c, Num(3), <<>>, body, step) : c \in {Num(0), Num(1), arg}, body \in LoopBodies(p(0)), step \in StepsBy(p(0))}
Searches ==
  {Start \o <<Set(loc0, Num(0)),
     While(Bin("<", Var(loc0), Num(2)),
           <<IfElse(Bin("==", At(list, Var(loc0)), Num(1)), a, b)>>), Return(Num(9))>> :
     <<a, b>> \in {<<s, <<Return(Var(loc0))>>>> : s \in StepsBy(loc0)} \cup {<<<<Return(Num(4))>>, s>> : s \in StepsBy(loc0)}}
HeaderInits ==
  {<<While(Bool(TRUE), <<Set(loc0, Num(0)), IfThen(Bin("<", Var(loc0), Num(2)),
       <<Do(Invoke("f", <<Var(loc0)>>)), Set(loc0, Num(1)), Return(Var(loc0))>>)>>)>>}
Countdown ==
  {<<Set(loc0, Num(3)), While(Positive(Var(loc0)), body \o <<Set(loc0, Bin("-", Var(loc0), Num(1)))>>), Return(Var(loc0))>> :
     body \in {<<Do(Invoke("f", <<Var(loc0)>>))>>, <<>>}}
Refreshed ==
  {Start \o <<Set(loc0, Num(0)), Set(p(1), Op("size", <<Var(list)>>)),
     While(Bin("<", Var(loc0), Var(p(1))),
       <<IfThen(Bin("<", Op("size", <<Var(list)>>), Num(3)), <<Do(Op("append", <<Var(list), Num(1)>>))>>),
         Set(t(1), Op("inc", <<Var(loc0)>>)), Set(loc0, Var(t(1))), Set(p(1), Op("size", <<Var(list)>>))>>),
     Return(Var(loc0))>>}

(* Loops over the elements of a collection.                                *)
index == <<"loc3">>
item == <<"loc4">>
count == <<"loc5">>
other == <<"loc6">>
Direct == <<Set(item, At(list, Var(index)))>>
Sized == <<<<>>, Op("size", <<Var(list)>>)>>
Elements ==
  {Direct, <<Set(t(1), At(list, Var(index))), Set(item, Var(t(1)))>>}
Add(x) == <<Set(loc1, Bin("+", Var(loc1), x))>>
Twice == Add(Bin("+", Var(item), Var(item)))
PerElement ==
  {Add(Var(item)), Twice, Twice \o Add(Var(index)), Twice \o Add(At(list, Num(0))),
   Twice \o <<Store(list, 1, Num(4))>>, Twice \o <<Store(other, 1, Num(4))>>,
   <<Set(item, Plus1(Var(item)))>> \o Twice, Add(Var(item)) \o <<Do(Invoke("f", <<Var(item)>>))>>,
   Add(Var(item)) \o <<IfThen(Bin("==", Var(item), Num(1)), <<Stmt("break")>>)>>,
   <<IfThen(Positive(arg), Twice)>>, Twice \o <<Set(static, Var(item))>>,
   <<Set(t(6), Plus1(Var(item)))>> \o Add(Num(2)) \o Add(Var(t(6)))}
(* The collection grows through another name while the loop runs.          *)
Growing ==
  Twice \o <<IfThen(Bin("<", Op("size", <<Var(other)>>), Num(3)), <<Do(Op("append", <<Var(other), Num(1)>>))>>)>>
Limits ==
  {Sized, <<<<>>, Num(2)>>, <<<<>>, Op("size", <<Var(other)>>)>>,
   <<<<Set(count, Op("size", <<Var(list)>>))>>, Var(count)>>,
   <<<<Set(count, Op("size", <<Var(list)>>)), Set(loc0, Var(count))>>, Var(loc0)>>,
   <<<<Set(count, Op("size", <<Var(list)>>)), Do(Op("append", <<Var(list), Num(1)>>))>>, Var(count)>>,
   <<<<Set(count, Op("size", <<Var(list)>>)), Do(Invoke("g", <<Var(count)>>))>>, Var(count)>>}
ForEach(bound, element, rest, after) ==
  Start \o <<Set(other, Var(list)), Set(loc1, Num(0))>> \o bound[1]
    \o <<Set(index, Num(0)), While(Bin("<", Var(index), bound[2]), element \o rest \o <<Set(index, Plus1(Var(index)))>>),
          Return(after)>>
Walks ==
  {ForEach(b, Direct, r, Var(loc1)) : b \in Limits, r \in PerElement}
    \cup {ForEach(Sized, e, r, a) : e \in Elements, r \in PerElement \cup {Growing}, a \in {Var(loc1), Bin("+", Var(loc1), Var(index))}}

MCValueType(v) == IF v \in {list, other} THEN "Array" ELSE IF v = count THEN "Unknown" ELSE "Integer"

MCPrograms ==
  Temporaries \cup Guarded \cup BranchMerges \cup Values \cup Wrapped \cup Counted \cup Searches \cup HeaderInits
    \cup Countdown \cup Refreshed \cup Walks
MCInputs == {0, 1, 5, -6, 90}
MCAnswers == {<<0, 1>>, <<2>>}
=============================================================================
