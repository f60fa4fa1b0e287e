----------------------------- MODULE MCContracts -----------------------------
(***************************************************************************)
(* Scripts for ContractExecution: an entry method that makes a collection, *)
(* keeps it, lets a helper have it and takes it apart again, with every    *)
(* combination of a helper, of what happens in between and of what is read *)
(* at the end.                                                             *)
(***************************************************************************)
EXTENDS ContractExecution

I(op, n, slot, kind) == [op |-> op, n |-> n, slot |-> slot, kind |-> kind]
Do(op) == <<I(op, 0, <<"", 0>>, "")>>
Lit(n) == <<I("literal", n, <<"", 0>>, "")>>
Ld(slot) == <<I("load", 0, slot, "")>>
St(slot) == <<I("store", 0, slot, "")>>
Go(op, n) == <<I(op, n, <<"", 0>>, "")>>
Pk(kind, n) == Lit(n) \o <<I("pack", 0, <<"", 0>>, kind)>>

Loc(i) == <<"loc", i>>
Argument(i) == <<"arg", i>>
Static(i) == <<"static", i>>

Pair == Lit(7) \o Lit(8) \o Pk("array", 2)
Nested(kind) == Pair \o Pair \o Pk(kind, 2)
One == Lit(7) \o Pk("array", 1)

Blk(code, succs) == [code |-> code, succs |-> succs]
M(args, abi, declared, code) ==
  [args |-> args, locals |-> 2, abi |-> abi, declared |-> declared, code |-> code]
Line(code) == <<Blk(code, {})>>
Fork(left, right, rest) ==
  <<Blk(Lit(1) \o Do("branch"), {2, 3}), Blk(left, {4}), Blk(right, {4}), Blk(rest, {})>>
ForkEnds(left, right) ==
  <<Blk(Lit(1) \o Do("branch"), {2, 3}), Blk(left, {}), Blk(right, {})>>

Put(slot, i, value) == Ld(slot) \o Lit(i) \o value \o Do("setitem")
Grow(slot) == Ld(slot) \o Lit(9) \o Do("append")
Pick(slot, i) == Ld(slot) \o Lit(i) \o Do("pickitem")
A0 == Argument(0)

S0 == Static(0)
Leaf == {
  Line(Do("ret")),
  Line(Ld(A0) \o Do("ret")),
  Line(Pair \o Do("ret")),
  Line(Put(A0, 0, Pair) \o Do("ret")),
  Line(Put(A0, 0, Lit(3)) \o Ld(A0) \o Do("reverseitems") \o Do("ret")),
  Line(Grow(A0) \o Do("ret")),
  Line(Ld(A0) \o Do("unpack") \o <<I("pack", 0, <<"", 0>>, "array")>> \o Do("ret")),
  Line(Ld(A0) \o St(S0) \o Do("ret")),
  Line(Ld(A0) \o Lit(0) \o Do("pickitem") \o Do("unpack") \o Lit(1) \o Do("throw")),
  Line(Ld(A0) \o Pk("array", 1) \o Do("ret")),
  Line(Grow(S0) \o Do("ret")),
  Line(Put(S0, 0, One) \o Do("ret")),
  Line(Do("null") \o St(S0) \o Do("ret")),
  Line(Pair \o St(S0) \o Do("ret")),
  Line(Ld(S0) \o Do("ret")),
  Line(Ld(A0) \o Do("convert") \o St(Loc(0)) \o Put(Loc(0), 0, One) \o Do("ret")),
  Fork(Put(A0, 0, Pair), Put(A0, 0, One), Do("ret")),
  Fork(Put(A0, 0, Pair), Put(A0, 0, Pair), Ld(A0) \o Do("clone") \o Do("ret")),
  Fork(Ld(A0) \o St(Loc(0)), Pair \o St(Loc(0)), Put(Loc(0), 0, One) \o Do("ret")),
  Fork(Grow(A0), Lit(0) \o Do("drop"), Ld(A0) \o Do("unpack") \o Lit(1) \o Do("throw")),
  ForkEnds(Pair \o Do("ret"), One \o Do("ret")),
  ForkEnds(Lit(1) \o Do("throw"), Do("ret")) }

Wrapper == Line(Ld(A0) \o Go("call", 3) \o Do("ret"))
Inner == {
  Line(Do("ret")),
  Line(Lit(1) \o Do("throw")),
  Line(Ld(A0) \o Do("ret")),
  Line(Pair \o Do("ret")),
  Line(Put(A0, 0, Pair) \o Do("ret")),
  Line(Ld(A0) \o Do("unpack") \o Lit(1) \o Do("throw")),
  Line(Grow(A0) \o Do("ret")) }

Makes == { Pair \o St(Loc(0)),
           Nested("array") \o St(Loc(0)),
           Nested("struct") \o St(Loc(0)) \o Put(Loc(0), 0, Pair),
           Pair \o Do("dup") \o St(S0) \o St(Loc(0)),
           Nested("array") \o Do("dup") \o St(S0) \o St(Loc(0)) }

Between == { <<>>,
             Grow(Loc(0)),
             Put(Loc(0), 0, One),
             Put(Loc(0), 1, Lit(4)),
             Ld(Loc(0)) \o St(Loc(1)) \o Grow(Loc(1)),
             Ld(S0) \o St(Loc(1)) \o Grow(Loc(1)),
             Ld(Loc(0)) \o Go("token", 1) \o Do("drop"),
             One \o Go("call", 3),
             Pair \o Go("pusha", 3) \o Go("calla", 3),
             Pair \o Go("pusha", 3) \o Go("opaque", 3) }

Ends == { Do("ret"),
          Ld(Loc(0)) \o Do("unpack") \o Do("ret"),
          Pick(Loc(0), 0) \o Do("unpack") \o Do("ret"),
          Ld(S0) \o Do("unpack") \o Do("ret"),
          Ld(Loc(0)) \o Ld(Loc(0)) \o Do("popitem") \o Do("pickitem") \o Do("unpack") \o Do("ret") }

Main(make, between, end) ==
  M(0, TRUE, "Void", Line(make \o Ld(Loc(0)) \o Go("call", 2) \o between \o end))
Jumping(make) == M(0, TRUE, "Void", Line(make \o Ld(Loc(0)) \o Go("jmp", 2)))
Private(code) == M(1, FALSE, "Unknown", code)

MCPrograms ==
  {<<Main(make, between, end), Private(helper), Private(Line(Do("ret")))>> :
     make \in Makes, between \in Between, end \in Ends, helper \in Leaf}
  \cup
  {<<Main(make, between, end), Private(Wrapper), Private(inner)>> :
     make \in Makes, between \in Between, end \in Ends, inner \in Inner}
  \cup {<<Jumping(make), Private(helper)>> : make \in Makes, helper \in Leaf}
=============================================================================
