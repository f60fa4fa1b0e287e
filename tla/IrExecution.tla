----------------------------- MODULE IrExecution ----------------------------
(***************************************************************************)
(* What the rewritten statements do: an evaluator of the structured IR and *)
(* the promise that no pass of IrCleanup changes it.                       *)
(*                                                                         *)
(* Arrays are kept in a heap and passed by reference, a division by zero   *)
(* or an index out of range throws, and a call is observed with the        *)
(* contents of its arguments and of the static slot.  What a run shows is  *)
(* how it ends, the value it returns, its calls and the static slot.       *)
(***************************************************************************)
EXTENDS CsharpBody

CONSTANTS
  Inputs,      (* values of the argument slot                              *)
  Answers,     (* what the calls return, in turn                           *)
  Fuel         (* iterations before a loop counts as endless               *)

Value(t, n) == [t |-> t, n |-> n]
Integer(n) == Value("int", n)
Truth(b) == Integer(IF b THEN 1 ELSE 0)
Nothing == Integer(0)
Unassigned == Value("unassigned", 0)
Outcome(s, v) == [s |-> s, v |-> v]
Ends(s, ctl) == Outcome([s EXCEPT !.ctl = ctl], Nothing)

(* Bytes of the shortest two's complement form (VM, SIZE of an integer).   *)
IntSize(n) ==
  IF n = 0 THEN 0
  ELSE Min({w \in 1 .. 16 : - (2 ^ (ByteBits * w - 1)) <= n /\ n <= 2 ^ (ByteBits * w - 1) - 1})

Contents(s, v) == IF v.t = "ref" THEN s.heap[v.n] ELSE [kind |-> "int", items |-> <<v>>]
Allocate(s, kind, items) ==
  Outcome([s EXCEPT !.heap = Append(@, [kind |-> kind, items |-> items])], Value("ref", Len(s.heap) + 1))
StaticSlot(s) == IF <<"static0">> \in DOMAIN s.env THEN s.env[<<"static0">>] ELSE Nothing
Bind(s, v, x) == [s EXCEPT !.env = (v :> x) @@ @]

(* A call shows its arguments and the static slot.  "poke" writes the slot *)
(* and every call may write the array it receives.                         *)
Call(name, s, vs) ==
  LET logged == [s EXCEPT !.log = Append(@, <<name, [k \in DOMAIN vs |-> Contents(s, vs[k])], StaticSlot(s)>>)]
      refs == {vs[k].n : k \in {k \in DOMAIN vs : vs[k].t = "ref"}}
      written == [logged EXCEPT !.heap = [r \in DOMAIN @ |->
                    IF r \in refs /\ @[r].items # <<>> THEN [@[r] EXCEPT !.items[1] = Integer(3)] ELSE @[r]]]
      answer == Integer(s.answers[(Len(s.log) % Len(s.answers)) + 1])
  IN Outcome(IF name = <<"poke">> THEN Bind(written, <<"static0">>, Integer(5)) ELSE written, answer)

SetItem(s, vs) ==
  LET arr == s.heap[vs[1].n]
      at == vs[2].n + 1
      fits == arr.kind = "buffer" => vs[3].n \in 0 .. MaxByte
  IN IF at \notin DOMAIN arr.items \/ ~ fits THEN Ends(s, "throw")
     ELSE Outcome([s EXCEPT !.heap[vs[1].n].items[at] = vs[3]], Nothing)

Literals == {"int", "bool"}
Arithmetic(f, x, y) ==
  CASE f = "+" -> Integer(x + y) [] f = "-" -> Integer(x - y) [] f = "/" -> Integer(x \div y)
    [] f = "&" -> Integer(x % (y + 1))
    [] f = "<" -> Truth(x < y) [] f = "<=" -> Truth(x <= y)
    [] f = ">" -> Truth(x > y) [] f = ">=" -> Truth(x >= y)
    [] f = "==" -> Truth(x = y)

Applied(x, s, vs) ==
  CASE x.f = "var" -> IF x.n \in DOMAIN s.env /\ s.env[x.n] # Unassigned THEN Outcome(s, s.env[x.n]) ELSE Ends(s, "undefined")
    [] x.f \in Literals -> Outcome(s, Integer(x.lit))
    [] x.f = "inc" -> Outcome(s, Integer(vs[1].n + 1))
    [] x.f = "dec" -> Outcome(s, Integer(vs[1].n - 1))
    [] x.f = "!" -> Outcome(s, Truth(vs[1].n = 0))
    [] x.f = "cast" -> Outcome(s, IF x.n = <<"byte">> THEN Integer(vs[1].n % (MaxByte + 1)) ELSE vs[1])
    [] x.f = "size" -> Outcome(s, Integer(IF vs[1].t = "ref" THEN Len(s.heap[vs[1].n].items) ELSE IntSize(vs[1].n)))
    [] x.f = "newarray" -> Allocate(s, "array", [k \in 1 .. vs[1].n |-> Nothing])
    [] x.f = "newbuffer" -> Allocate(s, "buffer", [k \in 1 .. vs[1].n |-> Nothing])
    [] x.f = "array" -> Allocate(s, IF \A y \in Range(x.a) : y.f = "cast" /\ y.n = <<"byte">>
                                    THEN "buffer" ELSE "array", vs)
    [] x.f = "index" -> IF vs[2].n + 1 \in DOMAIN s.heap[vs[1].n].items
                        THEN Outcome(s, s.heap[vs[1].n].items[vs[2].n + 1]) ELSE Ends(s, "throw")
    [] x.f = "setitem" -> SetItem(s, vs)
    [] x.f = "append" -> Outcome([s EXCEPT !.heap[vs[1].n].items = Append(@, vs[2])], Nothing)
    [] x.f = "call" -> Call(x.n, s, vs)
    [] x.f = "/" /\ vs[2].n = 0 -> Ends(s, "throw")
    [] OTHER -> Outcome(s, Arithmetic(x.f, vs[1].n, vs[2].n))

(* Arguments are evaluated from left to right, a ternary by need.          *)
RECURSIVE Eval(_, _)
Eval(x, s) ==
  LET Argument(r, y) ==
        IF r.s.ctl # "run" THEN r
        ELSE S!Apply(LAMBDA o : [s |-> o.s, vs |-> Append(r.vs, o.v)], Eval(y, r.s))
      Branch(c) == IF c.s.ctl # "run" THEN c ELSE Eval(x.a[IF c.v.n # 0 THEN 2 ELSE 3], c.s)
  IN IF x.f = "?:" THEN S!Apply(Branch, Eval(x.a[1], s))
     ELSE S!Apply(LAMBDA r : IF r.s.ctl # "run" THEN Outcome(r.s, Nothing) ELSE Applied(x, r.s, r.vs),
                  S!Fold(Argument, [s |-> s, vs |-> <<>>], x.a))

(* `++i' as a statement, or as the update of a for loop, writes i.         *)
Perform(x, s) ==
  S!Apply(LAMBDA o : IF x.f \in Steps /\ o.s.ctl = "run" THEN Bind(o.s, x.a[1].n, o.v) ELSE o.s, Eval(x, s))

(* The variables a block declares end with it.                             *)
Declared(b) == {b[k].d : k \in {k \in DOMAIN b : b[k].k \in {"declare", "var"}}}
Leave(b, s) == [s EXCEPT !.env = Restrict(@, DOMAIN @ \ Declared(b))]

RECURSIVE RunStmts(_, _)
RECURSIVE RunBlock(_, _)
RECURSIVE Loop(_, _, _, _)
RECURSIVE Each(_, _, _)
RunStmt(st, s) ==
  LET Valued(F(_)) == S!Apply(LAMBDA o : IF o.s.ctl = "run" THEN F(o) ELSE o.s, Eval(st.e[1], s))
      Ended(ctl) == [s EXCEPT !.ctl = ctl]
      Assigned(o) == IF st.d \in DOMAIN o.s.env \/ Origin(st.d) \in {"Static", "Parameter"} THEN Bind(o.s, st.d, o.v)
                     ELSE [o.s EXCEPT !.ctl = "undefined"]
  IN CASE st.k \in {"set", "var"} -> Valued(LAMBDA o : Bind(o.s, st.d, o.v))
       [] st.k = "assign" -> Valued(Assigned)
       [] st.k = "declare" -> Bind(s, st.d, IF st.e = <<>> THEN Unassigned ELSE Nothing)
       [] st.k = "foreach" -> Valued(LAMBDA o : Each(st, s.heap[o.v.n].items, o.s))
       [] st.k = "braces" -> RunBlock(st.arms[1], s)
       [] st.k = "do" -> Perform(st.e[1], s)
       [] st.k = "return" -> Valued(LAMBDA o : [o.s EXCEPT !.ctl = "return", !.val = Contents(o.s, o.v)])
       [] st.k = "throw" -> Ended("throw")
       [] st.k = "break" -> Ended("break")
       [] st.k = "continue" -> Ended("continue")
       [] st.k = "if" -> Valued(LAMBDA o : IF o.v.n # 0 THEN RunBlock(st.arms[1], o.s)
                                           ELSE IF Len(st.arms) = 2 THEN RunBlock(st.arms[2], o.s) ELSE o.s)
       [] st.k = "while" -> Loop(st, <<>>, s, Fuel)
       [] st.k = "for" -> Leave(st.init, S!Apply(LAMBDA t : IF t.ctl = "run" THEN Loop(st, <<st.e[2]>>, t, Fuel) ELSE t,
                                                 RunStmts(st.init, s)))
       [] st.k = "try" -> S!Apply(LAMBDA t : IF t.ctl = "throw" THEN RunBlock(st.arms[2], [t EXCEPT !.ctl = "run"])
                                             ELSE t, RunBlock(st.arms[1], s))
RunStmts(b, s) == S!Fold(LAMBDA t, st : IF t.ctl = "run" THEN RunStmt(st, t) ELSE t, s, b)
RunBlock(b, s) == S!Apply(LAMBDA t : Leave(b, t), RunStmts(b, s))
(* The elements of a collection, one after the other.                      *)
Each(st, items, s) ==
  LET Around(t) ==
        IF t.ctl = "break" THEN [t EXCEPT !.ctl = "run"]
        ELSE IF t.ctl \notin {"run", "continue"} THEN t
        ELSE Each(st, Tail(items), [t EXCEPT !.ctl = "run", !.env = Restrict(@, DOMAIN @ \ {st.d})])
  IN IF items = <<>> THEN s ELSE S!Apply(Around, RunBlock(st.arms[1], Bind(s, st.d, Head(items))))
(* The condition, the body, then the update.                               *)
Loop(st, update, s, fuel) ==
  LET Around(t) ==
        IF t.ctl = "break" THEN [t EXCEPT !.ctl = "run"]
        ELSE IF t.ctl \notin {"run", "continue"} THEN t
        ELSE S!Apply(LAMBDA u : IF u.ctl = "run" THEN Loop(st, update, u, fuel - 1) ELSE u,
                     IF update = <<>> THEN [t EXCEPT !.ctl = "run"] ELSE Perform(update[1], [t EXCEPT !.ctl = "run"]))
      Tested(o) == IF o.s.ctl # "run" \/ o.v.n = 0 THEN o.s ELSE S!Apply(Around, RunBlock(st.arms[1], o.s))
  IN IF fuel = 0 THEN [s EXCEPT !.ctl = "endless"] ELSE S!Apply(Tested, Eval(st.e[1], s))

Started(input, answers) ==
  [env |-> <<"arg0">> :> Integer(input), heap |-> <<>>, log |-> <<>>, ctl |-> "run",
   val |-> Contents([heap |-> <<>>], Nothing), answers |-> answers]
Shown(s) ==
  IF s.ctl = "endless" THEN [ctl |-> "endless"]
  ELSE [ctl |-> s.ctl, val |-> s.val, log |-> s.log, static |-> StaticSlot(s)]
Meaning(b) == [i \in Inputs, a \in Answers |-> Shown(RunBlock(b, Started(i, a)))]

-----------------------------------------------------------------------------
(* The passes and the rendering as C# implement SemanticPass: whatever the *)
(* argument is and the calls answer, the statements return, throw, call    *)
(* and leave in the static slot after every pass what they did before it   *)
(* (cleanup.rs, for_loops.rs, temps.rs, stmt.rs).                          *)
Pass == INSTANCE SemanticPass WITH meaning <- Meaning(block), finished <- (phase = "done")
CleanupKeepsMeaning == Pass!Spec

(* The eight rounds of reduce_temporaries suffice: what it returns is a    *)
(* fixed point of its passes, the one its comment promises (temps.rs:14).  *)
ReductionSettles ==
  phase = "lowered" =>
    block = EliminateDeadStores(FoldArrayInitializers(SimplifyCasts(
              FoldBranchValueMerges(PropagateSingleUseCopies(block)))))
=============================================================================
