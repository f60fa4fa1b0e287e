------------------------------ MODULE Structure ------------------------------
(***************************************************************************)
(* Structural recovery (cfg/structure): the graph of CfgBuilder becomes a  *)
(* tree of statements.                                                     *)
(*                                                                         *)
(* The statements of a block are one `body' node, the copies PhiLowering   *)
(* puts on an edge one `copy' node, and the condition of a branch is named *)
(* by its block.  Block bodies are empty when the block holds nothing but  *)
(* its terminator and the condition it tests.  Dominance is the relation   *)
(* module Dominance shows the code to compute.                             *)
(***************************************************************************)
EXTENDS CfgBuilder

CONSTANTS
  PhiMethods,            (* the methods whose joins may have phi nodes     *)
  StrayReturns,          (* the methods that may return what was not known *)
                         (* where a try was left for the RET               *)
  MaxStructuredPhis,     (* MAX_STRUCTURED_PHIS                            *)
  MaxStructuredBlocks    (* MAX_STRUCTURED_BLOCKS                          *)

ASSUME LimitsAssumption == MaxStructuredPhis \in Nat /\ MaxStructuredBlocks \in Nat

VARIABLES
  phase,      (* "analyze", "structure", "simplify", "done"                *)
  phis,       (* blocks that have a phi node                               *)
  returned,   (* what the blocks hand back that a try is left for          *)
  cascade,    (* do bare conditional jumps compare one slot to literals?   *)
  ctx,        (* the tables of StructCtx                                   *)
  ir          (* the statements recovered so far                           *)

structVars == <<phase, phis, returned, cascade, ctx, ir>>

S == INSTANCE Strict

-----------------------------------------------------------------------------
(* Statements.  `then', `else', loop bodies and arms are sequences.        *)
Body(b) == [k |-> "body", b |-> b]
Copy(b, c) == [k |-> "copy", b |-> b, c |-> c]
Exit(b) == [k |-> "exit", b |-> b]
Comment(b) == [k |-> "comment", b |-> b]
Label(b) == [k |-> "label", b |-> b]
Goto(b) == [k |-> "goto", b |-> b]
Break == [k |-> "break"]
Continue == [k |-> "continue"]
Discard(b) == [k |-> "discard", b |-> b]
If(b, then, else) == [k |-> "if", b |-> b, arms |-> <<then, else>>]
While(b, neg, body) == [k |-> "while", b |-> b, neg |-> neg, arms |-> <<body>>]
Forever(body) == [k |-> "forever", arms |-> <<body>>]
DoWhile(b, neg, body) == [k |-> "dowhile", b |-> b, neg |-> neg, arms |-> <<body>>]
Try(catch, finally, arms) ==
  [k |-> "try", catch |-> catch, finally |-> finally, arms |-> arms]
SetFirst(b, v) == [k |-> "setfirst", b |-> b, v |-> v]
UnlessFirst(b, then) == [k |-> "unlessfirst", b |-> b, arms |-> <<then>>]

-----------------------------------------------------------------------------
(* analysis.rs and graph.rs: the tables every query below reads.           *)
Kind(b) == terminator[b].kind
IsBranch(b) == Kind(b) = "Branch"

Succ(b) == {e[2] : e \in {e \in edges : e[1] = b}}
Pred(b) == {e[1] : e \in {e \in edges : e[2] = b}}
EdgeCount(es) == Cardinality(es)
OutEdges(b) == {e \in edges : e[1] = b}
InEdges(b) == {e \in edges : e[2] = b}

(* The blocks of a set in ascending order.                                 *)
InOrder(bs) == [i \in 1 .. Cardinality(bs) |->
                  CHOOSE b \in bs : Cardinality({c \in bs : c < b}) = i - 1]

(* The blocks within 0, 1, ... steps of `start'.                           *)
Levels(start, Onward(_)) ==
  LET Grow(acc, i) == Append(acc, acc[i] \cup UNION {Onward(b) : b \in acc[i]})
  IN S!Fold(Grow, <<start>>, [i \in 1 .. Cardinality(leaders) |-> i])
Closure(start, Onward(_)) == Levels(start, Onward)[Cardinality(leaders) + 1]
Distances(levels) ==
  LET Distance(b) == Min({i \in DOMAIN levels : b \in levels[i]}) - 1
      Note(f, b) == (b :> IF b \in levels[Len(levels)] THEN Distance(b) ELSE None) @@ f
  IN S!Fold(Note, <<>>, InOrder(leaders))

ReachableFrom(b) == Closure({b}, Succ)
ReverseReachable(b) == Closure({b}, Pred)

Dominators(b) ==
  {d \in leaders : b \in ReachableFrom(1) /\
      (d = b \/ d = 1 \/ b \notin Closure({1}, LAMBDA c : Succ(c) \ {d}))}
StrictDoms == [b \in leaders |-> Dominators(b) \ {b}]

(* compute_loop_headers                                                    *)
ComputeLoopHeaders(sdom) ==
  {b \in leaders : \E p \in Pred(b) : p = b \/ b \in sdom[p]}

(* compute_postdominators: the greatest solution over the blocks that      *)
(* reach an exit; the others postdominate themselves only.                 *)
ComputePostdominators ==
  LET exits == {b \in leaders : Succ(b) = {}}
      reaches == Closure(exits, Pred)
      inner == reaches \ exits
      start == [b \in leaders |-> IF b \in inner THEN reaches ELSE {b}]
      Refine(pd, b) ==
        (b :> {c \in reaches \cup leaders : \A s \in Succ(b) : c \in pd[s]} \cup {b}) @@ pd
      Round(pd) == S!Fold(Refine, pd, InOrder(inner))
      round[k \in 0 .. Cardinality(leaders)] ==
        IF k = 0 THEN start ELSE S!Apply(Round, round[k - 1])
  IN round[Cardinality(leaders)]

(* shortest_distances: None when there is no path.                         *)
ShortestDistances(b) == S!Apply(Distances, Levels({b}, Succ))

(* natural_loop_blocks                                                     *)
NaturalLoop(h, sdom) ==
  LET latches == {p \in Pred(h) : h \in sdom[p]}
  IN {h} \cup Closure(latches, LAMBDA b : IF b = h THEN {} ELSE Pred(b))

(* resolve_leave_target_cfg                                                *)
ResolveLeaveTarget(target) ==
  LET Onward(b) == IF Kind(b) \in {"EndTry", "EndTryFinally"}
                     THEN terminator[b].continuation ELSE b
      hop[k \in 0 .. Cardinality(leaders)] ==
        IF k = 0 THEN target ELSE Onward(hop[k - 1])
  IN hop[Cardinality(leaders)]

(* collect_leave_targets                                                   *)
CollectLeaveTargets ==
  {ResolveLeaveTarget(terminator[b].continuation) :
     b \in {b \in leaders : /\ Kind(b) \in {"EndTry", "EndTryFinally"}
                            /\ terminator[b].nonlocal}}

(* find_irreducible_region: the first strongly connected region with two   *)
(* entries, or the empty set.                                              *)
FindIrreducibleRegion ==
  LET Region(b) == ReachableFrom(b) \cap ReverseReachable(b)
      Entries(r) == {t \in r : Pred(t) \ r # {}}
      found == {b \in leaders : /\ Cardinality(Region(b)) >= 2
                                /\ Cardinality(Entries(Region(b))) >= 2}
  IN IF found = {} THEN {} ELSE Region(Min(found))

(* endtries_for_region: the ENDTRYs that close `owner' on some path from   *)
(* `start', found with the depth of nested tries.                          *)
IsEndTry(b) == Kind(b) \in {"EndTry", "EndTryFinally"}
RECURSIVE EndtrySearch(_, _)
EndtrySearch(owner, seen) ==
  LET Onward(p) ==
        LET b == p[1] IN
        CASE Kind(b) = "TryEntry" ->
               IF b = owner THEN {} ELSE {<<c, p[2] + 1>> : c \in Succ(b)}
          [] IsEndTry(b) ->
               IF p[2] = 0 THEN {} ELSE {<<terminator[b].continuation, p[2] - 1>>}
          [] OTHER -> {<<c, p[2]>> : c \in Succ(b)}
      Search(next) == IF next = seen THEN seen ELSE EndtrySearch(owner, next)
  IN S!Apply(Search, seen \cup {p \in UNION {Onward(p) : p \in seen} :
                                  p[2] <= Cardinality(leaders)})
EndtriesForRegion(owner, start) ==
  {p[1] : p \in {p \in EndtrySearch(owner, {<<start, 0>>}) : p[2] = 0 /\ IsEndTry(p[1])}}

(* The fields of StructCtx.                                                *)
StructCtx ==
  LET sdom == StrictDoms
      headers == ComputeLoopHeaders(sdom)
  IN [sdom |-> sdom, headers |-> headers,
      pdom |-> ComputePostdominators,
      leave |-> CollectLeaveTargets,
      reach |-> [b \in leaders |-> ReachableFrom(b)],
      dist |-> [b \in leaders |-> ShortestDistances(b)],
      loop |-> [h \in headers |-> NaturalLoop(h, sdom)],
      endtries |-> [b \in {b \in leaders : Kind(b) = "TryEntry"} |->
                      [t \in Succ(b) |-> EndtriesForRegion(b, t)]],
      irreducible |-> FindIrreducibleRegion]

-----------------------------------------------------------------------------
(* What a block and an edge contribute.                                    *)
Ops(b) == {code[i].op : i \in b .. LastOf(code, leaders, b)}
HasBody(b) == Ops(b) \cap {"plain", "noreturn"} # {}
HasExit(b) == Ops(b) \cap {"ret", "throw", "abort"} # {}

(* PhiLowering::edge_statements.  An exception that enters a finally block *)
(* carries no copies.                                                      *)
EdgeCopies(b, c) ==
  IF c \in phis /\ \E e \in InEdges(c) : e[1] = b /\ e[3] # "FinallyException"
    THEN <<Copy(b, c)>> ELSE <<>>

(* PhiLowering::entry_statements: the entry is block 1, its caller 0.      *)
EntryCopies == IF 1 \in phis THEN <<Copy(0, 1)>> ELSE <<>>

When(cond, node) == IF cond THEN <<node>> ELSE <<>>

(* emit_body_except_condition                                              *)
EmitBodyExceptCondition(b) == When(HasBody(b), Body(b))

(* emit_body: the copies of the only edge out follow the statements.       *)
EmitBody(b) ==
  When(HasBody(b), Body(b)) \o When(HasExit(b), Exit(b))
    \o (IF Kind(b) # "TryEntry" /\ EdgeCount(OutEdges(b)) = 1
          THEN EdgeCopies(b, CHOOSE c \in Succ(b) : TRUE) ELSE <<>>)

EmitBlock(b) == IF IsBranch(b) THEN EmitBodyExceptCondition(b) ELSE EmitBody(b)

-----------------------------------------------------------------------------
(* Queries on a branch (graph.rs, structure.rs).                           *)
Lex(x, y) == \/ x[1] < y[1]
             \/ x[1] = y[1] /\ x[2] < y[2]
             \/ x[1] = y[1] /\ x[2] = y[2] /\ x[3] <= y[3]
Least(keys) == IF keys = {} THEN None
               ELSE (CHOOSE x \in keys : \A y \in keys : Lex(x, y))[3]

Larger(a, b) == IF a < b THEN b ELSE a

Farther(t, e, b) == Larger(ctx.dist[t][b], ctx.dist[e][b])
Meets(t, e) == {b \in leaders : ctx.dist[t][b] # None /\ ctx.dist[e][b] # None}
MergeKey(t, e, b) == <<Farther(t, e, b), ctx.dist[t][b] + ctx.dist[e][b], b>>

(* find_merge                                                              *)
FindMerge(t, e) ==
  LET leaves == {<<ctx.dist[p[1]][p[2]], 0, p[2]>> :
                   p \in {p \in {<<e, t>>, <<t, e>>} :
                            p[2] \in ctx.leave /\ ctx.dist[p[1]][p[2]] # None}}
      joins == {b \in Meets(t, e) : /\ EdgeCount(InEdges(b)) >= 2
                                    /\ b \in ctx.pdom[t] /\ b \in ctx.pdom[e]}
  IN IF leaves # {} THEN Least(leaves) ELSE Least({MergeKey(t, e, b) : b \in joins})

(* loop_follow                                                             *)
LoopFollow(h) ==
  IF ~IsBranch(h) \/ h \notin ctx.headers THEN None
  ELSE IF h \in ctx.reach[terminator[h].then_target] THEN terminator[h].else_target
  ELSE IF h \in ctx.reach[terminator[h].else_target] THEN terminator[h].then_target
  ELSE None

(* loop_transfer: the innermost loop, by block number, that the edge       *)
(* continues or leaves.                                                    *)
LoopTransfer(from, target) ==
  LET around == {h \in ctx.headers : /\ h = from \/ h \in ctx.sdom[from]
                                     /\ from \in ctx.loop[h]}
      Continues(h) == target = h /\ IsBranch(h) /\ h \in ctx.reach[from]
      Breaks(h) == from # h /\ LoopFollow(h) = target
      hits == {h \in around : Continues(h) \/ Breaks(h)}
  IN IF hits = {} THEN <<>>
     ELSE IF Continues(Max(hits)) THEN <<Continue>> ELSE <<Break>>

(* What a RET hands back: nothing, a literal, or a variable, with the      *)
(* block of its definition (None for an argument or an unknown value) and  *)
(* whether it is a phi of what the block has on its stack.                 *)
Nothing == [k |-> "nothing"]
Literal == [k |-> "literal"]
Variable(b, stacked) == [k |-> "variable", at |-> b, stacked |-> stacked]

(* return_through_finally: the target does nothing but return, and what it *)
(* returns is known where the try is left: it is defined there or before,  *)
(* or the ENDTRY carries it over its finally block on the stack.           *)
KnownAt(from, value, sdom) ==
  value.k = "variable" =>
    \/ value.at = from \/ value.at \in sdom
    \/ /\ Kind(from) = "EndTryFinally"
       /\ value = Variable(terminator[from].finally_target, TRUE)
ReturnThroughFinally(from, target) ==
  Ops(target) = {"ret"} /\ KnownAt(from, returned[target], ctx.sdom[from])

(* leave_transfer                                                          *)
LeaveTransfer(from, continuation) ==
  LET target == ResolveLeaveTarget(continuation)
      transfer == LoopTransfer(from, target)
  IN IF transfer # <<>> THEN transfer
     ELSE IF ReturnThroughFinally(from, target) THEN <<Exit(target)>>
     ELSE <<Goto(target)>>

(* find_dowhile_latch and find_unconditional_latch: predecessors are       *)
(* listed in block order.                                                  *)
DoWhileLatches(h) == {p \in Pred(h) : h \in ctx.sdom[p] /\ IsBranch(p)}
(* Mutant of OtherTarget: the arms are swapped.                            *)
OtherTargetMutant(p, h) == IF terminator[p].then_target = h THEN terminator[p].then_target
                                                            ELSE terminator[p].else_target
OtherTarget(p, h) == IF terminator[p].then_target = h THEN terminator[p].else_target
                                                      ELSE terminator[p].then_target
UnconditionalLatches(h) ==
  {p \in Pred(h) : h \in ctx.sdom[p] /\ Kind(p) \in {"Jump", "Fallthrough"}}

(* loop_distances and loop_common_postdominators, for closest_loop_merge.  *)
LoopDistances(b, h, members) ==
  LET Inside(c) == IF c = h THEN {} ELSE Succ(c) \cap members
  IN S!Apply(Distances, Levels({b}, Inside))
LoopPostdominates(c, b, h, members) ==
  LET Around(d) == IF d = h \/ d = c THEN {} ELSE Succ(d) \cap members
  IN b = c \/ h \notin Closure({b}, Around)

(* closest_loop_merge                                                      *)
ClosestLoopMerge(t, e, h, members) ==
  LET Key(d, c) == <<Larger(d[1][c], d[2][c]), d[1][c] + d[2][c], c>>
      Common(d) == {c \in members \ {h} :
                      /\ d[1][c] # None /\ d[2][c] # None
                      /\ LoopPostdominates(c, t, h, members)
                      /\ LoopPostdominates(c, e, h, members)}
      Closest(d) == Least({Key(d, c) : c \in Common(d)})
      merge == S!Apply(Closest, <<LoopDistances(t, h, members), LoopDistances(e, h, members)>>)
  IN IF merge = None THEN h ELSE merge

(* find_endtry_for_arms: the first local one, of the body before the       *)
(* catch, or else the first.                                               *)
FindEndtryForArms(b) ==
  LET t == terminator[b]
      body == ctx.endtries[b][t.body_target]
      catch == IF t.catch_target = None THEN {} ELSE ctx.endtries[b][t.catch_target]
      Local(es) == {e \in es : ~terminator[e].nonlocal}
  IN CASE Local(body) # {} -> Min(Local(body))
       [] Local(body) = {} /\ Local(catch) # {} -> Min(Local(catch))
       [] Local(body) = {} /\ Local(catch) = {} /\ body # {} -> Min(body)
       [] body = {} /\ Local(catch) = {} /\ catch # {} -> Min(catch)
       [] OTHER -> None

(* try_has_nonlocal_leave                                                  *)
TryHasNonlocalLeave(b) ==
  LET t == terminator[b]
      arms == {t.body_target} \cup ({t.catch_target} \ {None})
  IN \E a \in arms : \E e \in ctx.endtries[b][a] : terminator[e].nonlocal

-----------------------------------------------------------------------------
(* Emission.  Every operator takes the set of visited blocks and returns   *)
(* the statements `s', the blocks visited `v' and, where the caller goes   *)
(* on, the next block `n'.                                                 *)
Result(s, v, n) == [s |-> s, v |-> v, n |-> n]
Prefix(nodes, r) == S!Apply(LAMBDA x : [x EXCEPT !.s = nodes \o @], r)

(* The walk is at a block it was at before with the same blocks visited:   *)
(* it never returns.                                                       *)
Diverge == [k |-> "diverge"]

(* The walk over the blocks, up to a stop set: structure_region with one   *)
(* boundary ("region"; "inner" while it emits the body of a loop tested    *)
(* last) and structure_set ("set").                                        *)
RECURSIVE Walk(_, _, _, _, _)
Region(cur, boundary, v) == Walk(cur, {boundary} \ {None}, v, "region", {})
LoopBody(cur, latch, v) == Walk(cur, {latch}, v, "inner", {})
StructSet(cur, stop, v) == Walk(cur, stop, v, "set", {})

(* structure_edge_region                                                   *)
EdgeRegion(from, entry, boundary, v) ==
  LET transfer == LoopTransfer(from, entry)
  IN IF transfer # <<>> THEN Result(EdgeCopies(from, entry) \o transfer, v, None)
     ELSE IF entry = boundary THEN Result(EdgeCopies(from, entry), v, None)
     ELSE Prefix(EdgeCopies(from, entry), Region(entry, boundary, v))

(* structure_set_edge_region                                               *)
SetEdgeRegion(from, entry, stop, v) ==
  Prefix(EdgeCopies(from, entry), StructSet(entry, stop, v))

(* The statement two arms make, and the block to go on at: with both arms  *)
(* empty only the condition remains.                                       *)
IfArms(b, arms, merge, empty) ==
  LET Join(r) == IF r[1].s = <<>> /\ r[2].s = <<>>
                   THEN Result(<<Discard(b)>>, r[1].v \cup r[2].v, empty)
                   ELSE Result(<<If(b, r[1].s, r[2].s)>>, r[1].v \cup r[2].v, merge)
  IN S!Apply(Join, arms)

(* A condition the switch recovery reads as `slot == literal'.             *)
ComparesSlot(b) == cascade /\ IsBranch(b)
CanPromote(b) == ComparesSlot(b) /\ ~HasBody(b) /\ b \notin phis

(* try_switch: the comparisons of the cascade that starts at b, in order.  *)
RECURSIVE Cascade(_)
Cascade(b) ==
  LET e == terminator[b].else_target
  IN <<b>> \o (IF EdgeCount(InEdges(e)) < 2 /\ IsBranch(e) /\ CanPromote(e)
                 THEN Cascade(e) ELSE <<>>)

(* A switch stands for its cascade: the first comparison that holds picks  *)
(* the arm, the last arm is the default.                                   *)
CascadeOf(tests, arms) ==
  LET n == Len(tests)
      tail[i \in 1 .. n + 1] ==
        IF i = n + 1 THEN arms[n + 1] ELSE <<If(tests[i], arms[i], tail[i + 1])>>
  IN tail[1]

TrySwitch(b, v) ==
  LET tests == Cascade(b)
      last == tests[Len(tests)]
      default == terminator[last].else_target
      merge == FindMerge(terminator[b].then_target, default)
      targets == Append([i \in 1 .. Len(tests) |-> <<tests[i], terminator[tests[i]].then_target>>],
                        <<last, default>>)
      Arm(acc, t) == S!Apply(LAMBDA r : [s |-> Append(acc.s, r.s), v |-> r.v],
                             EdgeRegion(t[1], t[2], merge, acc.v))
      arms == S!Fold(Arm, [s |-> <<>>, v |-> v], targets)
  IN Result(CascadeOf(tests, arms.s), arms.v, merge)

IsSwitch(b) == ComparesSlot(b) /\ Len(Cascade(b)) >= 2

(* handle_branch                                                           *)
HandleBranch(b, stop, v) ==
  LET t == terminator[b].then_target
      e == terminator[b].else_target
      merge == FindMerge(t, e)
      Inner(n) == IF n \in stop THEN None ELSE n
  IN IF t = e THEN Result(EdgeCopies(b, t), v, t)
     ELSE IF IsSwitch(b) THEN S!Apply(LAMBDA r : [r EXCEPT !.n = Inner(@)], TrySwitch(b, v))
     ELSE IfArms(b, <<EdgeRegion(b, t, merge, v), EdgeRegion(b, e, merge, v)>>, Inner(merge),
                 IF merge = None THEN e ELSE merge)

(* handle_branch_in_set: a merge counts only when it is closer than every  *)
(* block of the stop set.                                                  *)
HandleBranchInSet(b, stop, v) ==
  LET t == terminator[b].then_target
      e == terminator[b].else_target
      found == FindMerge(t, e)
      stops == {Farther(t, e, c) : c \in stop \cap Meets(t, e)}
      near == found # None /\ found \in Meets(t, e)
                /\ \A d \in stops : Farther(t, e, found) < d
      merge == IF near THEN found ELSE None
      armStop == stop \cup ({merge} \ {None})
  IN IF t = e THEN Result(EdgeCopies(b, t), v, IF t \in stop THEN None ELSE t)
     ELSE IfArms(b, <<SetEdgeRegion(b, t, armStop, v), SetEdgeRegion(b, e, armStop, v)>>,
                 merge, merge)

(* Mutant of BranchLoop: the header's statements are not replayed.         *)
BranchLoopMutant(b, v) ==
  LET negated == LoopFollow(b) = terminator[b].then_target
      body == IF negated THEN terminator[b].else_target ELSE terminator[b].then_target
      follow == IF negated THEN terminator[b].then_target ELSE terminator[b].else_target
  IN S!Apply(LAMBDA r : Result(<<While(b, negated, r.s)>> \o EdgeCopies(b, follow), r.v, follow),
             EdgeRegion(b, body, follow, v))

(* The `while' of a loop whose header branches: orient_branch_loop and     *)
(* build_loop, which replays the header's statements at the body's end.    *)
BranchLoop(b, v) ==
  LET negated == LoopFollow(b) = terminator[b].then_target
      body == IF negated THEN terminator[b].else_target ELSE terminator[b].then_target
      follow == IF negated THEN terminator[b].then_target ELSE terminator[b].else_target
  IN S!Apply(LAMBDA r :
       Result(<<While(b, negated, r.s \o EmitBodyExceptCondition(b))>>
                 \o EdgeCopies(b, follow), r.v, follow),
       EdgeRegion(b, body, follow, v))

(* Mutant of InfiniteBranchLoop: the arms are not put into the loop.       *)
InfiniteBranchLoopMutant(b, v) ==
  Result(<<Forever(EmitBodyExceptCondition(b))>>, v \cup ctx.loop[b], None)

(* try_emit_infinite_branch_loop: its guard and its body.                  *)
IsInfiniteBranchLoop(b) ==
  /\ IsBranch(b) /\ b \in ctx.headers
  /\ Succ(b) \subseteq ctx.loop[b]
  /\ \A c \in UNION {Succ(m) : m \in ctx.loop[b]} \ ctx.loop[b] :
       Kind(c) \in {"Return", "Throw", "Abort", "NoReturnCall"}
InfiniteBranchLoop(b, v) ==
  LET t == terminator[b].then_target
      e == terminator[b].else_target
      Arms(r) == When(r[1].s # <<>> \/ r[2].s # <<>>, If(b, r[1].s, r[2].s))
      Split(merge) ==
        LET Rest(w) == IF merge = b THEN Result(<<>>, w, None) ELSE Region(merge, b, w)
        IN S!Apply(LAMBDA r : Prefix(Arms(r), Rest(r[1].v \cup r[2].v)),
                   <<EdgeRegion(b, t, merge, v), EdgeRegion(b, e, merge, v)>>)
      inner == IF t = e THEN EdgeRegion(b, t, b, v)
               ELSE S!Apply(Split, ClosestLoopMerge(t, e, b, ctx.loop[b]))
  IN S!Apply(LAMBDA r : Result(<<Forever(EmitBodyExceptCondition(b) \o r.s)>>, r.v, None), inner)

(* handle_try.  A lone ENDTRY instruction ends the arms and is emitted     *)
(* after the statement.                                                    *)
HandleTry(b, v) ==
  LET t == terminator[b]
      end == FindEndtryForArms(b)
      nonlocal == end # None /\ terminator[end].nonlocal
      pure == end # None /\ ~nonlocal /\ LastOf(code, leaders, end) = end
      next == CASE end = None -> None
                [] nonlocal -> ResolveLeaveTarget(terminator[end].continuation)
                [] OTHER -> terminator[end].continuation
      ends == IF pure THEN {end} ELSE {}
      handlers == {t.catch_target, t.finally_target} \ {None}
      Arm(entry, stop, w) ==
        IF entry = None THEN Result(<<>>, w, None) ELSE SetEdgeRegion(b, entry, stop, w)
      Statement(body, catch, finally) ==
        <<Try(t.catch_target # None, t.finally_target # None, <<body, catch, finally>>)>>
      Close(s, w) ==
        IF pure /\ end \notin w THEN Result(s \o EmitBody(end), w \cup {end}, next)
                                ELSE Result(s, w, next)
      resumes == ~TryHasNonlocalLeave(b)
      whole ==
        S!Apply(LAMBDA body :
        S!Apply(LAMBDA catch :
        S!Apply(LAMBDA finally :
          Close(Statement(body.s, catch.s, finally.s), finally.v),
          Arm(t.finally_target, ends, catch.v)),
          Arm(t.catch_target, ends \cup ({t.finally_target} \ {None}), body.v)),
          Arm(t.body_target, handlers \cup ends, v))
  IN S!Apply(LAMBDA r : [r EXCEPT !.n = IF resumes THEN @ ELSE None], whole)

(* An ENDTRY that leaves, or that stays inside: only structure_region      *)
(* resumes at its continuation.                                            *)
EmitLeave(b, v, mode) ==
  IF terminator[b].nonlocal THEN Result(LeaveTransfer(b, terminator[b].continuation), v, None)
  ELSE Result(<<>>, v, IF mode = "set" THEN None ELSE terminator[b].continuation)

(* A branch: a loop, or two arms.                                          *)
EmitBranch(b, stop, v, mode) ==
  IF b \in ctx.headers THEN BranchLoop(b, v)
  ELSE IF mode = "set" THEN HandleBranchInSet(b, stop, v) ELSE HandleBranch(b, stop, v)

(* One block of either walk, from its label to the choice of the next one. *)
Step(b, stop, v, mode) ==
  LET w == v \cup {b}
      After(r) == Prefix(When(b \in ctx.leave, Label(b)) \o EmitBlock(b), r)
  IN CASE IsInfiniteBranchLoop(b) ->
            Prefix(When(b \in ctx.leave, Label(b)), InfiniteBranchLoop(b, w))
       [] ~IsInfiniteBranchLoop(b) /\ IsBranch(b) -> After(EmitBranch(b, stop, w, mode))
       [] Kind(b) = "TryEntry" -> After(HandleTry(b, w))
       [] Kind(b) \in {"Fallthrough", "Jump"} -> After(Result(<<>>, w, terminator[b].target))
       [] Kind(b) \in {"EndTry", "EndTryFinally"} -> After(EmitLeave(b, w, mode))
       [] OTHER -> After(Result(When(mode # "set" /\ Kind(b) = "Unknown", Comment(b)), w, None))

(* The do-while and the `while (true)' whose header does not branch.  The  *)
(* back-edge copies of the first run at the top of every iteration but the *)
(* first.                                                                  *)
DoWhileLoop(h, latch, v) ==
  LET exit == OtherTarget(latch, h)
      copies == EdgeCopies(latch, h)
      guard == IF copies = <<>> THEN <<>>
               ELSE <<UnlessFirst(h, copies), SetFirst(h, FALSE)>>
      Loop(r) == When(copies # <<>>, SetFirst(h, TRUE))
                   \o <<DoWhile(latch, FALSE, guard \o r.s \o EmitBodyExceptCondition(latch))>>
                   \o EdgeCopies(latch, exit)
  IN S!Apply(LAMBDA r : Result(Loop(r), r.v \cup {latch}, exit),
             LoopBody(h, latch, v))
UnconditionalLoop(h, latch, v) ==
  S!Apply(LAMBDA r :
    Result(<<Forever(r.s \o EmitBody(latch) \o EdgeCopies(latch, h))>>, r.v \cup {latch}, None),
    LoopBody(h, latch, v))

(* structure_region and structure_set.  `chain' holds the loop headers     *)
(* passed since a block was last visited.                                  *)
Walk(cur, stop, v, mode, chain) ==
  LET bottomTested == mode = "region" /\ cur \in ctx.headers /\ ~IsBranch(cur)
      Go(r) == Prefix(r.s, Walk(r.n, stop, r.v, mode, IF r.v = v THEN chain \cup {cur} ELSE {}))
  IN CASE cur = None \/ cur \in stop -> Result(<<>>, v, None)
       [] cur \in chain -> Result(<<Diverge>>, v, None)
       [] OTHER ->
            IF bottomTested /\ DoWhileLatches(cur) # {}
              THEN S!Apply(Go, DoWhileLoop(cur, Min(DoWhileLatches(cur)), v))
            ELSE IF bottomTested /\ UnconditionalLatches(cur) # {}
              THEN S!Apply(Go, UnconditionalLoop(cur, Min(UnconditionalLatches(cur)), v))
            ELSE IF cur \in v THEN Result(<<>>, v, None)
            ELSE S!Apply(Go, Step(cur, stop, v, mode))

(* irreducible_edge_block                                                  *)
IrreducibleEdge(target, region) ==
  IF target \in region THEN <<Goto(target)>>
  ELSE Region(target, None, region).s

(* The terminator of a block of an irreducible region, or of the entry.    *)
IrreducibleExit(b, region) ==
  LET Arms(block) ==
        IF IsBranch(b)
          THEN <<If(b, block[terminator[b].then_target], block[terminator[b].else_target])>>
          ELSE block[terminator[b].target]
  IN IF Kind(b) \in {"Branch", "Fallthrough", "Jump"}
       THEN S!Apply(Arms, [t \in Succ(b) |-> IrreducibleEdge(t, region)])
       ELSE <<>>

(* structure_irreducible                                                   *)
StructureIrreducible(region) ==
  LET Emit(b) == When(b \in region, Label(b)) \o EmitBlock(b) \o IrreducibleExit(b, region)
      order == (IF 1 \in region THEN <<>> ELSE <<1>>) \o InOrder(region)
  IN When(1 \in region, Goto(1)) \o FlattenSeq([i \in DOMAIN order |-> Emit(order[i])])

(* structure_with_source_names                                             *)
StructureMethod ==
  LET large == \/ Cardinality(phis) > MaxStructuredPhis
               \/ Cardinality(leaders) > MaxStructuredBlocks
      region == IF large THEN leaders ELSE ctx.irreducible
  IN EntryCopies \o (IF region # {} THEN StructureIrreducible(region)
                                    ELSE Region(1, None, {}).s)

-----------------------------------------------------------------------------
(* cleanup.rs: labels nothing jumps to and statements nothing reaches go.  *)
HasArms(n) == "arms" \in DOMAIN n
RECURSIVE Nodes(_)
Nodes(s) == UNION {{s[i]} \cup (IF HasArms(s[i]) THEN UNION {Nodes(s[i].arms[j]) :
                                     j \in DOMAIN s[i].arms} ELSE {}) : i \in DOMAIN s}

(* Mutant of CollectGotoLabels: the arms of statements are not searched.   *)
CollectGotoLabelsMutant(s) == {s[i].b : i \in {i \in DOMAIN s : s[i].k = "goto"}}

(* collect_goto_labels                                                     *)
CollectGotoLabels(s) == {n.b : n \in {n \in Nodes(s) : n.k = "goto"}}

RECURSIVE BlockTerminates(_)
(* statement_always_terminates                                             *)
StatementTerminates(n) ==
  CASE n.k \in {"exit", "break", "continue", "goto"} -> TRUE
    [] n.k = "if" -> /\ n.arms[2] # <<>>
                     /\ BlockTerminates(n.arms[1]) /\ BlockTerminates(n.arms[2])
    [] n.k = "try" -> \/ n.finally /\ BlockTerminates(n.arms[3])
                      \/ /\ BlockTerminates(n.arms[1])
                         /\ ~n.catch \/ BlockTerminates(n.arms[2])
    [] OTHER -> FALSE
(* block_always_terminates: a label makes what follows reachable again.    *)
BlockTerminates(s) ==
  \E i \in DOMAIN s : /\ StatementTerminates(s[i])
                      /\ \A j \in i + 1 .. Len(s) : s[j].k # "label"

(* simplify_block                                                          *)
RECURSIVE SimplifyBlock(_, _)
SimplifyBlock(s, labels) ==
  LET Inner(n) == IF HasArms(n)
                    THEN [n EXCEPT !.arms = [j \in DOMAIN n.arms |->
                                               SimplifyBlock(n.arms[j], labels)]]
                    ELSE n
      Retain(acc, n) ==
        CASE n.k = "label" -> IF n.b \in labels
                                THEN [s |-> Append(acc.s, n), live |-> TRUE] ELSE acc
          [] n.k # "label" /\ ~acc.live -> acc
          [] OTHER -> [s |-> Append(acc.s, n), live |-> ~StatementTerminates(n)]
  IN S!Fold(Retain, [s |-> <<>>, live |-> TRUE], [i \in DOMAIN s |-> Inner(s[i])]).s

-----------------------------------------------------------------------------
StructInit ==
  /\ phase = "analyze"
  /\ phis = {}
  /\ returned = <<>>
  /\ cascade \in BOOLEAN
  /\ ctx = <<>>
  /\ ir = <<>>

(* The blocks a try is left for that only return, and what they may hand   *)
(* back: the block's own phi if it has one, else something that is defined *)
(* on every path.  What a finally block has on its stack and merges is     *)
(* taken to be what the method returns.                                    *)
LeavesFor(b) == {e \in leaders : /\ IsEndTry(e) /\ terminator[e].nonlocal
                                 /\ ResolveLeaveTarget(terminator[e].continuation) = b}
ReturnTargets == {b \in CollectLeaveTargets : Ops(b) = {"ret"}}
ReturnValues(b, joins) ==
  LET defined == {d \in Dominators(b) \ {b} : HasBody(d)} \cup {None}
      values == IF b \in joins THEN {Variable(b, FALSE)}
                ELSE {Nothing, Literal} \cup {Variable(d, FALSE) : d \in defined}
                       \cup {Variable(d, TRUE) : d \in joins \cap Dominators(b)}
  IN {value \in values : code \in StrayReturns
                           \/ \A e \in LeavesFor(b) : KnownAt(e, value, Dominators(e))}
Returns(joins) ==
  {values \in [ReturnTargets -> UNION {ReturnValues(b, joins) : b \in ReturnTargets}] :
     \A b \in ReturnTargets : values[b] \in ReturnValues(b, joins)}

(* Blocks where values meet; the caller is one more way into the entry.    *)
Joins == {b \in ReachableBlocks(leaders, edges) : EdgeCount(InEdges(b)) >= IF b = 1 THEN 1 ELSE 2}

(* The phi nodes come with the SSA form: any one join may have some.       *)
Analyze ==
  /\ pc = "built" /\ phase = "analyze"
  /\ \E joins \in {{}} \cup {{b} : b \in Joins} :
       /\ joins # {} => code \in PhiMethods
       /\ phis' = joins
       /\ returned' \in Returns(joins)
  /\ \E tables \in {StructCtx} : ctx' = tables
  /\ phase' = "structure"
  /\ UNCHANGED <<cascade, ir>>

Structure ==
  /\ phase = "structure"
  /\ \E tree \in {StructureMethod} : ir' = tree
  /\ phase' = "simplify"
  /\ UNCHANGED <<phis, returned, cascade, ctx>>

(* One round of simplify_unreachable_control.                              *)
SimplifyUnreachableControl ==
  /\ phase = "simplify"
  /\ \E tree \in {SimplifyBlock(ir, CollectGotoLabels(ir))} :
       /\ ir' = tree
       /\ phase' = IF tree = ir THEN "done" ELSE "simplify"
  /\ UNCHANGED <<phis, returned, cascade, ctx>>

StructNext == Analyze \/ Structure \/ SimplifyUnreachableControl
=============================================================================
