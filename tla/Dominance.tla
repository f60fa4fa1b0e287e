----------------------------- MODULE Dominance -----------------------------
(***************************************************************************)
(* Dominance analysis of a control-flow graph                              *)
(* (src/decompiler/cfg/ssa/dominance.rs, cfg/graph/traversal.rs).          *)
(*                                                                         *)
(* compute() runs three phases over an immutable graph: an iterative       *)
(* depth-first search that yields the reverse post-order, the fixpoint of  *)
(* Cooper, Harvey and Kennedy for the immediate dominators, and the walk   *)
(* from every join point that yields the dominance frontiers.  Loop        *)
(* detection, region structuring and the placement of definitions all ask  *)
(* strictly_dominates, so a wrong idom changes the decompiled program.     *)
(***************************************************************************)
EXTENDS Naturals, Sequences, SequencesExt, FiniteSets, FiniteSetsExt

CONSTANTS
    Block,          \* block ids, a set of naturals
    Entry,          \* cfg.entry
    None,           \* Option::None
    Graphs,         \* the graphs under study: functions Block -> Seq(Block)
    MaxPasses,      \* bound on fixpoint passes (1000 in the code)
    MaxIterations   \* bound on finger moves (MAX_ITERATIONS, 1000 in the code)

ASSUME BlockAssumption ==
    Block \subseteq Nat /\ IsFiniteSet(Block) /\ Entry \in Block /\ None \notin Block

ASSUME GraphsAssumption == Graphs \subseteq [Block -> Seq(Block)]

ASSUME BoundsAssumption == MaxPasses \in Nat /\ MaxIterations \in Nat

VARIABLES
    pc,             \* "dfs", "idom", "df", "done"
    successors,     \* the graph: successors of each block, in edge order
    stack,          \* DFS frames <<block, number of successors visited>>
    visited,        \* blocks the DFS entered
    order,          \* post-order built so far; its reverse once DFS is over
    idom,           \* immediate-dominator estimate, None when unknown
    next,           \* position in `order` of the next block of this pass
    changed,        \* did this pass change an estimate?
    iteration_count,\* passes started
    todo,           \* join points whose frontier walk is still to be done
    frontier        \* dominance frontier of each block

vars == <<pc, successors, stack, visited, order, idom, next, changed,
          iteration_count, todo, frontier>>

-----------------------------------------------------------------------------
\* cfg.predecessors(b): edges are added block by block, so the sources of the
\* edges into b come in ascending order (a parallel edge repeats its source,
\* which matters only to the number of predecessors).
Predecessors(cfg, b) == {p \in Block : b \in ToSet(cfg[p])}

EdgesInto(cfg, b) ==
    UNION {{<<p, i>> : i \in {i \in DOMAIN cfg[p] : cfg[p][i] = b}} : p \in Block}

\* Blocks with at least two predecessors.
JoinPoints(cfg) == {b \in Block : Cardinality(EdgesInto(cfg, b)) >= 2}

(***************************************************************************)
(* Walks up a dominator tree: `tree` is the idom map, None outside it      *)
(***************************************************************************)

\* idom_parent: the entry's self-idom is a sentinel for "no parent".
Parent(tree, b) == IF tree[b] = b THEN None ELSE tree[b]

\* The block k levels above b, None above a root.
Ancestor(tree, b, k) ==
    LET up[j \in 0..k] ==
            IF j = 0 THEN b
            ELSE LET below == up[j - 1]
                 IN  IF below = None THEN None ELSE Parent(tree, below)
    IN  up[k]

\* depth_in_dominator_tree: b and its ancestors, never more than idom.len().
Depth(tree, b) ==
    Cardinality({k \in 0..(Cardinality(Block) - 1) : Ancestor(tree, b, k) # None})

\* The third loop of find_common_dominator stops after k joint moves: the
\* fingers met, one of them has no parent, or the moves ran out.
Meets(tree, finger1, finger2, moved, k) ==
    LET f1 == Ancestor(tree, finger1, k)
        f2 == Ancestor(tree, finger2, k)
    IN  \/ f1 = f2
        \/ Parent(tree, f1) = None \/ Parent(tree, f2) = None
        \/ moved + k > MaxIterations

\* Mutant of FindCommonDominator: the fingers, brought to one depth, move once
\* before they are compared.
MoveBeforeComparingMutant(tree, finger1, finger2) ==
    LET lift == Depth(tree, finger1) - Depth(tree, finger2)
        level == IF lift > 0 THEN Ancestor(tree, finger1, lift) ELSE finger1
    IN  IF Parent(tree, level) = None THEN level ELSE Parent(tree, level)

\* find_common_dominator: the deeper finger climbs to the other's depth, then
\* both climb until they meet.  Each move counts against MaxIterations, and
\* the first finger is returned as it stands when they run out.
FindCommonDominator(tree, finger1, finger2) ==
    LET depth1 == Depth(tree, finger1)
        depth2 == Depth(tree, finger2)
        lift1 == IF depth1 > depth2 THEN depth1 - depth2 ELSE 0
        lift2 == IF depth2 > depth1 THEN depth2 - depth1 ELSE 0
        level1 == Ancestor(tree, finger1, lift1)
        level2 == Ancestor(tree, finger2, lift2)
        stop == Min({k \in 0..Cardinality(Block) :
                        Meets(tree, level1, level2, lift1 + lift2, k)})
    IN  CASE lift1 > MaxIterations -> Ancestor(tree, finger1, MaxIterations + 1)
          [] lift2 > MaxIterations -> finger1
          [] OTHER -> Ancestor(tree, level1, stop)

\* Mutant of IntersectDominators: a predecessor is represented by its idom.
IntersectIdomsMutant(tree, preds) ==
    LET result[S \in SUBSET preds] ==
            IF S = {} THEN None
            ELSE LET before == result[S \ {Max(S)}]
                 IN  IF tree[Max(S)] = None THEN before
                     ELSE IF before = None THEN tree[Max(S)]
                     ELSE FindCommonDominator(tree, before, Max(S))
    IN  result[preds]

\* intersect_dominators: predecessors without an estimate are skipped, the
\* first one with an estimate stands for itself; result[S] is the result after
\* the predecessors in S, the greatest of which came last.
IntersectDominators(tree, preds) ==
    LET result[S \in SUBSET preds] ==
            IF S = {} THEN None
            ELSE LET before == result[S \ {Max(S)}]
                 IN  IF tree[Max(S)] = None THEN before
                     ELSE IF before = None THEN Max(S)
                     ELSE FindCommonDominator(tree, before, Max(S))
    IN  result[preds]

\* compute_df: the blocks visited on the way up from predecessor p of a join,
\* up to but not including the join's immediate dominator `top`.
FrontierWalk(tree, top, p) ==
    {Ancestor(tree, p, k) : k \in
        {k \in 0..Cardinality(Block) :
            \A j \in 0..k : Ancestor(tree, p, j) \notin {None, top}}}

-----------------------------------------------------------------------------

Init ==
    /\ pc = "dfs"
    /\ successors \in Graphs
    /\ stack = <<<<Entry, 0>>>>
    /\ visited = {Entry}
    /\ order = <<>>
    /\ idom = [b \in Block |-> IF b = Entry THEN Entry ELSE None]
    /\ next = 1
    /\ changed = FALSE
    /\ iteration_count = 0
    /\ todo = {}
    /\ frontier = [b \in Block |-> {}]

Frame == Last(stack)

\* The top frame has a successor left: enter it unless it was entered before.
DfsVisit ==
    /\ pc = "dfs"
    /\ stack # <<>>
    /\ Frame[2] < Len(successors[Frame[1]])
    /\ LET succ == successors[Frame[1]][Frame[2] + 1]
           advanced == [stack EXCEPT ![Len(stack)][2] = @ + 1]
       IN  /\ stack' = IF succ \in visited THEN advanced
                                           ELSE Append(advanced, <<succ, 0>>)
           /\ visited' = visited \cup {succ}
    /\ UNCHANGED <<pc, successors, order, idom, next, changed,
                   iteration_count, todo, frontier>>

\* The top frame is exhausted: its block is next in post-order.
DfsPop ==
    /\ pc = "dfs"
    /\ stack # <<>>
    /\ Frame[2] >= Len(successors[Frame[1]])
    /\ order' = Append(order, Frame[1])
    /\ stack' = Front(stack)
    /\ UNCHANGED <<pc, successors, visited, idom, next, changed,
                   iteration_count, todo, frontier>>

\* order.reverse(), and the first pass of the fixpoint starts.
DfsDone ==
    /\ pc = "dfs"
    /\ stack = <<>>
    /\ order' = Reverse(order)
    /\ pc' = "idom"
    /\ changed' = FALSE
    /\ iteration_count' = 1
    /\ UNCHANGED <<successors, stack, visited, idom, next, todo, frontier>>

\* Mutant of ProcessBlock: an estimate counts as changed when it is rewritten.
ProcessAlwaysChangedMutant ==
    /\ pc = "idom"
    /\ next <= Len(order)
    /\ LET b == order[next]
       IN  idom' = [idom EXCEPT ![b] =
                       IF b = Entry THEN Entry
                       ELSE IntersectDominators(idom, Predecessors(successors, b))]
    /\ changed' = TRUE
    /\ next' = next + 1
    /\ UNCHANGED <<pc, successors, stack, visited, order, iteration_count,
                   todo, frontier>>

\* One block of a pass: the entry keeps its sentinel, any other block takes
\* the intersection of its predecessors.
ProcessBlock ==
    /\ pc = "idom"
    /\ next <= Len(order)
    /\ LET b == order[next]
           new_idom == IF b = Entry THEN Entry
                       ELSE IntersectDominators(idom, Predecessors(successors, b))
       IN  /\ idom' = [idom EXCEPT ![b] = new_idom]
           /\ changed' = (changed \/ new_idom # idom[b])
    /\ next' = next + 1
    /\ UNCHANGED <<pc, successors, stack, visited, order, iteration_count,
                   todo, frontier>>

\* A pass that changed something is followed by another one while passes last.
NextPass ==
    /\ pc = "idom"
    /\ next > Len(order)
    /\ changed
    /\ iteration_count < MaxPasses
    /\ iteration_count' = iteration_count + 1
    /\ changed' = FALSE
    /\ next' = 1
    /\ UNCHANGED <<pc, successors, stack, visited, order, idom, todo, frontier>>

\* Mutant of IdomDone: a block with two predecessors is not taken for a join.
IdomDoneThreeWayMutant ==
    /\ pc = "idom"
    /\ next > Len(order)
    /\ ~changed \/ iteration_count >= MaxPasses
    /\ pc' = "df"
    /\ todo' = {b \in Block : Cardinality(EdgesInto(successors, b)) > 2}
    /\ UNCHANGED <<successors, stack, visited, order, idom, next, changed,
                   iteration_count, frontier>>

\* Converged, or out of passes: go on with what there is.
IdomDone ==
    /\ pc = "idom"
    /\ next > Len(order)
    /\ ~changed \/ iteration_count >= MaxPasses
    /\ pc' = "df"
    /\ todo' = JoinPoints(successors)
    /\ UNCHANGED <<successors, stack, visited, order, idom, next, changed,
                   iteration_count, frontier>>

\* The blocks the walks from the predecessors of join b visit.
Walked(cfg, tree, b) == UNION {FrontierWalk(tree, tree[b], p) : p \in Predecessors(cfg, b)}

\* One join point: it enters the frontier of every block between a predecessor
\* and its immediate dominator.
WalkJoin ==
    /\ pc = "df"
    /\ todo # {}
    /\ LET b == Min(todo)
           walked == Walked(successors, idom, b)
       IN  /\ frontier' = [d \in Block |-> IF d \in walked THEN frontier[d] \cup {b}
                                                            ELSE frontier[d]]
           /\ todo' = todo \ {b}
    /\ UNCHANGED <<pc, successors, stack, visited, order, idom, next, changed,
                   iteration_count>>

DfDone ==
    /\ pc = "df"
    /\ todo = {}
    /\ pc' = "done"
    /\ UNCHANGED <<successors, stack, visited, order, idom, next, changed,
                   iteration_count, todo, frontier>>

\* The result is only read from here on.
Finished == pc = "done" /\ UNCHANGED vars

Next == DfsVisit \/ DfsPop \/ DfsDone \/ ProcessBlock \/ NextPass \/ IdomDone
           \/ WalkJoin \/ DfDone \/ Finished

Spec == Init /\ [][Next]_vars

(***************************************************************************)
(* Queries on the result                                                   *)
(***************************************************************************)

\* DominanceInfo::strictly_dominates: a is a proper ancestor of b.
StrictlyDominates(a, b) ==
    a # b /\ \E k \in 1..Cardinality(Block) : Ancestor(idom, b, k) = a

\* build_dominator_tree / children: the blocks whose parent is b.
Children(b) == {c \in Block : c # b /\ idom[c] = b}

(***************************************************************************)
(* Reference definitions, by paths                                         *)
(***************************************************************************)

\* Blocks on some path from the entry that avoids the blocks in A.
ReachableAvoiding(cfg, A) ==
    LET reach[k \in 0..Cardinality(Block)] ==
            IF k = 0 THEN {Entry} \ A
            ELSE LET before == reach[k - 1]
                 IN  before \cup ((UNION {ToSet(cfg[b]) : b \in before}) \ A)
    IN  reach[Cardinality(Block)]

Reachable(cfg) == ReachableAvoiding(cfg, {})

\* d dominates b: every path from the entry to b goes through d.
Dominates(cfg, d, b) == b = d \/ b \notin ReachableAvoiding(cfg, {d})

StrictDominators(cfg, b) == {d \in Reachable(cfg) \ {b} : Dominates(cfg, d, b)}

(***************************************************************************)
(* Properties                                                              *)
(***************************************************************************)

\* What every consumer relies on: a strictly dominates b in the computed tree
\* exactly when every path from the entry to b goes through a, and blocks the
\* entry does not reach are outside the tree, neither parent nor child.
DominanceCorrect ==
    pc \in {"df", "done"} =>
        /\ \A b \in Reachable(successors) : \A a \in Block :
               StrictlyDominates(a, b) <=> a \in StrictDominators(successors, b)
        /\ \A b \in Block \ Reachable(successors) : idom[b] = None /\ Children(b) = {}

\* While the fixpoint runs, an estimate may be too low in the tree but never
\* too high: no true dominator is ever lost from the chain above a block.
EstimateKeepsDominators ==
    \A b \in Reachable(successors) :
        idom[b] # None => \A d \in StrictDominators(successors, b) : StrictlyDominates(d, b)

\* compute_df's documented definition: n is in the frontier of d when d
\* dominates a predecessor of n and does not strictly dominate n.
InFrontier(cfg, d, n) ==
    /\ \E p \in Predecessors(cfg, n) \cap Reachable(cfg) : Dominates(cfg, d, p)
    /\ d \notin StrictDominators(cfg, n)

\* The computed frontiers are the documented ones, except at the entry block:
\* the call into it is no edge, so as a loop header it counts one predecessor
\* and is skipped as a join.
FrontierCorrect ==
    pc = "done" =>
        \A d \in Reachable(successors), n \in Reachable(successors) \ {Entry} :
            n \in frontier[d] <=> InFrontier(successors, d, n)

\* The fixpoint settles long before the pass bound: one pass per block and one
\* to notice that nothing changed.
PassesBounded == iteration_count <= Cardinality(Reachable(successors)) + 1
=============================================================================
