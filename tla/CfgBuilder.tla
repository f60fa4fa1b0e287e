----------------------------- MODULE CfgBuilder -----------------------------
(***************************************************************************)
(* Construction of the control-flow graph of one method                    *)
(* (src/decompiler/cfg/builder.rs and builder/, cfg/graph/).               *)
(*                                                                         *)
(* CfgBuilder::build runs four phases over the method's instructions:      *)
(* find the leaders, cut the blocks and compute their terminators, route   *)
(* ENDTRY and ENDFINALLY through the finally regions they belong to, and   *)
(* add the edges.                                                          *)
(*                                                                         *)
(* Instructions have consecutive offsets 1..Len(code); a delta that lands  *)
(* outside the method or inside an instruction is any delta that leaves    *)
(* this range.  A block is named by its leader, the offset of its first    *)
(* instruction: BlockIds number the leaders in ascending order, so the     *)
(* order of blocks is the same.                                            *)
(***************************************************************************)
EXTENDS Integers, Sequences, SequencesExt, FiniteSets, FiniteSetsExt

CONSTANTS
    None,       \* Option::None
    Programs    \* the methods under study: nonempty sequences of instructions

\* The instruction classes the builder tells apart.  "plain" is everything
\* without control flow, "noreturn" a call in non_returning_calls.
Op == {"plain", "jmp", "jmpif", "jmpifnot", "try", "endtry", "endfinally",
       "ret", "throw", "abort", "noreturn"}

\* `delta` is the jump operand; TRY has two, and 0 means "no handler" there.
Instruction == [op : Op, delta : Int, catch : Int, finally : Int]

ASSUME NoneAssumption == None \notin Int

ASSUME ProgramsAssumption ==
    \A p \in Programs : p \in Seq(Instruction) /\ p # <<>>

VARIABLES
    pc,         \* "leaders", "blocks", "finally", "edges", "built"
    code,       \* the instructions
    leaders,    \* offsets that start a block
    terminator, \* terminator of each block
    edges       \* cfg.edges as triples <<from, to, kind>>

buildVars == <<pc, code, leaders, terminator, edges>>

-----------------------------------------------------------------------------
(***************************************************************************)
(* m is the method, ls its leaders once they are known                     *)
(***************************************************************************)

Offsets(m) == 1..Len(m)

EndOffset(m) == Len(m) + 1

IsOp(m, i, ops) == m[i].op \in ops

\* jump_target: relative to the opcode, None unless an instruction is there.
TargetAt(m, offset) == IF offset \in Offsets(m) THEN offset ELSE None

JumpTarget(m, i) == TargetAt(m, i + m[i].delta)

\* try_targets: a zero delta means the handler is absent.
CatchTarget(m, i) == IF m[i].catch = 0 THEN None ELSE TargetAt(m, i + m[i].catch)
FinallyTarget(m, i) ==
    IF m[i].finally = 0 THEN None ELSE TargetAt(m, i + m[i].finally)

Jumps == {"jmp", "jmpif", "jmpifnot", "endtry"}

\* Every instruction after which a new block starts.
Enders == Jumps \cup {"try", "ret", "throw", "abort", "endfinally", "noreturn"}

\* find_leaders
FindLeaders(m) ==
    {1} \cup {i + 1 : i \in {i \in Offsets(m) : IsOp(m, i, Enders) /\ i + 1 \in Offsets(m)}}
        \cup ({JumpTarget(m, i) : i \in {i \in Offsets(m) : IsOp(m, i, Jumps)}} \ {None})
        \cup ((UNION {{CatchTarget(m, i), FinallyTarget(m, i)} :
                         i \in {i \in Offsets(m) : IsOp(m, i, {"try"})}}) \ {None})

\* offset_to_block_id: the last leader at or before the offset.
BlockOf(ls, offset) == Max({l \in ls : l <= offset})

\* The last instruction of a block: just before the next leader, or the end.
LastOf(m, ls, b) == Min({l \in ls : l > b} \cup {EndOffset(m)}) - 1

BlockOfTarget(ls, target) == IF target = None THEN None ELSE BlockOf(ls, target)

\* The block of the instruction after i, or of the end of the method.
NextBlock(ls, i) == BlockOf(ls, i + 1)

Unknown == [kind |-> "Unknown"]

BranchTo(then_target, else_target) ==
    [kind |-> "Branch", then_target |-> then_target, else_target |-> else_target]

\* compute_terminator.  JMPIFNOT jumps when its operand is false, so its
\* fallthrough is the condition-true side.
ComputeTerminator(m, ls, b) ==
    LET i == LastOf(m, ls, b)
        op == m[i].op
        target == JumpTarget(m, i)
        Transfer ==
            CASE op = "jmp" -> [kind |-> "Jump", target |-> BlockOf(ls, target)]
              [] op = "endtry" -> [kind |-> "EndTry", nonlocal |-> FALSE,
                                   continuation |-> BlockOf(ls, target)]
              [] op = "jmpifnot" -> BranchTo(NextBlock(ls, i), BlockOf(ls, target))
              [] op = "jmpif" -> BranchTo(BlockOf(ls, target), NextBlock(ls, i))
    IN  CASE op \in Jumps -> IF target = None THEN Unknown ELSE Transfer
          [] op = "noreturn" -> [kind |-> "NoReturnCall"]
          [] op = "ret" -> [kind |-> "Return"]
          [] op = "throw" -> [kind |-> "Throw"]
          [] op = "abort" -> [kind |-> "Abort"]
          [] op = "endfinally" -> Unknown
          [] op = "try" -> [kind |-> "TryEntry", body_target |-> NextBlock(ls, i),
                            catch_target |-> BlockOfTarget(ls, CatchTarget(m, i)),
                            finally_target |-> BlockOfTarget(ls, FinallyTarget(m, i))]
          [] op = "plain" -> IF i + 1 \in Offsets(m)
                               THEN [kind |-> "Fallthrough", target |-> NextBlock(ls, i)]
                               ELSE Unknown

(***************************************************************************)
(* Finally routing (builder/finally.rs).  A region is named by the offset  *)
(* of its TRY.                                                             *)
(***************************************************************************)

Endtries(m) == {i \in Offsets(m) : IsOp(m, i, {"endtry"})}

\* ENDTRY instructions with a valid target.
RoutedEndtries(m) == {i \in Endtries(m) : JumpTarget(m, i) # None}

\* collect_try_regions drops a TRY whose catch does not precede its finally.
Regions(m) ==
    {i \in Offsets(m) :
        /\ IsOp(m, i, {"try"})
        /\ ~ /\ CatchTarget(m, i) # None /\ FinallyTarget(m, i) # None
             /\ CatchTarget(m, i) >= FinallyTarget(m, i)}

BodyStart(r) == r + 1

\* body_layout_end: the first handler.
HandlerStart(m, r) ==
    LET handlers == {CatchTarget(m, r), FinallyTarget(m, r)} \ {None}
    IN  Min(IF handlers = {} THEN {EndOffset(m)} ELSE handlers)

\* local_resume_bound: the first forward ENDTRY target inside the range.
LocalResumeBound(m, start, end) ==
    Min({JumpTarget(m, i) : i \in
            {i \in RoutedEndtries(m) :
                /\ i >= start /\ i < end
                /\ JumpTarget(m, i) > i /\ JumpTarget(m, i) < end}}
        \cup {end})

\* catch_continuation, with the end of the method when there is none.
CatchContinuation(m, r) ==
    LET bodyEnd == LocalResumeBound(m, BodyStart(r), HandlerStart(m, r))
    IN  Min({JumpTarget(m, i) : i \in
                {i \in RoutedEndtries(m) :
                    /\ i >= BodyStart(r) /\ i < bodyEnd
                    /\ JumpTarget(m, i) > CatchTarget(m, r)}}
            \cup {EndOffset(m)})

\* The provisional end of the catch layout range (its start is the catch
\* target).
CatchEnd(m, r) ==
    LET end == IF FinallyTarget(m, r) # None THEN FinallyTarget(m, r)
                                             ELSE CatchContinuation(m, r)
    IN  Max({end, CatchTarget(m, r)})

\* The finally region activated last; regions that start at the same
\* instruction are activated in the order of their TRYs.
ActivatedLast(m, active) ==
    CHOOSE r \in active : \A q \in active :
        \/ FinallyTarget(m, q) < FinallyTarget(m, r)
        \/ FinallyTarget(m, q) = FinallyTarget(m, r) /\ q <= r

\* The finally regions active at offset i, when those in `ends` are closed.
Active(m, ends, i) ==
    {r \in Regions(m) : FinallyTarget(m, r) \in 1..i /\ ends[r] = None}

\* An ENDFINALLY closes the region activated last.
CloseAt(m, ends, i) ==
    IF IsOp(m, i, {"endfinally"}) /\ Active(m, ends, i) # {}
      THEN [ends EXCEPT ![ActivatedLast(m, Active(m, ends, i))] = i]
      ELSE ends

\* assign_endfinally_offsets, in the order of the instructions.
EndfinallyOffsets(m) ==
    LET closed[i \in 0..Len(m)] ==
            IF i = 0 THEN [r \in Regions(m) |-> None] ELSE CloseAt(m, closed[i - 1], i)
    IN  closed[Len(m)]

\* Mutant of LexicallyContains: the catch handler is no part of the region.
NoCatchMutant(m, r, offset, ends) ==
    \/ offset >= BodyStart(r) /\ offset < HandlerStart(m, r)
    \/ /\ FinallyTarget(m, r) # None /\ ends[r] # None
       /\ offset >= FinallyTarget(m, r) /\ offset <= ends[r]

\* TryRegion::lexically_contains, with the offsets of the ENDFINALLYs.
LexicallyContains(m, r, offset, ends) ==
    \/ offset >= BodyStart(r) /\ offset < HandlerStart(m, r)
    \/ CatchTarget(m, r) # None /\ offset >= CatchTarget(m, r) /\ offset < CatchEnd(m, r)
    \/ /\ FinallyTarget(m, r) # None /\ ends[r] # None
       /\ offset >= FinallyTarget(m, r) /\ offset <= ends[r]

\* Mutant of Innermost: the region that starts first.
OutermostMutant(rs) == IF rs = {} THEN None ELSE Min(rs)

\* The innermost region of a set of candidates: the one that starts last.
Innermost(rs) == IF rs = {} THEN None ELSE Max(rs)

\* assign_region_parents
ParentRegion(m, r, ends) ==
    Innermost({q \in Regions(m) : q < r /\ LexicallyContains(m, q, r, ends)})

\* record_endtry_owner: two different owners make an ENDTRY ambiguous.
RecordOwner(acc, offset, owner) ==
    CASE offset \in acc.ambiguous -> [acc EXCEPT !.ok = FALSE]
      [] acc.owners[offset] \notin {None, owner} ->
            [owners |-> [acc.owners EXCEPT ![offset] = None],
             ambiguous |-> acc.ambiguous \cup {offset}, ok |-> FALSE]
      [] OTHER -> [acc EXCEPT !.owners[offset] = owner, !.ok = TRUE]

\* One link of a chain: the ENDTRY that acc.offset leaves to belongs to the
\* parent of the region before it.  A chain that comes back to an offset it
\* has seen stops there.
NextLink(m, ends, acc) ==
    LET target == JumpTarget(m, acc.offset)
        parent == ParentRegion(m, acc.owner, ends)
        rec == RecordOwner(acc.rec, target, parent)
    IN  IF \/ ~acc.go \/ acc.offset \in acc.seen
           \/ target \notin RoutedEndtries(m)
           \/ parent = None
          THEN [acc EXCEPT !.go = FALSE]
          ELSE IF ~LexicallyContains(m, parent, target, ends)
                 THEN [acc EXCEPT !.go = FALSE]
                 ELSE [rec |-> rec, go |-> rec.ok, offset |-> target, owner |-> parent,
                       seen |-> acc.seen \cup {acc.offset}]

\* The chain from an ENDTRY whose target is again an ENDTRY; it has at most one
\* link per offset.
FollowChain(m, rec, root, owner, ends) ==
    LET link[k \in 0..Len(m)] ==
            IF k = 0 THEN [rec |-> rec, go |-> TRUE, offset |-> root, owner |-> owner, seen |-> {}]
                     ELSE NextLink(m, ends, link[k - 1])
    IN  link[Len(m)].rec

\* An ENDTRY no other ENDTRY targets is owned by the innermost region around it.
OwnRoot(m, ends, acc, root) ==
    LET owner == Innermost({r \in Regions(m) : LexicallyContains(m, r, root, ends)})
        rec == RecordOwner(acc, root, owner)
    IN  IF owner = None THEN acc
        ELSE IF rec.ok THEN FollowChain(m, rec, root, owner, ends) ELSE rec

Roots(m) == RoutedEndtries(m) \ {JumpTarget(m, i) : i \in RoutedEndtries(m)}

\* assign_endtry_owners, in the order of the instructions.
EndtryOwners(m, ends) ==
    LET owned[i \in 0..Len(m)] ==
            IF i = 0 THEN [owners |-> [j \in RoutedEndtries(m) |-> None],
                           ambiguous |-> {}, ok |-> TRUE]
            ELSE IF i \in Roots(m) THEN OwnRoot(m, ends, owned[i - 1], i)
            ELSE owned[i - 1]
    IN  owned[Len(m)].owners

\* refine_catch_continuations: when no ENDTRY of a catch handler leaves to the
\* provisional end of a region without finally, the handler ends at the most
\* frequent target, the first one among equals.
RefinedCatchEnd(m, r, owners) ==
    LET own == {i \in RoutedEndtries(m) :
                   /\ i >= CatchTarget(m, r) /\ i < CatchEnd(m, r) /\ owners[i] = r}
        targets == {JumpTarget(m, i) : i \in own}
        Count(t) == Cardinality({i \in own : JumpTarget(m, i) = t})
        natural == CHOOSE t \in targets : \A u \in targets :
                      Count(t) > Count(u) \/ (Count(t) = Count(u) /\ t <= u)
    IN  IF targets = {} \/ CatchEnd(m, r) \in targets THEN CatchEnd(m, r)
                                                       ELSE Max({natural, CatchTarget(m, r)})

\* Mutant of RouteEndtry: the natural continuation is the ENDFINALLY itself.
RouteEndtryOffByOneMutant(m, ls, i, r, owners, ends) ==
    LET target == JumpTarget(m, i)
    IN  IF FinallyTarget(m, r) = None
          THEN [kind |-> "EndTry", continuation |-> BlockOf(ls, target),
                nonlocal |-> /\ CatchTarget(m, r) # None
                             /\ target # RefinedCatchEnd(m, r, owners)]
          ELSE [kind |-> "EndTryFinally", continuation |-> BlockOf(ls, target),
                finally_target |-> BlockOf(ls, FinallyTarget(m, r)),
                nonlocal |-> target # i /\ BlockOf(ls, target) # ends[r]]

\* The terminator of an ENDTRY owned by region r.
RouteEndtry(m, ls, i, r, owners, ends) ==
    LET target == JumpTarget(m, i)
    IN  IF FinallyTarget(m, r) = None
          THEN [kind |-> "EndTry", continuation |-> BlockOf(ls, target),
                nonlocal |-> /\ CatchTarget(m, r) # None
                             /\ target # RefinedCatchEnd(m, r, owners)]
          ELSE [kind |-> "EndTryFinally", continuation |-> BlockOf(ls, target),
                finally_target |-> BlockOf(ls, FinallyTarget(m, r)),
                nonlocal |-> /\ target # i
                             /\ ends[r] # None
                             /\ BlockOf(ls, target) # TargetAt(m, ends[r] + 1)]

\* The blocks ENDFINALLY of region r resumes: the continuations of its ENDTRYs,
\* except one that leaves to itself.
NormalContinuations(m, ls, r, owners) ==
    {BlockOf(ls, JumpTarget(m, i)) : i \in
        {i \in RoutedEndtries(m) : owners[i] = r /\ JumpTarget(m, i) # i}}

HasSelfContinuation(m, r, owners) ==
    \E i \in RoutedEndtries(m) : owners[i] = r /\ JumpTarget(m, i) = i

\* apply_finally_routing
FinallyRouting(m, ls, terminators) ==
    LET ends == EndfinallyOffsets(m)
        owners == EndtryOwners(m, ends)
        ClosedBy(i) == {r \in Regions(m) : ends[r] = i /\
                           ~(/\ NormalContinuations(m, ls, r, owners) = {}
                             /\ HasSelfContinuation(m, r, owners))}
    IN  [b \in ls |->
            LET i == LastOf(m, ls, b)
            IN  CASE i \in RoutedEndtries(m) /\ owners[i] # None ->
                        RouteEndtry(m, ls, i, owners[i], owners, ends)
                  [] IsOp(m, i, {"endfinally"}) /\ ClosedBy(i) # {} ->
                        [kind |-> "EndFinally", normal_continuations |->
                            NormalContinuations(m, ls, Max(ClosedBy(i)), owners)]
                  [] OTHER -> terminators[b]]

\* Mutant of EdgesOf: a TRY has no edge to its finally block.
EdgesWithoutFinallyMutant(b, t) ==
    CASE t.kind \in {"Fallthrough", "Jump"} -> {<<b, t.target, "Unconditional">>}
      [] t.kind = "Branch" -> {<<b, t.then_target, "ConditionalTrue">>,
                               <<b, t.else_target, "ConditionalFalse">>}
      [] t.kind = "TryEntry" ->
            {<<b, t.body_target, "Unconditional">>} \cup
            ({<<b, t.catch_target, "Exception">>} \ {<<b, None, "Exception">>})
      [] t.kind = "EndTry" -> {<<b, t.continuation, "Unconditional">>}
      [] t.kind = "EndTryFinally" -> {<<b, t.finally_target, "Finally">>}
      [] t.kind = "EndFinally" -> {<<b, c, "FinallyContinuation">> :
                                      c \in t.normal_continuations}
      [] OTHER -> {}

\* The edges build_cfg adds for one terminator.
EdgesOf(b, t) ==
    CASE t.kind \in {"Fallthrough", "Jump"} -> {<<b, t.target, "Unconditional">>}
      [] t.kind = "Branch" -> {<<b, t.then_target, "ConditionalTrue">>,
                               <<b, t.else_target, "ConditionalFalse">>}
      [] t.kind = "TryEntry" ->
            {<<b, t.body_target, "Unconditional">>} \cup
            ({<<b, t.catch_target, "Exception">>,
              <<b, t.finally_target, "FinallyException">>}
                \ {<<b, None, "Exception">>, <<b, None, "FinallyException">>})
      [] t.kind = "EndTry" -> {<<b, t.continuation, "Unconditional">>}
      [] t.kind = "EndTryFinally" -> {<<b, t.finally_target, "Finally">>}
      [] t.kind = "EndFinally" -> {<<b, c, "FinallyContinuation">> :
                                      c \in t.normal_continuations}
      [] OTHER -> {}

-----------------------------------------------------------------------------
BuildInit ==
    /\ pc = "leaders"
    /\ code \in Programs
    /\ leaders = {}
    /\ terminator = <<>>
    /\ edges = {}

FindLeadersStep ==
    /\ pc = "leaders"
    /\ leaders' = FindLeaders(code)
    /\ pc' = "blocks"
    /\ UNCHANGED <<code, terminator, edges>>

CreateBlocks ==
    /\ pc = "blocks"
    /\ terminator' = [b \in leaders |-> ComputeTerminator(code, leaders, b)]
    /\ pc' = "finally"
    /\ UNCHANGED <<code, leaders, edges>>

ApplyFinallyRouting ==
    /\ pc = "finally"
    /\ terminator' = FinallyRouting(code, leaders, terminator)
    /\ pc' = "edges"
    /\ UNCHANGED <<code, leaders, edges>>

BuildCfg ==
    /\ pc = "edges"
    /\ edges' = UNION {EdgesOf(b, terminator[b]) : b \in leaders}
    /\ pc' = "built"
    /\ UNCHANGED <<code, leaders, terminator>>

BuildNext == FindLeadersStep \/ CreateBlocks \/ ApplyFinallyRouting \/ BuildCfg

-----------------------------------------------------------------------------
\* Cfg::reachable_blocks: what dead-code detection takes for live.
EdgeTargets(es, bs) == {e[2] : e \in {e \in es : e[1] \in bs}}

ReachableBlocks(ls, es) ==
    LET reach[k \in 0..Cardinality(ls)] ==
            IF k = 0 THEN {1}
            ELSE reach[k - 1] \cup EdgeTargets(es, reach[k - 1])
    IN  reach[Cardinality(ls)]

\* add_block: the blocks listed in cfg.exits.
Exits ==
    {b \in leaders :
        \/ terminator[b].kind \in {"Return", "Throw", "Abort", "NoReturnCall"}
        \/ /\ terminator[b].kind = "EndFinally"
           /\ terminator[b].normal_continuations = {}}
=============================================================================
