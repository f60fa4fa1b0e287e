----------------------------- MODULE SsaBuilder -----------------------------
(***************************************************************************)
(* Construction of SSA form for one method from its control-flow graph     *)
(* (src/decompiler/cfg/ssa/builder.rs and builder/).                       *)
(*                                                                         *)
(* The builder executes every block on symbolic values, again and again,   *)
(* in block order, until no block's entry or exit changes or the cap on    *)
(* passes is reached: a block's entry is the join of its predecessors'     *)
(* exits, with a phi wherever they disagree.  It then marks the phis that  *)
(* may hold an unknown value and assembles the blocks once more, recording *)
(* an issue at each instruction that uses such a value.                    *)
(*                                                                         *)
(* An SSA variable is <<kind, index, version>>; its base is the first two. *)
(* Collection shapes, uses and statement text are left out.                *)
(***************************************************************************)
EXTENDS Integers, Sequences, SequencesExt, FiniteSets, FiniteSetsExt, Functions

CONSTANTS
    Methods,    \* the methods under study
    Slots,      \* the local, static and argument slots they use
    MaxDepth    \* MAX_SYMBOLIC_STACK_DEPTH

\* A slot is a kind and an index.
ASSUME SlotsAssumption == Slots \subseteq {"loc", "static", "arg"} \X Nat

\* A method: its blocks 1..Len(code) in BlockId order, the edges between them,
\* its number of arguments, and whether they arrive on the evaluation stack.
\* `handler` names the blocks covered by a TRY with that catch block (0: none);
\* the builder does not look at it, the VM does.
ASSUME MethodsAssumption ==
    \A m \in Methods :
        /\ Len(m.code) > 0
        /\ m.edges \subseteq (1..Len(m.code)) \X (1..Len(m.code))
               \X {"Normal", "Exception", "FinallyException"}
        /\ m.args \in Nat
        /\ \A i \in 0..(m.args - 1) : <<"arg", i>> \in Slots
        /\ m.onStack \in BOOLEAN
        /\ m.handler \in [1..Len(m.code) -> 0..Len(m.code)]

ASSUME DepthAssumption == MaxDepth \in Nat \ {0}

VARIABLES
    pc,         \* "loop", "pass", "assemble", "built"
    method,     \* the input
    block,      \* the block about to be processed in this pass
    changed,
    iterations,
    versions,   \* next version of each base, 0 when it has none yet
    entry,      \* entry_stacks and entry_slots of the blocks processed so far
    exit,       \* exit_stacks and exit_slots
    tainted,    \* tainted_variables
    ssa         \* the assembled blocks: phis, and the symbolic state after them

builderVars ==
    <<pc, method, block, changed, iterations, versions, entry, exit, tainted, ssa>>

-----------------------------------------------------------------------------
(***************************************************************************)
(* Variables                                                               *)
(***************************************************************************)
Blocks == 1..Len(method.code)

\* The map f with one entry set, and with the entries of g set.
With(f, key, value) == [k \in DOMAIN f \cup {key} |-> IF k = key THEN value ELSE f[k]]
Overridden(f, g) == [k \in DOMAIN f \cup DOMAIN g |-> IF k \in DOMAIN g THEN g[k] ELSE f[k]]

Entry == 1                  \* BlockId::ENTRY
VirtualSource == 0          \* entry_source, the caller

Var(base, version) == <<base[1], base[2], version>>
Initial(base) == Var(base, 0)

Unknown == Initial(<<"?", 0>>)
VmNull == Initial(<<"null", 0>>)
ExceptionPayload(b) == Initial(<<"exception", b>>)
PhiVar(b, depth) == Var(<<"p", b>>, depth)

Temp == <<"t", 0>>
Arg(i) == <<"arg", i>>
IsStatic(slot) == slot[1] = "static"

Bases == Slots \cup {Temp}

IsUnknownOrTainted(v) == v = Unknown \/ v \in tainted

\* or_insert(1): version 0 of the base is already taken.
Reserve(vs, bases) ==
    [x \in Bases |-> IF x \in bases /\ vs[x] = 0 THEN 1 ELSE vs[x]]

\* reserve_argument_versions
Reserved == Reserve([x \in Bases |-> 0], {Arg(i) : i \in 0..(method.args - 1)})

-----------------------------------------------------------------------------
(***************************************************************************)
(* Joins                                                                   *)
(***************************************************************************)
HasEdge(p, b, kind) == <<p, b, kind>> \in method.edges

\* Predecessors, an exceptional entry of a finally block excepted.
JoinPredecessors(b) ==
    {p \in Blocks : HasEdge(p, b, "Normal") \/ HasEdge(p, b, "Exception")}

\* initial_entry_stack: the last argument is deepest.
InitialEntryStack(b) ==
    IF b = Entry /\ method.onStack
    THEN [i \in 1..method.args |-> Initial(Arg(method.args - i))]
    ELSE <<>>

\* incoming_stacks: a predecessor not executed yet contributes nothing.
IncomingStacks(b) ==
    LET thrown == {p \in JoinPredecessors(b) : HasEdge(p, b, "Exception")}
    IN  Overridden([p \in JoinPredecessors(b) \cap DOMAIN exit |-> exit[p].stack],
                   [p \in thrown |-> <<ExceptionPayload(b)>>])

\* A merge that begins DUP, slot load, conditional jump.
IsDupJoin(b) ==
    LET code == method.code[b]
    IN  /\ Len(code) >= 3
        /\ code[1].op = "dup"
        /\ code[2].op = "load" /\ code[3].op = "branch"

\* recover_dup_join_value: the predecessors whose stack is a proper prefix of
\* the other's, one shorter, with a known value on top.
RecoveredDup(b, stacks) ==
    {p \in DOMAIN stacks :
        /\ IsDupJoin(b)
        /\ Cardinality(DOMAIN stacks) = 2
        /\ stacks[p] # <<>> /\ Last(stacks[p]) # Unknown
        /\ \E q \in DOMAIN stacks : /\ Len(stacks[q]) = Len(stacks[p]) + 1
                                    /\ IsPrefix(stacks[p], stacks[q])}

\* Mutant: stacks are aligned at the bottom.
AlignedBottomMutant(stack, depth, maxDepth) ==
    IF depth \in DOMAIN stack THEN stack[depth] ELSE Unknown

\* A stack of the join, padded at the bottom to the common depth.
Aligned(stack, depth, maxDepth) ==
    LET index == depth - Max({0, maxDepth - Len(stack)})
    IN  IF index \in DOMAIN stack THEN stack[index] ELSE Unknown

Agree(operands) == Cardinality(Range(operands)) = 1

\* compute_join_entry
JoinEntry(b) ==
    LET stacks == IncomingStacks(b)
        initial == InitialEntryStack(b)
        sources == IF initial = <<>> THEN stacks ELSE With(stacks, VirtualSource, initial)
        maxDepth == Min({MaxDepth, Max({0} \cup {Len(sources[s]) : s \in DOMAIN sources})})
        recovered == RecoveredDup(b, stacks)
        Operand(s, depth) ==
            IF s \in recovered /\ depth \in DOMAIN stacks[s] THEN stacks[s][depth]
            ELSE IF s \in recovered /\ depth = Len(stacks[s]) + 1 THEN Last(stacks[s])
            ELSE Aligned(sources[s], depth, maxDepth)
        operands == [depth \in 1..maxDepth |-> [s \in DOMAIN sources |-> Operand(s, depth)]]
        merged == {depth \in 1..maxDepth : ~Agree(operands[depth])}
    IN  IF JoinPredecessors(b) = {} THEN [stack |-> initial, phis |-> {}]
        ELSE [stack |-> [depth \in 1..maxDepth |->
                            IF depth \in merged THEN PhiVar(b, depth)
                            ELSE CHOOSE v \in Range(operands[depth]) : TRUE],
              phis  |-> {[target |-> PhiVar(b, depth), operands |-> operands[depth]]
                            : depth \in merged}]

\* The value of a slot on each incoming edge; absent_slot_value where a
\* predecessor never wrote it.
SlotOperands(slot, states) ==
    [s \in DOMAIN states |->
        IF slot \in DOMAIN states[s] THEN states[s][slot]
        ELSE IF IsStatic(slot) THEN Initial(slot) ELSE Unknown]

\* compute_join_slots, with the version counter it advances.
JoinSlots(b, vs) ==
    LET params == IF b = Entry /\ ~method.onStack
                  THEN {Arg(i) : i \in 0..(method.args - 1)} ELSE {}
        known == [p \in JoinPredecessors(b) \cap DOMAIN exit |-> exit[p].slots]
        states == IF b = Entry
                  THEN With(known, VirtualSource, [x \in params |-> Initial(x)])
                  ELSE known
        names == UNION {DOMAIN states[s] : s \in DOMAIN states}
        reserved == Reserve(vs, params \cup {x \in names : IsStatic(x)})
        operands == [x \in names |-> SlotOperands(x, states)]
        merged == {x \in names : ~Agree(operands[x])}
    IN  [slots |-> [x \in names |->
                        IF x \in merged THEN Var(x, reserved[x])
                        ELSE CHOOSE v \in Range(operands[x]) : TRUE],
         phis  |-> {[target |-> Var(x, reserved[x]), operands |-> operands[x]] : x \in merged},
         versions |-> [x \in Bases |-> IF x \in merged THEN reserved[x] + 1 ELSE reserved[x]]]

-----------------------------------------------------------------------------
(***************************************************************************)
(* Straight-line execution                                                 *)
(*                                                                         *)
(* A symbolic state: the stack (bottom first), the reaching definition of  *)
(* each slot, the version counter, the assignments emitted so far and the  *)
(* indices of the instructions at which an issue was recorded.  `count` is *)
(* the number of instructions executed.                                    *)
(***************************************************************************)
Symbolic(stack, slots, vs) ==
    [stack |-> stack, slots |-> slots, versions |-> vs,
     stmts |-> <<>>, issues |-> {}, count |-> 0]

\* An assignment copies a variable, computes a value from its operands, or is
\* the literal depth of the stack.
Copy(target, source) == [target |-> target, op |-> "copy", args |-> <<source>>]
Compute(target, args) == [target |-> target, op |-> "compute", args |-> args]
Literal(target, value) == [target |-> target, op |-> "literal", value |-> value]

\* The top n values, deepest first; a missing one is unknown.
Popped(stack, n) ==
    LET have == Min({n, Len(stack)})
    IN  [i \in 1..(n - have) |-> Unknown] \o SubSeq(stack, Len(stack) - have + 1, Len(stack))

Rest(stack, n) == SubSeq(stack, 1, Max({0, Len(stack) - n}))

Advance(s, issue) ==
    [s EXCEPT !.count = @ + 1, !.issues = IF issue THEN @ \cup {s.count + 1} ELSE @]

\* Mutant: the same version is handed out again.
DefineSameMutant(s, base) == s

\* fresh_var
Fresh(s, base) == Var(base, s.versions[base])
Define(s, base) == [s EXCEPT !.versions[base] = @ + 1]

\* Fixed-shape reorders: how many values they need, and what they leave of
\* them, deepest first; a negative index is a fresh copy.
Reorders ==
    [dup      |-> <<1, <<1, -1>>>>,
     over     |-> <<2, <<1, 2, -1>>>>,
     tuck     |-> <<2, <<-2, 1, 2>>>>,
     swap     |-> <<2, <<2, 1>>>>,
     rot      |-> <<3, <<2, 3, 1>>>>,
     reverse3 |-> <<3, <<3, 2, 1>>>>,
     drop     |-> <<1, <<>>>>,
     nip      |-> <<2, <<2>>>>]

\* apply_reorder: too few values leave the stack as it is.
ApplyReorder(s, op) ==
    LET arity == Reorders[op][1]
        shape == Reorders[op][2]
        top == Popped(s.stack, arity)
        copied == \E i \in DOMAIN shape : shape[i] < 0
        source == top[-Min(Range(shape))]
        short == Len(s.stack) < arity
        moved == [s EXCEPT !.stack = Rest(@, arity) \o
                     [i \in DOMAIN shape |-> IF shape[i] < 0 THEN Fresh(s, Temp) ELSE top[shape[i]]]]
        issue == short \/ Range(top) \cap tainted # {}
    IN  Advance(IF short THEN s
                ELSE IF copied
                THEN [Define(moved, Temp) EXCEPT !.stmts = Append(@, Copy(Fresh(s, Temp), source))]
                ELSE moved,
                issue)

\* DEPTH, no issue whatever the stack holds.
ApplyDepth(s) ==
    Advance([Define(s, Temp) EXCEPT
               !.stack = Append(@, Fresh(s, Temp)),
               !.stmts = Append(@, Literal(Fresh(s, Temp), Len(s.stack)))],
            FALSE)

\* Opcodes with a fixed effect: pop n operands, push the result if any.
ApplyCompute(s, n, pushes) ==
    LET args == Popped(s.stack, n)
        issue == Len(s.stack) < n \/ \E v \in Range(args) : IsUnknownOrTainted(v)
        popped == [s EXCEPT !.stack = Rest(@, n)]
    IN  Advance(IF pushes
                THEN [Define(popped, Temp) EXCEPT
                        !.stack = Append(@, Fresh(s, Temp)),
                        !.stmts = Append(@, Compute(Fresh(s, Temp), args))]
                ELSE popped,
                issue)

\* A load reads the reaching definition; without one it defines a snapshot.
ApplyLoad(s, slot) ==
    LET reaching == slot \in DOMAIN s.slots
        issue == IF reaching THEN IsUnknownOrTainted(s.slots[slot]) ELSE ~IsStatic(slot)
        target == Fresh(s, slot)
        loaded == [Define(s, slot) EXCEPT
                     !.stack = Append(@, target),
                     !.stmts = Append(@, IF reaching THEN Copy(target, s.slots[slot])
                                         ELSE Compute(target, <<>>)),
                     !.slots = IF reaching THEN @ ELSE With(@, slot, target)]
    IN  Advance(loaded, issue)

\* A store defines a new version of its slot.
ApplyStore(s, slot) ==
    LET value == Popped(s.stack, 1)[1]
        target == Fresh(s, slot)
        stored == [Define(s, slot) EXCEPT
                     !.stack = Rest(@, 1),
                     !.stmts = Append(@, Copy(target, value)),
                     !.slots = With(@, slot, target)]
    IN  Advance(stored, IsUnknownOrTainted(value))

\* INITSLOT: the locals become null.
ApplyInitslot(s, locals) ==
    Advance([s EXCEPT !.slots =
                Overridden(@, [x \in {<<"loc", i>> : i \in 0..(locals - 1)} |-> VmNull])],
            FALSE)

\* RET of a method that returns a value: the top is read, not popped.
ApplyRet(s) ==
    Advance(s, s.stack = <<>> \/ IsUnknownOrTainted(Popped(s.stack, 1)[1]))

\* apply_instruction
ApplyInstruction(s, instr) ==
    CASE instr.op \in DOMAIN Reorders -> ApplyReorder(s, instr.op)
      [] instr.op = "depth"    -> ApplyDepth(s)
      [] instr.op = "compute"  -> ApplyCompute(s, instr.n, TRUE)
      [] instr.op = "consume"  -> ApplyCompute(s, instr.n, FALSE)
      [] instr.op = "branch"   -> ApplyCompute(s, 1, FALSE)
      [] instr.op = "load"     -> ApplyLoad(s, instr.slot)
      [] instr.op = "store"    -> ApplyStore(s, instr.slot)
      [] instr.op = "initslot" -> ApplyInitslot(s, instr.n)
      [] instr.op = "ret"      -> ApplyRet(s)

\* What a block is made of.
Instruction ==
    [op : DOMAIN Reorders \cup {"depth", "branch", "ret"}]
    \cup [op : {"compute", "consume"}, n : Nat]
    \cup [op : {"load", "store"}, slot : Slots]
    \cup {i \in [op : {"initslot"}, n : Nat] : \A k \in 0..(i.n - 1) : <<"loc", k>> \in Slots}

ASSUME CodeAssumption == \A m \in Methods : m.code \in Seq(Seq(Instruction))

\* The symbolic state after the first n instructions of block b.
ExecuteUpTo(s, b, n) ==
    LET after[k \in 0..n] ==
            IF k = 0 THEN s ELSE ApplyInstruction(after[k - 1], method.code[b][k])
    IN  after[n]

\* execute_block
ExecuteBlock(s, b) == ExecuteUpTo(s, b, Len(method.code[b]))

-----------------------------------------------------------------------------
(***************************************************************************)
(* build_ssa_blocks                                                        *)
(***************************************************************************)
BuilderInit ==
    /\ pc = "loop"
    /\ method \in Methods
    /\ block = Entry
    /\ changed = TRUE
    /\ iterations = 0
    /\ versions = [x \in Bases |-> 0]
    /\ entry = <<>>
    /\ exit = <<>>
    /\ tainted = {}
    /\ ssa = <<>>

\* while changed && iterations <= max_iterations
AnotherPass == changed /\ iterations <= Len(method.code) + 4

\* Mutant: the version counter is not reset.
StartPassKeepsVersionsMutant ==
    /\ pc = "loop"
    /\ AnotherPass
    /\ pc' = "pass"
    /\ changed' = FALSE
    /\ iterations' = iterations + 1
    /\ block' = Entry
    /\ UNCHANGED <<method, versions, entry, exit, tainted, ssa>>

StartPass ==
    /\ pc = "loop"
    /\ AnotherPass
    /\ pc' = "pass"
    /\ changed' = FALSE
    /\ iterations' = iterations + 1
    /\ versions' = Reserved
    /\ block' = Entry
    /\ UNCHANGED <<method, entry, exit, tainted, ssa>>

NextBlock(phase, next) ==
    IF block = Len(method.code)
    THEN pc' = next /\ block' = Entry
    ELSE pc' = phase /\ block' = block + 1

\* A block changed if its entry or exit is new or not what it was.
Differs(b, in, out) ==
    \/ b \notin DOMAIN exit
    \/ entry[b] # in
    \/ exit[b] # out

\* One block of one pass: join, execute, compare and record.
PassBlock ==
    /\ pc = "pass"
    /\ LET join == JoinEntry(block)
           slots == JoinSlots(block, versions)
           in == [stack |-> join.stack, slots |-> slots.slots]
           end == ExecuteBlock(Symbolic(in.stack, in.slots, slots.versions), block)
           out == [stack |-> end.stack, slots |-> end.slots]
       IN  /\ changed' = (changed \/ Differs(block, in, out))
           /\ versions' = end.versions
           /\ entry' = With(entry, block, in)
           /\ exit' = With(exit, block, out)
    /\ NextBlock("pass", "loop")
    /\ UNCHANGED <<method, iterations, tainted, ssa>>

\* The last pass: phis from the recorded exits, code from the recorded entries.
Assemble(b, vs) ==
    LET slots == JoinSlots(b, vs)
    IN  [phis  |-> JoinEntry(b).phis \cup slots.phis,
         start |-> Symbolic(entry[b].stack, entry[b].slots, slots.versions)]

AllPhis ==
    LET Collect(acc, b) ==
            LET a == Assemble(b, acc.versions)
            IN  [phis |-> acc.phis \cup a.phis, versions |-> ExecuteBlock(a.start, b).versions]
    IN  FoldLeft(Collect, [phis |-> {}, versions |-> Reserved], [b \in Blocks |-> b]).phis

\* tainted_phi_targets: the least set closed under "some operand is tainted".
TaintClosure(phis) ==
    LET after[n \in Nat] ==
            IF n = 0 THEN {Unknown}
            ELSE LET before == after[n - 1]
                 IN  before \cup {p.target : p \in {q \in phis : Range(q.operands) \cap before # {}}}
    IN  after[Cardinality(phis)] \ {Unknown}

TaintPhis ==
    /\ pc = "loop"
    /\ ~AnotherPass
    /\ pc' = "assemble"
    /\ tainted' = TaintClosure(AllPhis)
    /\ versions' = Reserved
    /\ UNCHANGED <<method, block, changed, iterations, entry, exit, ssa>>

AssembleBlock ==
    /\ pc = "assemble"
    /\ LET a == Assemble(block, versions)
       IN  /\ ssa' = Append(ssa, a)
           /\ versions' = ExecuteBlock(a.start, block).versions
    /\ NextBlock("assemble", "built")
    /\ UNCHANGED <<method, changed, iterations, entry, exit, tainted>>

BuilderNext == StartPass \/ PassBlock \/ TaintPhis \/ AssembleBlock

-----------------------------------------------------------------------------

\* The passes end because nothing changed, not because the cap cut them off:
\* the recorded entries are the joins of the recorded exits.
Converges == pc \notin {"loop", "pass"} => ~changed

\* What block b of the form defines, with its place: its phis and assignments.
DefinitionsIn(b) ==
    LET stmts == ExecuteBlock(ssa[b].start, b).stmts
    IN  {<<p.target, b, 0>> : p \in ssa[b].phis}
        \cup {<<stmts[i].target, b, i>> : i \in DOMAIN stmts}

Definitions == UNION {DefinitionsIn(b) : b \in DOMAIN ssa}

\* The statics that a join takes from a predecessor that never wrote them.
AbsentStatics ==
    {x \in Slots : IsStatic(x) /\ \E b \in Blocks, p \in Blocks :
        /\ p \in JoinPredecessors(b)
        /\ x \in DOMAIN entry[b].slots /\ x \notin DOMAIN exit[p].slots}

\* The values a method is entered with: its arguments and those statics.
ArgumentInputs == {Initial(Arg(i)) : i \in 0..(method.args - 1)}
MethodInputs == ArgumentInputs \cup {Initial(x) : x \in AbsentStatics}

\* No definition is of an argument as the method is entered with it.
ArgumentsKept == \A d \in Definitions : d[1] \notin ArgumentInputs

\* Each variable has one definition, phis included.
OneDefinition ==
    /\ \A d1, d2 \in Definitions : d1[1] = d2[1] => d1 = d2
    /\ \A b \in DOMAIN ssa : \A p, q \in ssa[b].phis : p.target = q.target => p = q

\* Each variable has one definition, and none of them redefines a value the
\* method was entered with ("each unique (base, version) pair is assigned
\* exactly once").  It does not hold of every method: when a static is first
\* mentioned by a store in one arm of a branch, fresh_var gives the store version
\* 0, and where the arms meet absent_slot_value takes the same version 0 for what
\* the other arm left, the value on entry.  What the method does is kept
\* (FormSimulatesVm): that variable then holds the right value on both paths.
SingleAssignment ==
    pc = "built" =>
        /\ OneDefinition
        /\ \A d \in Definitions : d[1] \notin MethodInputs
=============================================================================
