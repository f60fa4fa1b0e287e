# A TLA+ development for neo-decompiler

neo-decompiler turns Neo N3 smart contracts (a NEF container and its manifest)
back into readable code. This directory models the parts of it whose correctness
is hardest to see by reading or testing: the path from the bytes of a file
through the control-flow graph, SSA form and structured statements to C#, the
older path that lifts byte code to pseudo-code line by line, and the
interprocedural analyses both rest on. Each stage is a module translated from
the Rust code. TLC checks it on small instances, and a stage that claims to
preserve what a contract does is run next to the Neo VM, or shown to leave the
meaning of a program alone. TLAPS proves the central facts of five stages for
every input.

## The system

The pipeline of `src/src/decompiler/pipeline.rs`, with the state each part
keeps. The program is a sequential batch tool: one thread, no persistence, no
network. What is hard in it is not concurrency but fixpoints with caps, orders
in which facts are visited, joins of paths nobody tested together, facts that a
later write makes stale, boundaries of buffers, and pieces of code that must
agree on something neither of them checks.

| Component | State | Operations | What makes it correct |
|---|---|---|---|
| NEF parser (`nef/`) | position, parsed header, tokens | read header, var-ints, method tokens, script, checksum | accepts exactly the files of the format |
| Disassembler (`disassembler/`) | pc, instructions, warnings | one iteration per instruction | instructions tile the script; operands are its bytes; it ends |
| CFG builder (`cfg/builder/`) | leaders, blocks, terminators, try regions, edges | four phases | every step of the VM is an edge; nothing executed is called dead |
| Dominance (`cfg/ssa/dominance.rs`) | post-order, idom estimates, tree, frontiers | DFS, fixpoint, frontier walk | equals path-based dominance |
| SSA builder (`cfg/ssa/builder/`) | entry and exit stacks and slots per block, versions, taint, issues | passes to a fixpoint, taint closure, assembly | single assignment; evaluation agrees with the VM |
| Collection facts (`builder/collection.rs`) | shape, elements, aliases and roots per variable | one update per instruction, joins | every fact is true of the VM's value |
| SSA optimizer (`cfg/ssa/optimize.rs`) | the form, its indexes | rounds of rewrites | ends; preserves what the form computes |
| Phi lowering (`cfg/phi_lowering.rs`) | pending copies, temporaries | schedule the copies of one edge | computes the simultaneous assignment |
| Structural recovery (`cfg/structure/`) | visited blocks, loop stack, emitted statements | loops, branches, switches, tries, irreducible fallback, clean-up | the emitted program runs like the graph |
| Method contracts (`analysis/method_contracts*`) | contracts per method, static facts | interprocedural rounds | contracts hold of every call |
| Call graph (`analysis/call_graph*`, `methods.rs`) | method starts, callers, edges, pointers | resolve, repeat | resolved targets are the ones called |
| High-level emitter (`high_level/`) | symbolic stack, maps of pending braces and labels, lines | one handler per opcode, 23 rewriting passes, switch folding | the lines do what the byte code does |
| C# renderer (`csharp/render/`) | declaration plan, inlined values, definition facts | plan, render | the text does what the statements do |
| Method bodies (`cfg/method_body*`) | names, fidelity report, source map | lower, validate | records what the stages did |
| Manifest, tables, pseudocode, CLI, web bindings, JavaScript port | none of their own | parsing by a library, generated data, formatting | see "Not modelled" |

The stages communicate by return values only: the disassembler's instruction
list feeds the call graph, the method contracts and the CFG builder, whose graph
feeds dominance, the SSA builder and the structurer; the contracts enter the SSA
builder as what it knows of calls; SSA form feeds the optimizer and phi lowering,
the structurer puts the lowered statements into loops and branches, and the
renderers print them. Some agreements are implicit: the CFG builder recomputes
instruction lengths instead of being told them; everything downstream of it
assumes its edges are all the VM's transfers of control; the method table and
the call graph each resolve function pointers in a loop of their own; the text
passes of the emitter find blocks again by counting braces.

`PROJECT.json` lists every component with its sources and status, the hazards
with the line where each bites, and the definition-by-definition map to the
source.

## The modules

| Module | Models | Extends |
|---|---|---|
| `NefParser` | `nef/encoding.rs`, `nef/parser/` | |
| `NefFormat` | the container as a format, the reference for the parser | `NefParser` |
| `Disassembler` | `disassembler.rs`, `disassembler/operand.rs`, `cfg/builder/offsets.rs` | |
| `CfgBuilder` | `cfg/builder/*.rs`, `cfg/graph/reachability.rs` | |
| `CfgExecution` | the Neo VM's control (external) run on the built graph | `CfgBuilder` |
| `Dominance` | `cfg/ssa/dominance.rs` | |
| `SsaBuilder` | `cfg/ssa/builder.rs` and `builder/` | |
| `SsaExecution` | the Neo VM's data (external) next to an evaluation of the form | `SsaBuilder` |
| `SemanticPass` | the abstract specification of a rewriting pass | |
| `SsaOptimizer` | `cfg/ssa/optimize.rs`, `cfg/ssa/form.rs` (the indexes) | |
| `SsaMeaning` | what a form computes, and the refinement of `SemanticPass` | `SsaOptimizer` |
| `PhiLowering` | `cfg/phi_lowering.rs` | |
| `Structure` | `cfg/structure.rs`, `cfg/structure/` | `CfgBuilder` |
| `StructureExecution` | the recovered statements next to the VM | `Structure`, `CfgExecution` |
| `IrCleanup` | `cfg/structure/cleanup/`, `for_loops.rs`, `terminal_updates.rs` | |
| `CsharpBody` | `csharp/render/structured/`: declarations, inlining, foreach | `IrCleanup` |
| `IrExecution` | the meaning of statements and of C# blocks, and the refinement of `SemanticPass` | `CsharpBody` |
| `CallGraph` | `analysis/methods.rs`, `analysis/call_graph.rs`, `call_graph/pointers/`, `helpers/methods.rs` | |
| `CallGraphExecution` | the VM's frames, stack and slots (external) next to the call graph | `CallGraph` |
| `CollectionFacts` | `cfg/ssa/builder/collection.rs` and what calls it | |
| `MethodContracts` | `analysis/method_contracts.rs` and `method_contracts/` | `CollectionFacts` |
| `ContractExecution` | lowering with the contracts, and the VM's collections (external) next to them | `MethodContracts` |
| `Emitter` | `high_level/emitter/`: one action per family of opcode handlers | |
| `EmitterPasses` | `high_level/emitter/postprocess/`: one action per pass of `finish` | `Emitter` |
| `EmitterSwitches` | the switch passes of `postprocess/` | `EmitterPasses` |
| `EmitterExecution` | the emitted lines next to the VM | `EmitterSwitches` |
| `Strict` | application and folding with the argument evaluated once | |

An `MC` module beside each of these families gives its constants. The theorems
are in modules of their own: `NefParser_proofs`, `Disassembler_proofs`,
`CfgExecution_proofs`, `Dominance_proofs`, `SsaBuilder_proofs` and
`PhiLowering_proofs`. `NaturalFacts` holds what several stages need of the natural numbers: induction,
functions defined by recursion, division, and the digits of a number in a base.

### NefParser and NefFormat

`stage` is the position in `NefParser::parse`, `offset` its running offset. Each
part of the file has an operator that yields the error the code reports for it,
or "none", with the checks in the code's order (`TokenError`, `TrailerError`,
...); `Reject` ends the parse with that error, and one action per part moves on
(`ReadToken` once per method token). Variable-length integers keep their four
widths and the rejection of 64-bit values above `u32::MAX`; the byte base, the
sizes and the limits are parameters. UTF-8 is reduced to a set of bytes that occur
in no string, and the double SHA-256 to a function given as a parameter.
`NefFormat` states the other direction, how contents are written down in any
choice of widths and which contents are legal, and so is independent of the
parser.

### Disassembler

`at` is the decoder's `pc`, `instructions` and `warnings` the two vectors of
`disassemble_with_warnings`, `permit` the `UnknownHandling`. One iteration of
the `while` loop is one of `PermitUnknown`, `RejectUnknown`, `Eof`,
`OperandTooLarge` and `Decode`; `End` is the loop's exit. The instruction set is
a parameter: `Encoding` gives each byte a kind and a number of operand or prefix
bytes, which is all `read_operand` uses. Integers are read as the code reads
them, little-endian and in two's complement, in a base that TLC can enumerate
(`Base`; 256 in the program). What constant an immediate opcode stands for is
left out. `InstructionLenFallback` is the CFG builder's own computation of a
length from a decoded instruction.

### CfgBuilder and CfgExecution

The four phases of `CfgBuilder::build` are four actions: `FindLeadersStep`,
`CreateBlocks`, `ApplyFinallyRouting`, `BuildCfg`. Their results are the
variables `leaders`, `terminator` and `edges`. Block ids are replaced by the
offset of the block's first instruction, which orders them in the same way.
The routing of `finally.rs` is kept whole: regions, the stack that pairs
ENDFINALLYs with them, lexical containment, the owner of each ENDTRY reached
through chains of ENDTRYs, the second look at catch continuations, and the
local / non-local decision. Instructions are one offset long (their lengths are
the subject of `Disassembler`); the comparison jumps are one kind because the
builder treats them alike. The helpers of the phases are operators of the method
`m`, and of its leaders `ls` once they are known, as they are functions of the
instruction list in the code.

`CfgExecution` runs the VM over the same method: try contexts with their state,
ENDTRY through a finally block, ENDFINALLY with a pending exception, unwinding.
Any instruction that may fault may raise. The VM is not part of the repository;
it is modelled from what the builder assumes of each opcode.

### Dominance

The iterative depth-first search, the sweep over blocks in reverse post-order
and the frontier walk take one step per iteration of the code's loops. Both caps
are parameters: `MaxPasses` (the fixpoint's passes) and `MaxIterations` (the
`MAX_ITERATIONS` of the finger walk), each 1000 in the code. What the code reads
off the graph (`EdgesInto`, `Predecessors`, `JoinPoints`) and off the idom map
(`Parent`, `Ancestor`, `Depth`, `FindCommonDominator`, `IntersectDominators`,
`Walked`) are operators of the graph and of the map, so that they can be reasoned
about apart from the run of the analysis.

### SsaBuilder and SsaExecution

One step per block of each pass: `StartPass` resets the versions, `PassBlock`
joins the predecessors' exits and executes the block on symbolic values,
`AnotherPass` is the loop condition with its cap of blocks + 4. `TaintPhis` is
the taint closure, `AssembleBlock` the final pass that records phis and issues.
Joins keep the alignment at the top of the stack, the truncation at
`MAX_SYMBOLIC_STACK_DEPTH`, the recovery for a DUP at a join, exception payloads
at handlers and the virtual entry source of an entry block that is a loop header.
Instructions are those the builder handles generically: computations with a
number of operands and a result, the stack reorderings, DEPTH, loads, stores,
INITSLOT and RET. Calls, PACK, UNPACK and element access are in `CollectionFacts`;
PICK and ROLL with operands that are not constants, and the two fused
instruction pairs, are not modelled.

`SsaExecution` runs the VM through the built form. A value the model does not
compute is chosen freely and given to both sides, so agreement means that the
form reads the right variable, not that a particular number comes out.

### SemanticPass, SsaOptimizer and SsaMeaning

`SemanticPass` says what the repository expects of any rewriting pass: it starts
on a program that means something, no step of it changes that meaning, and it
returns. Two detailed specifications are shown to implement it by a refinement
mapping that sends the program in hand to what it computes.

A step of `SsaOptimizer` is one call of `one_round`: copies, chased to their
ends; trivial phis; constants folded into their consumers; dead definitions. Each pass
hands on the form together with the rewrites it counted while making them, and
the indexes are rebuilt, and another round begins, only if the counts of a round
add up to more than none: a pass that changes a statement without counting it
leaves them stale. `IndexesFresh` therefore compares the indexes with what the
blocks define and read, told without the operators that build them, and
`Optimal` looks for anything a further round would still find: a dead phi, a phi
whose operands are all one variable, a copy into a temporary. The one such phi
that stays is of a literal: its consumers take the literal, but a terminator or
another phi can only name a variable. Literals keep their width (`Width`, 64 in the code) and the VM its own
(`VmBits`, 256): folding must fall back exactly where the two part.
`SsaMeaning` executes a form along every path up to `MaxPath` blocks; calls,
consumed values, branch conditions and faults are what a path shows.

### PhiLowering

`Start` is the grouping of phi operands per edge and the dropping of identities;
`EmitCopy`, `SkipCandidate` and `SaveSource` are the branches of `schedule`'s
loop, including the search for an unused temporary name. Names are opaque, and a
natural number is a name spelled like a temporary. `store` is a ghost: the value
each identifier would hold had the statements emitted so far been executed,
named by the identifier that held it on entry. `Cycles` finds the cycles of the
copies from the phi nodes alone, and `OneTemporaryPerCycle` compares them with
the temporaries taken: one for each, holding the value of one of its variables.
Taking a name that is in use is what `ParallelCopy` catches.

### Structure and StructureExecution

`Structure` continues `CfgBuilder`: `Analyze` fills the tables of `StructCtx`
(loops, latches, merge points, switch chains, try regions), `Structure` is the
recursive walk over the regions or, beyond `MaxStructuredBlocks` and
`MaxStructuredPhis` or for an irreducible graph, the emitter of labels and gotos,
and `SimplifyUnreachableControl` is the clean-up of labels, gotos and unreachable
statements. The statements of a block are one node, so are the phi copies of an
edge, and a condition is named by its block. `returned` says, for each block that
a try may be left for, what its RET hands back: nothing, a literal, or a variable
that some block defines, or that the stack carries past a finally block.
`ReturnThroughFinally` puts the return where the try is left if the value is known
there (`KnownAt`: defined there or in a dominator, or carried); otherwise the
leave becomes a goto. A stack phi of a finally block is taken to be the value the
method returns. `StrayReturns` names the methods that may return what is not known
where a try is left; in the instance they are those whose RET the walk also comes
to by another way (see the divergences). `StructureExecution` lets the VM of
`CfgExecution` run the instructions and leave events (a block's statements, a
test and its outcome, an edge's copies, an exception), which the recovered
program must answer in the same order from its own control structure, with C#'s
meaning of break, continue, try and finally.

### IrCleanup, CsharpBody and IrExecution

`IrCleanup` holds the statements of one method with their expressions. Each pass
is an action, in the order of `simplify_unreachable_control` and
`reduce_temporaries`: promotion of loops, initialisers found in a header,
adjacent loops, the two integer-wrapper patterns, then rounds of copy
propagation, branch merges, casts, array literals and dead stores until a round
changes nothing. `CsharpBody` adds `render_method_body`: the scopes of every
occurrence of a variable, the declaration at its assignment or at the head of
the nearest common scope, the copies nothing reads, the temporaries
`--inline-single-use-temps` writes at their use, the definition facts kept while
rendering, and the detection of foreach. Its result is again a list of
statements, with declarations and braces.

`IrExecution` gives both their meaning: integers with the VM's size, collections
in a heap, calls whose answers come from a list, exceptions, and for C# the scope
of every declaration, where reading or assigning what is not declared, or
reading what is not assigned, is a result of its own that no method has. What a
list of statements means is the set of its runs over all inputs and answers:
result, calls with their arguments, and the static field.

### CallGraph and CallGraphExecution

One action per step of `MethodTable::new` and `build_call_graph`
(`CollectStarts`, one round of `ResolveArguments`, `BuildSpans`, `BuildEdges`,
one round of `ResolvePointers`), including the backward tracing of a pointer
through slots, arrays, static initialisers and callers. In the control flow that
gives a method its instructions a TRY leads on, to its catch block and to its
finally block (`JumpTargets`). `CallGraphExecution` runs the script: frames,
arguments taken off the stack by INITSLOT, arrays, statics, and exceptions that
go to the catch block, run the finally blocks and go on from ENDFINALLY, or unwind
the frame.

### CollectionFacts, MethodContracts and ContractExecution

`CollectionFacts` is the symbolic execution of a method with everything
`collection.rs` records: definitions, shapes, shapes of elements, aliases of
static slots, roots, invalidation, and joins. `MethodContracts` infers the
contracts in the code's stages (returns, argument effects, facts, fields,
entries), each a loop of rounds in which every method reads the contracts of the
previous round. `ContractExecution` then lowers every method with the result and
runs the script on a heap. `strayed` marks that a collection was changed through
an alias the builder has no root for; see the divergences below.

### Emitter, EmitterPasses, EmitterSwitches and EmitterExecution

`em` is the record of the emitter's fields: the symbolic stack, the saved and
expected stacks of branches, the closers, labels, loops and try statements
pending at each offset, and the lines. `Advance` does what happens when the walk
comes past an offset, one action per family of handlers lifts an instruction,
`Finish` flushes, and then each pass is an action in the order of `finish`.
Lines are records, not text, but keep what the passes rely on: a cleared line is
a blank, comments are lines, and blocks are found by counting braces.
`EmitterExecution` runs the VM to the next event a caller can see (a call with
its arguments, the end with its result and statics) and then the lines to the
same event.

## What the runs check

| Run | Instance | Properties |
|---|---|---|
| `nef` | about 350 contents in every width of length; every truncation, one-byte change and extension of the short ones, with the old and with a matching checksum | `AcceptedIffSerialized`, `AcceptedIsWhole` |
| `disassembler` | every script of up to 4 bytes over 8 opcodes, longer ones around the 1, 2 and 4 byte length prefixes | `Tiles`, `OperandsAreTheBytes`, `ErrorsAreGenuine`, `Terminates` |
| `cfg` | every method of compiled shape with statements nested two deep, returns out of one and two finally blocks, invalid jumps | `ExecutedIsReachable`, `RoutingAgrees`, `TransfersAreEdges`, `NonlocalLeaves` |
| `dominance` | every graph of 4 blocks with at most two successors each | `DominanceCorrect`, `FrontierCorrect`, `EstimateKeepsDominators`, `PassesBounded` |
| `ssa` | about 1100 methods: diamonds, also over a static, two joins in a row, loops, entry loops with arguments in slots or on the stack, try / catch | `Converges`, `SingleAssignment`, `FormSimulatesVm` |
| `ssa_optimizer` | 7664 forms: operators over boundary literals, diamonds and loops with copies, slots, calls and phis in every combination | `Optimizes` (refinement), `Optimal`, `IndexesFresh`, `Terminates` |
| `phi_lowering` | up to 4 parallel copies with every choice of operands; every combination of missing operands, dead targets and edge kinds | `ParallelCopy`, `OneTemporaryPerCycle`, `Terminates` |
| `structure` | about 240 methods: conditionals, loops, switches and tries nested in each other, irreducible and oversized ones, with no phi or one at any join, and every kind of value returned past a finally block | `ProgramSimulatesMethod`, `LabelsResolve`, `StructureReturns`, `ProgramAnswers` |
| `ir_cleanup` | about 900 statement lists: a temporary with every kind of write between definition and use, merged branches, array literals, wrapped arithmetic, counting loops, loops over collections; five inputs, two lists of answers | `CleanupKeepsMeaning` (refinement), `ReductionSettles` |
| `call_graph` | about 11000 scripts: every four-instruction use of pointers and slots before a CALLA, pointers in arrays, passed over chains of calls, set by a later initialiser; every small control flow, with catch and finally blocks | `PointersSound`, `TargetsAreStarts`, `FramesStayInside`, `CallGraphCompletes` |
| `contracts` | about 7400 scripts that make a collection, keep it in slots, pass it to one of 22 helpers or a wrapper, change it in between and take it apart | `FactsHold`, `ContractsHold`, `RoundsSuffice` |
| `emitter` | about a hundred methods: each statement nested in each other, switches in three forms, straight code over every stack, slot, collection and call opcode; all four option settings | `BracesBalance`, `LiftedSimulatesMethod`, `ProgramAnswers` |

Each property has a mutant in `PROJECT.json`: a definition changed the way a
plausible mistake in the code would change it, under which TLC finds the
property violated.

Why the bounds suffice. The NEF files reach every error of the parser, and the
lengths 4, 5, 63 and 64 are, in base 8, the boundaries between the widths, as
0xFC, 0xFD, 0xFFFF and 0x10000 are in base 256. Four bytes hold an opcode with
its prefix and an operand that just fits or just fails; the longer scripts put a
second instruction behind it. Four blocks give the irreducible loop, the loop
with two entries, the unreachable predecessor and a back edge to the entry. Four
copies give two disjoint cycles, a cycle with a tail and a fan. Nesting two deep
gives every pair of a try part inside a try part, and of any statement inside
any other, which is where merge points and braces are decided. For the routing of
finally blocks a third level is new, and there it can fail: see the divergences.
In `ssa`, `MaxDepth = 8` is above any depth the methods reach, and
`MaxTransfers = 4` lets a loop go round once after its phis have been entered from
the back edge. In `ssa_optimizer` five-bit literals and nine-bit VM
integers leave the same gap between them as 64 and 256, and paths of six blocks
go twice round a loop. In `structure`, `MaxStructuredBlocks = 10` lets some
methods exceed the limit that is 96 in the code. In `ir_cleanup` bytes have
`ByteBits = 1` bit, so that the four- and eight-byte integers of the wrappers
wrap within TLC's integers; `Fuel = 6` iterations exceed every loop that ends, and
a loop that does not is told apart from one that does; `MaxRounds = 8` is never
reached, which `ReductionSettles` would show. In `contracts` a helper behind a
wrapper is two calls deep, the depth at which a contract depends on a contract
that is not yet settled. `MaxFrames = 4` in `call_graph` lets a pointer be handed
on through three calls. `MaxVmSteps = 40` in `emitter` is several times the length
of a method, so loops go round more than once.

Fairness. `Disassembler`, `PhiLowering` and `SsaOptimizer` assume
`WF_vars(Next)`, and `CallGraphExecution` weak fairness of the analysis: a
sequential loop takes its next iteration. `StructureExecution` and
`EmitterExecution` assume it of the recovered program's own steps, so that
`ProgramAnswers` says that a recovered loop does not spin while the VM waits for
its next event. Nothing is assumed of the VM. The other specifications are
checked for safety and state no fairness they need.

Deadlock is checked in `nef`, `disassembler`, `cfg`, `dominance`, `ssa` and
`structure`, which end in an explicit stuttering step enabled only when the work
is done. The others simply stop: scheduling and rewriting when there is nothing
left, the executions when the VM faults or the bound on its steps is reached.

### Divergences met while modelling

The passing instances leave out the following shapes, where the modelled code
does not do what the property says; the models themselves contain the behaviour.
They have no runs of their own.

- NEF: `payload_len` takes every length to be in its shortest form
  (`nef/types.rs:50`), though longer ones are accepted (`nef/encoding.rs:28`).
- CFG: a finally block shared by two TRYs loses the continuation of one
  (`finally.rs:187`); the fallthrough of a conditional jump that ends a method is
  looked up past the end (`terminator.rs:100`); a try whose body contains another
  try with a catch, and which itself lies directly in a try with a finally block,
  is given a catch that ends with the method (`local_resume_bound` stops at the
  first resume inside, `finally.rs`), so that it takes the ENDTRY of the try around
  it and the finally block loses that edge; one invalid target discards the
  whole terminator (`terminator.rs:106`), for a conditional jump the fallthrough
  with it, which the proofs exclude as `BranchesLand`.
- Dominance: the finger walk gives up after 1000 moves (`dominance.rs:244`); the
  entry as a loop header is in no frontier (`dominance.rs:423`), and
  `FrontierCorrect` excepts it.
- SSA: a loop that pushes each time does not converge (`pipeline.rs:35`); a
  static first stored in one arm takes the version of its value on entry, so that
  the second half of `SingleAssignment` fails and the join has no phi, though
  `FormSimulatesVm` still holds (`builder.rs:243`, `slots.rs:51`): the diamonds
  over a static mention it before they branch; a handler reads slots as they were before the try body
  (`edges.rs:35`); beyond 16 values a join drops the top of the stack
  (`joins.rs:137`); the value recovered for a DUP at an uneven join may shift what
  lies below it (`joins.rs:235`).
- Optimizer: a shift left is folded in 64 bits (`optimize.rs:499`), a power beyond
  the VM's bound on exponents too; `FoldOps` leaves both out.
- Structure: `continue` passes by the replayed header of a loop (`loops.rs:18`); a
  break out of a loop whose exit has a phi loses its copies; a block that jumps to
  itself is no loop; the latch of a do-while whose false side is the header is not
  negated; two do-while loops that exit to each other's header are never left
  (`regions.rs:125`); an early return out of a try loses what follows it
  (`regions.rs:291`); a try left for a RET whose value is not known there becomes a
  goto to a label that is never written when the walk comes to the RET no other way
  (`structure.rs:345`).
- Clean-up: a merge counts the uses in one child block only (`merges.rs:67`), may
  be moved into a condition that is evaluated again, or behind an effect; a unit
  update is taken out of a body with a `continue` (`loops.rs:144`); a static is
  propagated across a call that writes it; a change through another name of the
  collection is not seen; `++i` does not count as an assignment; a header
  initialiser turns an endless loop into one that ends; a value that may fault is
  moved past calls.
- C#: facts survive the reassignment of a variable they mention, and an `if` that
  only appends (`stmt_facts.rs:9`), so a loop over part of a collection can become
  a foreach over all of it; a `break` of a loop inside a switch leaves only the
  switch.
- Call graph: the first caller decides what an argument points to
  (`arguments.rs:111`); a static overwritten by a callee and an argument
  overwritten by STARG are not seen; a PUSHA past the end of the script makes a
  method of no instructions (`methods.rs:146`).
- Contracts: a collection reached as an element of another, kept by a callee in a
  static, or picked twice from the same place has aliases without a common root
  (`strayed`); a jump out of a method is no call in the inference.
- Emitter: statements before an inner `if` are dropped when an else chain becomes
  a switch (`chain.rs:60`); `!(x == k)` counts as a case `k`; a clamp can be taken
  for an overflow check (`overflow_collapse.rs:106`); the prelude of a loop
  condition is not evaluated again (`condition.rs:33`); a finally inside a finally,
  values carried across a try, and a jump out of two loops at once come out wrong.

## What is proved

`PhiLowering_proofs`, for every set of names and predecessors and every list of
phi nodes:

- `TypeCorrect` : `Spec => []TypeOK`
- `ScheduleCorrect` : `Spec => []ParallelCopy`

`ParallelCopy` speaks of the end only and is not inductive. The invariant adds,
for every moment: a pending copy's source still holds, now, the value the copy's
target is to receive (`PendingFaithful`), and an identifier that no pending copy
targets already has its final value, unless it is a temporary (`SettledFinal`).
`EmitCopy` keeps the first because the target it overwrites is nobody's pending
source, which is the guard `Ready`; `SaveSource` keeps it because the temporary
is fresh, so that (`Fresh`) is part of the invariant. At the end nothing is
pending and `SettledFinal` is the claim. The assumptions are that variables are
not natural numbers (`NamesAssumption`), that the virtual entry is a predecessor
(`PredAssumption`), that reserved names are names (`ReservedAssumption`), and
that phi targets are distinct (`InputsAssumption`), which SSA form guarantees.

`NefParser_proofs`, for every byte base, set of sizes and limits, checksum
function and file:

- `TypeCorrect` : `Spec => []TypeOK` (no read past the end, no limit exceeded)
- `AcceptedFilesAreWhole` : `Spec => []AcceptedIsWhole`
- `ParserMatchesFormat` : `Spec => []AcceptedIffSerialized`

For the first two the invariant adds `Progress`: no token is kept before the table is reached, all
announced tokens are there after it, and the script is not empty once read. The
lemmas `VarintInBuffer` and `DataInBuffer` say that whatever `read_varint` and its
callers return lies in the buffer and within its limit. The assumptions
(`SizesAssumption`, `FilesAssumption`) say that sizes are naturals, that there are
more than three bytes, and that files are sequences of bytes.

`ParserMatchesFormat` has two halves, each with an invariant of its own. What is
accepted is of the format: `FormatInv` says, at every stage, that the bytes read
so far are the parts parsed so far, written down in some choice of widths
(`SoFar`); a part read adds its bytes to them because each reader is the inverse
of a writer on what it accepts (`VarintRead`, `DataRead`, `TokenRead`,
`CompilerRead`). Nothing of the format is turned away: `OnTrack` says that the
parser of a file written down from legal contents has not failed and is at the
place where the next part stands (`Parts`, `TableStands`), where the writers are
inverses of the readers (`VarintWritten`, `DataWritten`, `TokenWritten`). Both rest
on `FromLeBytesFacts` and `WrittenNumber`: reading little-endian bytes and
writing a number are inverse, by the lemmas on digits of `NaturalFacts`. Two more
assumptions are needed. `ContentsAssumption`: the contents under study are made of
bytes, each length has a width that holds it, and a checksum is `ChecksumLen`
bytes. `LimitsAssumption`: the limits of the format fit a 32-bit length (they are
at most 1 MiB in the code), without which a legal file could be refused with
`IntegerOverflow`, and the call flags allowed are bytes.

`Disassembler_proofs`, for every instruction set, byte base, operand limit and
script:

- `TypeCorrect` : `Spec => []TypeOK` (the decoder never leaves the buffer)
- `InstructionsTile` : `Spec => []Tiles`
- `OperandsExact` : `Spec => []OperandsAreTheBytes`
- `ErrorsGenuine` : `Spec => []ErrorsAreGenuine`

The invariant is `TypeOK /\ OutputsAreSequences /\ Tiles`. The lemma that
carries the argument is `DecodedLength`: the length the CFG builder derives from
a decoded instruction is one more than the bytes `read_operand` consumed. It
needs the assumption that opcodes with no operand have length 0 and prefixes are
1, 2 or 4 bytes (`EncodingAssumption`), which the generated opcode table meets.
`OperandsExact` adds to the invariant that every instruction recorded has the
operand its bytes spell, which only `Decode` can disturb: `LittleEndianFacts` and
`SignedFacts` say that the digits of the unsigned and of the two's complement
reading are the bytes, with the sign in the range of its width (`DecodedOperand`).

`CfgExecution_proofs`, for every method, with the VM free to raise at every
instruction that may:

- `NothingLiveIsDropped` : `Spec /\ []RoutingAgrees => []ExecutedIsReachable`
- `TransfersFollowEdges` : `Spec /\ []RoutingAgrees => TransfersAreEdges`
- `LeavesAreMarked` : `Spec /\ []RoutingAgrees => NonlocalLeaves`
- `RoutingFollowsNesting` : `Spec => []RoutingAgrees`
- `NestedMethodsAreCovered` : `Spec => []ExecutedIsReachable /\ TransfersAreEdges /\
  NonlocalLeaves`

The hypotheses are about the method, and the code gives none of them for free.
`BranchesLand` (all but the fourth): every conditional jump has its target in the
method, as `compute_terminator` otherwise drops both sides of the branch.
`RoutingAgrees` (the first three): what `apply_finally_routing` reads off the layout
of the method, the owner of an ENDTRY and the region an ENDFINALLY closes, is what the
VM has on its stack of try contexts at that moment. Byte code can be written for
which it is not so (a finally block shared by two TRYs, a jump into a try body); the
first three theorems say that nothing else can go wrong: neither the leaders, the
terminators, the edges of exceptions nor reachability. The last two replace that
assumption on executions by one on the layout alone, `TriesNest`, at the end of
`CfgExecution`: with an offset behind each statement, its parts follow each other
and a finally block ends with an ENDFINALLY of its own (`PartsInOrder`), a statement
lies in one part of each statement around it (`StatementsNest`), and control leaves a
part only by the ENDTRY or the ENDFINALLY of the statement, not by a jump or by falling
through (`ControlStays`). `CatchesEnd` is the one condition on a guess of the builder:
where a handler without a finally block ends is read off the targets of the ENDTRYs
of the try body (`catch_continuation`), and must put no TRY or ENDTRY behind the
handler inside of it; the third of the divergences of the graph listed above is a
method that nests and fails it. TLC evaluates both conditions on every method of the
`cfg` run (`MethodsLand`, `MethodsNest`).

That the routing is right for such methods is proved in three parts. The ENDFINALLY
that `assign_endfinally_offsets` gives to a region is the last instruction of its
statement (`EndfinallyOfStatement`): the regions open at an offset are the statements
whose finally block it lies in, and the one opened last is the innermost. The
regions that contain an ENDTRY are then the statements around it
(`RangesHoldStatement`), the innermost one is the owner of a root, and each link of a
chain of ENDTRYs goes to the next one out, so that no ENDTRY is ambiguous and every
one is reached from some root (`OwnersOfStatements`). And the stack of the VM is the
statements around its instruction, each in the state of the part it lies in, with saved
targets that lie where the statement stands (`Standing`, kept by every step in
`StandsStep`, exceptions included): the context on top is the innermost statement.

Under the first three theorems the invariant has two parts. `GraphInv` is that the variables hold what the phases
define: the leaders, the terminators and the edges are `FindLeaders`,
`Terminators` and `GraphEdges` of the method. `ExecInv` is about the VM: the
block of `ip` is reachable, and so is the block of every TRY on the stack, since
an exception may take control to its handlers at any later time; and a context in
which an ENDTRY saved a target names an ENDTRY that the routing gave to the region
of that context, since ENDFINALLY resumes there long after. Under it there is one
lemma on the edges of each kind of instruction (`PlainEdge`, `JumpEdge`,
`BranchEdges`, `TryEdges`, `EndtryEdge`, `EndfinallyEdge`), from lemmas on blocks
(the last instruction of a block is followed by a leader, a target is the block
it names), and `ReachableClosed`: after as many rounds as there are blocks
`reachable_blocks` has nothing to add.

`Dominance_proofs`, for every graph and every order in which the search meets the successors:

- `EstimatesKeepDominators` : `Spec => []EstimateKeepsDominators`
- `FixpointSettles` : `Spec => []PassesBounded`
- `DominanceIsCorrect` : `Spec => []DominanceCorrect`
- `FrontiersAreCorrect` : `Spec => []FrontierCorrect`

They assume `MovesSuffice`: there are at most `MaxIterations` blocks (1000 in the
code), so that the finger walk never gives up; in a larger graph it may. The last
two also assume `PassesSuffice`: fewer blocks than `MaxPasses` (1000 too). That
the cap on the passes is then never what ends the fixpoint is not assumed but
follows from `FixpointSettles` (`NeverCutOff`).

The invariant `DominanceInv` follows the phases. During the search, `SearchInv`:
the stack is a path from the entry, every successor already counted is visited,
and each finished block but the entry has a predecessor that is still open or
finishes later, so that the reverse post-order puts it behind one of its
predecessors. During the fixpoint, `PassInv`: the estimates form a tree rooted at
the entry in which a parent stands before its children in the order, a strict
dominator of a block dominates its parent too (`KeepsDominators`), and as long as
nothing has changed in a pass the blocks behind it have settled.
`IntersectDominators` keeps that because two walks that alternate by depth meet at
the nearest common ancestor (`CommonDominator`), and no dominator of a block lies
below the place where the ways up from its predecessors meet
(`IntersectionKeeps`). At a fixpoint the
converse holds: who is above a block dominates it (`AboveDominates`), by induction
along a path. The frontier walk then visits, from each predecessor of a join,
exactly the blocks that dominate the predecessor and not the join
(`WalkedIsFrontier`), and a block with fewer than two edges into it is in no
frontier (`NoJoinNoFrontier`). The only exception, an entry that is a loop header,
is stated in `FrontierCorrect`.

How many passes that takes is a second invariant, `PassesCounted`, next to the
first. It gives every block a level, the number of passes that have taken it into
account, and says that the estimate is `Tight`: no block above b can be avoided
on the way from the entry to b in so many steps (`Reached` counts the steps).
Processing b adds a step, because whatever avoids d on the way to b comes from a
predecessor that d is not above (`ProcessKeepsTight`); the blocks below b, whose
chains change with it, keep their level because a way to them that avoids d passes
b (`ReachedPastNeither`). Nothing here needs the estimates to move in one
direction only. Since as many steps as there are reachable blocks reach everything
(`ReachedIsReachable`), the estimate is then exact (`TightIsExact`), and a pass over
an exact estimate writes back what is there (`SameAboveSameParent`).

`SsaBuilder_proofs`, for every set of methods and slots:

- `FormDefinesOnce` : `Spec => []OneDefinition`
- `FormKeepsArguments` : `Spec => []ArgumentsKept`
- `StaticSingleAssignment` : `Spec => [](AbsentStatics = {} => SingleAssignment)`

The condition of the third is no convenience: without it the property is false
(see the divergences). `AbsentStatics` are the statics that some join takes from
a predecessor that never wrote them; the first half of `SingleAssignment` and
that arguments are kept need no condition. The invariant `SsaInv` is `RecordInv`
(the entries and exits recorded bind slots, and every block has an entry by the
time the passes end) and `FormInv`: what the blocks assembled so far define is a
phi of the stack of one of them, or a version between the ones reserved for the
arguments and the counter. An instruction defines nothing or the next version of
one base (`InstructionContinues`, from one lemma for each kind), hence a block
versions between the counter before and after it, each once (`BlockDefines`); a
join takes the next version of the slots it merges (`JoinSlotsFacts`), and names
the phis of its stack after itself (`JoinEntryFacts`).

Most of these need induction on the length of a path, a walk or a list. The library's
induction rules have an operator as parameter, which the provers cannot
instantiate; `NaturalFacts` states induction over sets instead (`SetInduction`,
`BoundedInduction`: a set that holds 0 and with k also k + 1 holds every number),
from the well-foundedness of the naturals, and the recursive functions of the
modules are shown to exist by it (`ReachedListExists`, `AncestorListExists`,
`FoldExists`).

Only model-checked: liveness (`Terminates`, `ProgramAnswers`, the termination in
`SemanticPass`), which is outside the prover; `Converges` and `FormSimulatesVm`,
which do not hold of every method (see the divergences); and
everything whose correctness is a statement about executions of trees of
statements, whose definitions are RECURSIVE operators and so out of the prover's
reach: `Structure`, `IrCleanup`, `CsharpBody`, `CallGraph`, the contracts, the
emitter and the optimizer.

## The plan

What is left, in this order:

1. Theorems: `FormSimulatesVm` for methods without a try whose stacks stay within
   the cap.
2. `SsaBuilder`: PICK and ROLL with unknown operands, the fused pairs, and the
   contracts of `MethodContracts` at calls.
3. `CsharpBody`: switch, do-while and catch variables; the inferred types.
4. Composition: one run from byte code through `Structure` and `IrCleanup` to
   `CsharpBody`, which today meet only in the shape of the statements.

## Not modelled, and why

- Type inference, cross references, pattern detection: one pass over the listing
  that follows no jump and no call; what it infers is a guess by design, and
  nothing in the repository says that it holds of an execution.
- The fidelity report, the source map and the allocation of names: they record
  what other stages did and feed nothing back.
- The spelling of expressions, types and casts in C#, pseudocode, DOT and the
  reports: formatting without state.
- The manifest: deserialised by a library. Opcode, syscall and native contract
  tables: generated data; encodings, known calls and their arities are constants.
- The pipeline, the command line and the web bindings: they call the stages in
  order, read files and print.
- The JavaScript port: a second implementation of the same pipeline, which would
  repeat these modules.
- Fuzz targets and tools: drivers of the code modelled here.
