---------------------------- MODULE SsaExecution ----------------------------
(***************************************************************************)
(* The SSA form of SsaBuilder next to the Neo VM.                          *)
(*                                                                         *)
(* Once the form is built, the VM runs the method from its entry and the   *)
(* form is evaluated along the same path: the phis of a block select the   *)
(* operand of the edge taken, all at once, and each assignment sets its    *)
(* target.  A value the model does not compute (a literal, a result of a   *)
(* call) is chosen freely and given to both sides.  The VM is not part of  *)
(* the repository; it is modelled from the effects the builder assumes     *)
(* (cfg/ssa/effects.rs) and the opcode names.                              *)
(***************************************************************************)
EXTENDS SsaBuilder

CONSTANTS
    MaxTransfers    \* bound on the blocks the VM enters

ASSUME TransfersAssumption == MaxTransfers \in Nat

VARIABLES
    at,         \* <<block, number of its instructions executed>>
    transfers,  \* blocks entered so far
    stack,      \* the VM's evaluation stack
    slots,      \* the VM's slots; unset ones are absent
    env,        \* values of the SSA variables evaluated so far
    flagged     \* an issue was recorded at an instruction executed so far

vmVars == <<at, transfers, stack, slots, env, flagged>>
vars == <<builderVars, vmVars>>

Value == 0..1
Null == 2           \* of an unassigned local
Undefined == 3      \* of an SSA variable never evaluated

-----------------------------------------------------------------------------
Read(v) == IF v \in DOMAIN env THEN env[v] ELSE Undefined

Here == ExecuteUpTo(ssa[at[1]].start, at[1], at[2])
After == ExecuteUpTo(ssa[at[1]].start, at[1], at[2] + 1)
Instr == method.code[at[1]][at[2] + 1]
AtEnd == at[2] = Len(method.code[at[1]])

Init ==
    /\ BuilderInit
    /\ at = <<Entry, 0>>
    /\ transfers = 0
    /\ stack = <<>>
    /\ slots = <<>>
    /\ env = <<>>
    /\ flagged = FALSE

\* The phis of block b, evaluated on the edge from p.
PhiValues(b, p, known) ==
    LET chosen == {q \in ssa[b].phis : p \in DOMAIN q.operands}
        Get(v) == IF v \in DOMAIN known THEN known[v] ELSE Undefined
    IN  Overridden(known, [t \in {q.target : q \in chosen} |->
                              Get((CHOOSE q \in chosen : q.target = t).operands[p])])

\* Call the method: arguments and statics have some values.
Enter ==
    /\ pc = "built"
    /\ pc' = "run"
    /\ \E args \in [1..method.args -> Value], statics \in [{x \in Slots : IsStatic(x)} -> Value] :
           LET params == [x \in {Arg(i) : i \in 0..(method.args - 1)} |-> args[x[2] + 1]]
               inputs == [v \in {Initial(x) : x \in DOMAIN params \cup DOMAIN statics} |->
                             IF v[1] = "arg" THEN args[v[2] + 1] ELSE statics[<<v[1], v[2]>>]]
           IN  /\ stack' = IF method.onStack THEN Reverse(args) ELSE <<>>
               /\ slots' = IF method.onStack THEN statics ELSE Overridden(statics, params)
               /\ env' = PhiValues(Entry, VirtualSource, With(inputs, VmNull, Null))
    /\ UNCHANGED <<method, block, changed, iterations, versions, entry, exit, tainted, ssa,
                   at, transfers, flagged>>

Below(n) == SubSeq(stack, 1, Len(stack) - n)
Nth(n) == stack[Len(stack) - n + 1]    \* the n-th from the top

\* Values an instruction needs on the stack.
Needs(instr) ==
    CASE instr.op \in {"over", "tuck", "swap", "nip"} -> 2
      [] instr.op \in {"rot", "reverse3"} -> 3
      [] instr.op \in {"dup", "drop", "branch", "store", "ret"} -> 1
      [] instr.op \in {"compute", "consume"} -> instr.n
      [] instr.op \in {"load", "initslot", "depth"} -> 0

\* The stack after an instruction that computes nothing.
Reordered(op) ==
    CASE op = "dup"      -> stack \o <<Nth(1)>>
      [] op = "over"     -> stack \o <<Nth(2)>>
      [] op = "tuck"     -> Below(2) \o <<Nth(1), Nth(2), Nth(1)>>
      [] op = "swap"     -> Below(2) \o <<Nth(1), Nth(2)>>
      [] op = "rot"      -> Below(3) \o <<Nth(2), Nth(1), Nth(3)>>
      [] op = "reverse3" -> Below(3) \o <<Nth(1), Nth(2), Nth(3)>>
      [] op = "drop"     -> Below(1)
      [] op = "nip"      -> Below(2) \o <<Nth(1)>>
      [] op = "depth"    -> stack \o <<Len(stack)>>

\* The VM faults on a missing operand or an unset slot.
CanExecute ==
    /\ Len(stack) >= Needs(Instr)
    /\ Instr.op = "load" => Instr.slot \in DOMAIN slots

\* The form's side of one instruction, given the value the VM pushed.
EvaluateStatement(pushed) ==
    LET before == Here.stmts
        after == After.stmts
        s == Last(after)
    IN  env' = IF Len(after) = Len(before) THEN env
               ELSE With(env, s.target, IF s.op = "copy" THEN Read(s.args[1])
                                        ELSE IF s.op = "literal" THEN s.value
                                        ELSE pushed)

Step ==
    /\ pc = "run"
    /\ ~AtEnd
    /\ CanExecute
    /\ \E v \in IF Instr.op = "compute" THEN Value ELSE {Undefined} :
         CASE Instr.op \in {"compute", "consume", "branch"} ->
                /\ stack' = Below(Needs(Instr)) \o (IF Instr.op = "compute" THEN <<v>> ELSE <<>>)
                /\ UNCHANGED slots
                /\ EvaluateStatement(v)
           [] Instr.op = "load" ->
                /\ stack' = Append(stack, slots[Instr.slot])
                /\ UNCHANGED slots
                /\ EvaluateStatement(slots[Instr.slot])
           [] Instr.op = "store" ->
                /\ stack' = Below(1)
                /\ slots' = With(slots, Instr.slot, Nth(1))
                /\ EvaluateStatement(v)
           [] Instr.op = "initslot" ->
                /\ slots' = Overridden(slots, [x \in {<<"loc", i>> : i \in 0..(Instr.n - 1)} |-> Null])
                /\ UNCHANGED <<stack, env>>
           [] Instr.op = "ret" -> UNCHANGED <<stack, slots, env>>
           [] OTHER ->
                /\ stack' = Reordered(Instr.op)
                /\ UNCHANGED slots
                /\ EvaluateStatement(v)
    /\ flagged' = (flagged \/ at[2] + 1 \in After.issues)
    /\ at' = <<at[1], at[2] + 1>>
    /\ UNCHANGED <<builderVars, transfers>>

\* Take an edge to the next block.
Transfer ==
    /\ pc = "run"
    /\ AtEnd
    /\ transfers < MaxTransfers
    /\ \E b \in Blocks :
         /\ HasEdge(at[1], b, "Normal")
         /\ at' = <<b, 0>>
         /\ env' = PhiValues(b, at[1], env)
    /\ transfers' = transfers + 1
    /\ UNCHANGED <<builderVars, stack, slots, flagged>>

\* An exception between two instructions of a protected block: the VM pushes
\* the payload and goes to the handler, whose phis the form evaluates on the
\* edge from the block of the TRY.
Throw ==
    /\ pc = "run"
    /\ transfers < MaxTransfers
    /\ method.handler[at[1]] # 0
    /\ LET h == method.handler[at[1]]
       IN  \E v \in Value, p \in Blocks :
             /\ HasEdge(p, h, "Exception")
             /\ at' = <<h, 0>>
             /\ stack' = Append(stack, v)
             /\ env' = PhiValues(h, p, With(env, ExceptionPayload(h), v))
    /\ transfers' = transfers + 1
    /\ UNCHANGED <<builderVars, slots, flagged>>

\* The method returned, faulted, or the bound is reached.
Finished ==
    /\ pc = "run"
    /\ \/ ~AtEnd /\ ~CanExecute
       \/ AtEnd /\ transfers = MaxTransfers
       \/ AtEnd /\ \A b \in Blocks : ~HasEdge(at[1], b, "Normal")
    /\ UNCHANGED vars

Next ==
    \/ BuilderNext /\ UNCHANGED vmVars
    \/ Enter
    \/ Step
    \/ Transfer
    \/ Throw
    \/ Finished

Spec == Init /\ [][Next]_vars

-----------------------------------------------------------------------------
Known(v) == ~IsUnknownOrTainted(v)

\* Until an instruction with an issue has run, every value the form believes
\* to know is the VM's: counted from the top, the symbolic stack and the stack
\* hold the same values, and so do the reaching definitions and the slots.
FormSimulatesVm ==
    (pc = "run" /\ ~flagged) =>
        LET sym == Here
        IN  /\ \A k \in 1..Min({Len(sym.stack), Len(stack)}) :
                 LET v == sym.stack[Len(sym.stack) - k + 1]
                 IN  Known(v) => Read(v) = Nth(k)
            /\ \A x \in DOMAIN sym.slots :
                 Known(sym.slots[x]) => x \in DOMAIN slots /\ Read(sym.slots[x]) = slots[x]

=============================================================================
