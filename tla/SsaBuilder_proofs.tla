------------------------- MODULE SsaBuilder_proofs -------------------------
(***************************************************************************)
(* For every set of methods: the SSA form defines each variable once, and  *)
(* never one of the arguments the method is entered with.                  *)
(***************************************************************************)
EXTENDS SsaExecution, NaturalFacts, SequenceTheorems, TLAPS

-----------------------------------------------------------------------------
(***************************************************************************)
(* Names                                                                   *)
(***************************************************************************)

\* A variable names its base and its version.
LEMMA VarInjective ==
    ASSUME NEW x \in Bases, NEW y \in Bases, NEW m, NEW n, Var(x, m) = Var(y, n)
    PROVE  x = y /\ m = n
<1>1. Bases \subseteq {"loc", "static", "arg", "t"} \X Nat
    BY SlotsAssumption DEF Bases, Temp
<1>2. x = <<x[1], x[2]>> /\ y = <<y[1], y[2]>>
    BY <1>1
<1>3. QED
    BY <1>2 DEF Var

\* No version of a base is the phi of a stack position, and those differ.
LEMMA PhiVarApart ==
    ASSUME NEW b, NEW d
    PROVE  /\ \A x \in Bases : \A n : Var(x, n) # PhiVar(b, d)
           /\ \A c, e : PhiVar(b, d) = PhiVar(c, e) => b = c /\ d = e
<1>1. ASSUME NEW x \in Bases, NEW n PROVE Var(x, n) # PhiVar(b, d)
    <2>1. x[1] \in {"loc", "static", "arg", "t"}
        BY SlotsAssumption DEF Bases, Temp
    <2>2. QED
        BY <2>1 DEF Var, PhiVar
<1>2. QED
    BY <1>1 DEF PhiVar, Var

-----------------------------------------------------------------------------
(***************************************************************************)
(* One instruction                                                         *)
(***************************************************************************)
Fields == {"stack", "slots", "versions", "stmts", "issues", "count"}

WellFormed(s) ==
    /\ DOMAIN s = Fields
    /\ s.versions \in [Bases -> Nat]
    /\ \E S : s.stmts \in Seq(S)
    /\ DOMAIN s.slots \subseteq Slots

\* From s to t nothing is defined, or the next version of one base.
Quiet(s, t) == t.versions = s.versions /\ t.stmts = s.stmts

Defines(s, t, x) ==
    /\ t.versions = [s.versions EXCEPT ![x] = @ + 1]
    /\ \E st : t.stmts = Append(s.stmts, st) /\ st.target = Fresh(s, x)

Continues(s, t) ==
    /\ DOMAIN t = Fields
    /\ DOMAIN t.slots \subseteq Slots
    /\ Quiet(s, t) \/ \E x \in Bases : Defines(s, t, x)

LEMMA AdvanceKeeps ==
    ASSUME NEW s, DOMAIN s = Fields, NEW issue
    PROVE  LET t == Advance(s, issue)
           IN  /\ DOMAIN t = Fields
               /\ t.slots = s.slots
               /\ Quiet(s, t)
    BY DEF Advance, Fields, Quiet

LEMMA AdvanceContinues ==
    ASSUME NEW s, NEW t, Continues(s, t), NEW issue
    PROVE  Continues(s, Advance(t, issue))
    BY AdvanceKeeps DEF Continues, Quiet, Defines

LEMMA StayContinues ==
    ASSUME NEW s, WellFormed(s)
    PROVE  Continues(s, s)
    BY DEF Continues, WellFormed, Quiet

\* A new stack is no definition.
LEMMA StackContinues ==
    ASSUME NEW s, WellFormed(s), NEW st
    PROVE  Continues(s, [s EXCEPT !.stack = st])
    BY DEF Continues, WellFormed, Quiet, Fields

LEMMA SlotsContinue ==
    ASSUME NEW s, WellFormed(s), NEW sl, DOMAIN sl \subseteq Slots
    PROVE  Continues(s, [s EXCEPT !.slots = sl])
    BY DEF Continues, WellFormed, Quiet, Fields

LEMMA DefineContinues ==
    ASSUME NEW s, WellFormed(s), NEW t, NEW x \in Bases, NEW a,
           DOMAIN t = Fields, DOMAIN t.slots \subseteq Slots,
           t.versions = [s.versions EXCEPT ![x] = @ + 1],
           t.stmts = Append(s.stmts, a), a.target = Fresh(s, x)
    PROVE  Continues(s, t)
    BY DEF Continues, Defines

LEMMA ReorderContinues ==
    ASSUME NEW s, WellFormed(s), NEW op
    PROVE  Continues(s, ApplyReorder(s, op))
<1> DEFINE arity == Reorders[op][1]
           shape == Reorders[op][2]
           top == Popped(s.stack, arity)
           source == top[-Min(Range(shape))]
           stack1 == Rest(s.stack, arity) \o
                     [i \in DOMAIN shape |-> IF shape[i] < 0 THEN Fresh(s, Temp) ELSE top[shape[i]]]
           moved == [s EXCEPT !.stack = stack1]
           copied == [Define(moved, Temp) EXCEPT !.stmts = Append(@, Copy(Fresh(s, Temp), source))]
<1>1. Continues(s, moved)
    BY StackContinues
<1>2. Continues(s, copied)
    <2> HIDE DEF stack1, source
    <2>1. Temp \in Bases
        BY DEF Bases
    <2>2. /\ DOMAIN copied = Fields /\ copied.slots = s.slots
          /\ copied.versions = [s.versions EXCEPT ![Temp] = @ + 1]
          /\ copied.stmts = Append(s.stmts, Copy(Fresh(s, Temp), source))
        BY DEF WellFormed, Fields, Define
    <2>3. Copy(Fresh(s, Temp), source).target = Fresh(s, Temp)
        BY DEF Copy
    <2> HIDE DEF copied
    <2>4. DOMAIN copied.slots \subseteq Slots
        BY <2>2 DEF WellFormed
    <2>5. QED
        BY <2>1, <2>2, <2>3, <2>4, DefineContinues
<1>3. Continues(s, s)
    BY StayContinues
<1>4. QED
    BY <1>1, <1>2, <1>3, AdvanceContinues DEF ApplyReorder

LEMMA DepthContinues ==
    ASSUME NEW s, WellFormed(s)
    PROVE  Continues(s, ApplyDepth(s))
<1> DEFINE a == Literal(Fresh(s, Temp), Len(s.stack))
           st == Append(s.stack, Fresh(s, Temp))
           t == [Define(s, Temp) EXCEPT !.stack = st, !.stmts = Append(@, a)]
<1>1. Continues(s, t)
    <2>1. a.target = Fresh(s, Temp)
        BY DEF Literal
    <2> HIDE DEF a, st
    <2>2. /\ DOMAIN t = Fields /\ t.slots = s.slots
          /\ t.versions = [s.versions EXCEPT ![Temp] = @ + 1]
          /\ t.stmts = Append(s.stmts, a)
        BY DEF WellFormed, Fields, Define
    <2>3. Temp \in Bases /\ DOMAIN s.slots \subseteq Slots
        BY DEF Bases, WellFormed
    <2> HIDE DEF t
    <2>4. QED BY <2>1, <2>2, <2>3, DefineContinues
<1>2. Define(s, Temp).stack = s.stack
    BY DEF Define, WellFormed, Fields
<1>3. ApplyDepth(s) = Advance(t, FALSE)
    BY <1>2 DEF ApplyDepth, Fresh, Define, WellFormed, Fields
<1> HIDE DEF t
<1>4. QED BY <1>1, <1>3, AdvanceContinues

LEMMA ComputeContinues ==
    ASSUME NEW s, WellFormed(s), NEW n, NEW pushes \in BOOLEAN
    PROVE  Continues(s, ApplyCompute(s, n, pushes))
<1> DEFINE args == Popped(s.stack, n)
           rest == Rest(s.stack, n)
           popped == [s EXCEPT !.stack = rest]
           a == Compute(Fresh(s, Temp), args)
           t == [Define(popped, Temp) EXCEPT !.stack = Append(@, Fresh(s, Temp)),
                                             !.stmts = Append(@, a)]
           issue == Len(s.stack) < n \/ \E v \in Range(args) : IsUnknownOrTainted(v)
<1>1. Continues(s, popped)
    BY StackContinues
<1>2. Continues(s, t)
    <2>1. a.target = Fresh(s, Temp)
        BY DEF Compute
    <2> HIDE DEF a, rest
    <2>2. /\ DOMAIN t = Fields /\ t.slots = s.slots
          /\ t.versions = [s.versions EXCEPT ![Temp] = @ + 1]
          /\ t.stmts = Append(s.stmts, a)
        BY DEF WellFormed, Fields, Define
    <2>3. Temp \in Bases /\ DOMAIN s.slots \subseteq Slots
        BY DEF Bases, WellFormed
    <2> HIDE DEF t
    <2>4. QED BY <2>1, <2>2, <2>3, DefineContinues
<1>3. ApplyCompute(s, n, pushes) = Advance(IF pushes THEN t ELSE popped, issue)
    BY DEF ApplyCompute
<1> HIDE DEF t, popped, issue
<1>4. Continues(s, IF pushes THEN t ELSE popped)
    BY <1>1, <1>2
<1>5. QED BY <1>3, <1>4, AdvanceContinues

LEMMA LoadContinues ==
    ASSUME NEW s, WellFormed(s), NEW slot \in Slots
    PROVE  Continues(s, ApplyLoad(s, slot))
<1> DEFINE reaching == slot \in DOMAIN s.slots
           issue == IF reaching THEN IsUnknownOrTainted(s.slots[slot]) ELSE ~IsStatic(slot)
           target == Fresh(s, slot)
           a == IF reaching THEN Copy(target, s.slots[slot]) ELSE Compute(target, <<>>)
           sl == IF reaching THEN s.slots ELSE With(s.slots, slot, target)
           t == [Define(s, slot) EXCEPT !.stack = Append(@, target),
                                        !.stmts = Append(@, a),
                                        !.slots = IF reaching THEN @ ELSE With(@, slot, target)]
<1>1. a.target = target
    BY DEF Copy, Compute
<1>2. DOMAIN sl \subseteq Slots
    <2>1. DOMAIN sl \subseteq DOMAIN s.slots \cup {slot}
        BY DEF With
    <2>2. QED BY <2>1 DEF WellFormed
<1> HIDE DEF a, target
<1>3. t.slots = sl
    BY DEF WellFormed, Fields, Define
<1>4. /\ DOMAIN t = Fields
      /\ t.versions = [s.versions EXCEPT ![slot] = @ + 1]
      /\ t.stmts = Append(s.stmts, a)
    BY DEF WellFormed, Fields, Define
<1>5. ApplyLoad(s, slot) = Advance(t, issue)
    BY DEF ApplyLoad, a, target
<1> HIDE DEF t, sl, issue
<1>6. Continues(s, t)
    BY <1>1, <1>2, <1>3, <1>4, DefineContinues DEF Bases, target
<1>7. QED BY <1>5, <1>6, AdvanceContinues

LEMMA StoreContinues ==
    ASSUME NEW s, WellFormed(s), NEW slot \in Slots
    PROVE  Continues(s, ApplyStore(s, slot))
<1> DEFINE value == Popped(s.stack, 1)[1]
           target == Fresh(s, slot)
           a == Copy(target, value)
           sl == With(s.slots, slot, target)
           t == [Define(s, slot) EXCEPT !.stack = Rest(@, 1),
                                        !.stmts = Append(@, a),
                                        !.slots = With(@, slot, target)]
<1>1. a.target = target
    BY DEF Copy
<1>2. DOMAIN sl \subseteq Slots
    <2>1. DOMAIN sl \subseteq DOMAIN s.slots \cup {slot}
        BY DEF With
    <2>2. QED BY <2>1 DEF WellFormed
<1> HIDE DEF a, target
<1>3. t.slots = sl
    BY DEF WellFormed, Fields, Define
<1>4. /\ DOMAIN t = Fields
      /\ t.versions = [s.versions EXCEPT ![slot] = @ + 1]
      /\ t.stmts = Append(s.stmts, a)
    BY DEF WellFormed, Fields, Define
<1>5. ApplyStore(s, slot) = Advance(t, IsUnknownOrTainted(value))
    BY DEF ApplyStore, a, target
<1> HIDE DEF t, sl, value
<1>6. Continues(s, t)
    BY <1>1, <1>2, <1>3, <1>4, DefineContinues DEF Bases, target
<1>7. QED BY <1>5, <1>6, AdvanceContinues

LEMMA InitslotContinues ==
    ASSUME NEW s, WellFormed(s), NEW n \in Nat, \A k \in 0..(n - 1) : <<"loc", k>> \in Slots
    PROVE  Continues(s, ApplyInitslot(s, n))
<1> DEFINE locals == {<<"loc", i>> : i \in 0..(n - 1)}
           sl == Overridden(s.slots, [x \in locals |-> VmNull])
           t == [s EXCEPT !.slots = sl]
<1>1. DOMAIN sl \subseteq Slots
    <2>1. DOMAIN sl = locals \cup DOMAIN s.slots
        BY DEF Overridden
    <2>2. QED BY <2>1 DEF WellFormed
<1>2. ApplyInitslot(s, n) = Advance(t, FALSE)
    BY DEF ApplyInitslot
<1> HIDE DEF sl
<1>3. Continues(s, t)
    BY <1>1, SlotsContinue
<1> HIDE DEF t
<1>4. QED BY <1>2, <1>3, AdvanceContinues

\* apply_instruction defines nothing or the next version of one base.
LEMMA InstructionContinues ==
    ASSUME NEW s, WellFormed(s), NEW instr \in Instruction
    PROVE  Continues(s, ApplyInstruction(s, instr))
<1>1. CASE instr.op \in DOMAIN Reorders
    BY <1>1, ReorderContinues DEF ApplyInstruction, Reorders
<1>2. CASE instr.op = "depth"
    BY <1>2, DepthContinues DEF ApplyInstruction, Reorders
<1>3. CASE instr.op = "compute"
    BY <1>3, ComputeContinues DEF ApplyInstruction, Reorders
<1>4. CASE instr.op = "consume"
    BY <1>4, ComputeContinues DEF ApplyInstruction, Reorders
<1>5. CASE instr.op = "branch"
    BY <1>5, ComputeContinues DEF ApplyInstruction, Reorders
<1>6. CASE instr.op = "load"
    <2>1. instr.slot \in Slots
        BY <1>6 DEF Instruction, Reorders
    <2>2. QED BY <1>6, <2>1, LoadContinues DEF ApplyInstruction, Reorders
<1>7. CASE instr.op = "store"
    <2>1. instr.slot \in Slots
        BY <1>7 DEF Instruction, Reorders
    <2>2. QED BY <1>7, <2>1, StoreContinues DEF ApplyInstruction, Reorders
<1>8. CASE instr.op = "initslot"
    <2>1. instr.n \in Nat /\ \A k \in 0..(instr.n - 1) : <<"loc", k>> \in Slots
        BY <1>8 DEF Instruction, Reorders
    <2>2. QED BY <1>8, <2>1, InitslotContinues DEF ApplyInstruction, Reorders
<1>9. CASE instr.op = "ret"
    <2> DEFINE issue == s.stack = <<>> \/ IsUnknownOrTainted(Popped(s.stack, 1)[1])
    <2>1. ApplyInstruction(s, instr) = Advance(s, issue)
        BY <1>9 DEF ApplyInstruction, Reorders, ApplyRet
    <2> HIDE DEF issue
    <2>2. QED BY <2>1, StayContinues, AdvanceContinues
<1>10. instr.op \in DOMAIN Reorders \cup
           {"depth", "compute", "consume", "branch", "load", "store", "initslot", "ret"}
    BY DEF Instruction
<1>11. QED
    BY <1>1, <1>2, <1>3, <1>4, <1>5, <1>6, <1>7, <1>8, <1>9, <1>10

-----------------------------------------------------------------------------
(***************************************************************************)
(* A block                                                                 *)
(***************************************************************************)

\* v is a version of some base that lo has not given out and hi has.
Owned(v, lo, hi) ==
    \E x \in Bases : \E n \in Nat : v = Var(x, n) /\ lo[x] <= n /\ n < hi[x]

\* What is so after some of the instructions of a block that lo was given to.
Grown(lo, s) ==
    /\ WellFormed(s)
    /\ \A x \in Bases : lo[x] <= s.versions[x]
    /\ \A i \in DOMAIN s.stmts : Owned(s.stmts[i].target, lo, s.versions)
    /\ \A i, j \in DOMAIN s.stmts : s.stmts[i].target = s.stmts[j].target => i = j

LEMMA OwnedWidens ==
    ASSUME NEW lo \in [Bases -> Nat], NEW hi \in [Bases -> Nat], NEW low \in [Bases -> Nat],
           NEW high \in [Bases -> Nat],
           \A x \in Bases : low[x] <= lo[x] /\ hi[x] <= high[x],
           NEW v, Owned(v, lo, hi)
    PROVE  Owned(v, low, high)
<1>1. PICK x \in Bases, n \in Nat : v = Var(x, n) /\ lo[x] <= n /\ n < hi[x]
    BY DEF Owned
<1>2. low[x] <= n /\ n < high[x]
    <2>1. lo[x] \in Nat /\ hi[x] \in Nat /\ low[x] \in Nat /\ high[x] \in Nat
        OBVIOUS
    <2>2. QED BY <1>1, <2>1
<1>3. QED
    BY <1>1, <1>2 DEF Owned

\* Two ranges that do not overlap share no variable.
LEMMA OwnedApart ==
    ASSUME NEW lo \in [Bases -> Nat], NEW mid \in [Bases -> Nat],
           NEW v, Owned(v, lo, mid), NEW hi, Owned(v, mid, hi)
    PROVE  FALSE
<1>1. PICK x \in Bases, n \in Nat : v = Var(x, n) /\ n < mid[x]
    BY DEF Owned
<1>2. PICK y \in Bases, m \in Nat : v = Var(y, m) /\ mid[y] <= m
    BY DEF Owned
<1>3. x = y /\ n = m
    <2>1. Var(x, n) = Var(y, m)
        BY <1>1, <1>2
    <2>2. QED BY <2>1, VarInjective
<1>4. mid[x] \in Nat
    OBVIOUS
<1>5. QED
    BY <1>1, <1>2, <1>3, <1>4

LEMMA Appended ==
    ASSUME NEW S, NEW c \in Seq(S), NEW e
    PROVE  /\ \E T : Append(c, e) \in Seq(T)
           /\ DOMAIN Append(c, e) = DOMAIN c \cup {Len(c) + 1}
           /\ Len(c) + 1 \notin DOMAIN c
           /\ \A i \in DOMAIN c : Append(c, e)[i] = c[i]
           /\ Append(c, e)[Len(c) + 1] = e
<1>1. c \in Seq(S \cup {e})
    OBVIOUS
<1>2. Append(c, e) \in Seq(S \cup {e})
    BY <1>1
<1>3. QED
    BY <1>1, <1>2

LEMMA GrownContinues ==
    ASSUME NEW lo \in [Bases -> Nat], NEW s, Grown(lo, s), NEW t, Continues(s, t)
    PROVE  Grown(lo, t)
<1>1. CASE Quiet(s, t)
    BY <1>1 DEF Grown, Quiet, Continues, WellFormed
<1>2. ASSUME NEW x \in Bases, Defines(s, t, x) PROVE Grown(lo, t)
    <2>1. PICK st : t.stmts = Append(s.stmts, st) /\ st.target = Fresh(s, x)
        BY <1>2 DEF Defines
    <2>2. PICK S : s.stmts \in Seq(S)
        BY DEF Grown, WellFormed
    <2>3. s.versions \in [Bases -> Nat] /\ t.versions = [s.versions EXCEPT ![x] = @ + 1]
        BY <1>2 DEF Defines, Grown, WellFormed
    <2>4. /\ t.versions \in [Bases -> Nat]
          /\ \A y \in Bases : s.versions[y] <= t.versions[y] /\ lo[y] <= s.versions[y]
          /\ s.versions[x] < t.versions[x]
        BY <2>3 DEF Grown
    <2>5. WellFormed(t)
        <3>1. \E T : t.stmts \in Seq(T)
            <4>1. \E T : Append(s.stmts, st) \in Seq(T)
                BY <2>2, Appended
            <4>2. QED BY <2>1, <4>1
        <3>2. QED BY <2>4, <3>1 DEF WellFormed, Continues
    <2>6. \A y \in Bases : lo[y] <= t.versions[y]
        <3>1. \A y \in Bases : lo[y] \in Nat /\ s.versions[y] \in Nat /\ t.versions[y] \in Nat
            BY <2>3, <2>4
        <3>2. QED BY <2>4, <3>1
    <2>7. Owned(st.target, s.versions, t.versions)
        BY <2>1, <2>3, <2>4 DEF Owned, Fresh
    <2>8. \A i \in DOMAIN s.stmts : Owned(s.stmts[i].target, lo, s.versions)
        BY DEF Grown
    <2>9. /\ DOMAIN t.stmts = DOMAIN s.stmts \cup {Len(s.stmts) + 1}
          /\ \A i \in DOMAIN s.stmts : t.stmts[i] = s.stmts[i]
          /\ t.stmts[Len(s.stmts) + 1] = st
        BY <2>1, <2>2, Appended
    <2>10. \A i \in DOMAIN t.stmts : Owned(t.stmts[i].target, lo, t.versions)
        <3>1. Owned(st.target, lo, t.versions)
            BY <2>3, <2>4, <2>6, <2>7, OwnedWidens
        <3>2. ASSUME NEW i \in DOMAIN s.stmts PROVE Owned(s.stmts[i].target, lo, t.versions)
            <4>1. \A y \in Bases : lo[y] <= lo[y]
                OBVIOUS
            <4>2. QED BY <2>3, <2>4, <2>8, <4>1, OwnedWidens
        <3>3. QED BY <2>9, <3>1, <3>2
    <2>11. ASSUME NEW i \in DOMAIN s.stmts PROVE s.stmts[i].target # st.target
        BY <2>3, <2>7, <2>8, OwnedApart
    <2>12. \A i, j \in DOMAIN t.stmts : t.stmts[i].target = t.stmts[j].target => i = j
        BY <2>9, <2>11 DEF Grown
    <2>13. QED
        BY <2>5, <2>6, <2>10, <2>12 DEF Grown
<1>3. QED
    BY <1>1, <1>2 DEF Continues

\* f lists the states of block b from s on.
ListsStates(s, b, n, f) ==
    f = [k \in 0..n |-> IF k = 0 THEN s ELSE ApplyInstruction(f[k - 1], method.code[b][k])]

LEMMA StatesExist ==
    ASSUME NEW s, NEW b, NEW N \in Nat
    PROVE  \E f : ListsStates(s, b, N, f)
<1> DEFINE S == {k \in 0..N : \E f : ListsStates(s, b, k, f)}
<1>1. 0 \in S
    <2> DEFINE f == [j \in 0..0 |-> s]
    <2>1. f = [k \in 0..0 |-> IF k = 0 THEN s ELSE ApplyInstruction(f[k - 1], method.code[b][k])]
        OBVIOUS
    <2> HIDE DEF f
    <2>2. ListsStates(s, b, 0, f)
        BY <2>1 DEF ListsStates
    <2>3. QED BY <2>2
<1>2. ASSUME NEW k \in 0..(N - 1), k \in S PROVE k + 1 \in S
    <2>1. PICK f : ListsStates(s, b, k, f)
        BY <1>2
    <2> DEFINE g == [j \in 0..(k + 1) |->
                        IF j = 0 THEN s ELSE ApplyInstruction(f[j - 1], method.code[b][j])]
    <2>2. \A j \in 0..k : g[j] = f[j]
        BY <2>1 DEF ListsStates
    <2>3. \A j \in 0..(k + 1) : j # 0 => g[j - 1] = f[j - 1]
        <3>1. \A j \in 0..(k + 1) : j # 0 => j - 1 \in 0..k
            OBVIOUS
        <3> HIDE DEF g
        <3>2. QED BY <2>2, <3>1
    <2>4. g = [j \in 0..(k + 1) |->
                  IF j = 0 THEN s ELSE ApplyInstruction(g[j - 1], method.code[b][j])]
        BY <2>3
    <2> HIDE DEF g
    <2>5. ListsStates(s, b, k + 1, g)
        BY <2>4 DEF ListsStates
    <2>6. QED BY <2>5
<1>3. 0..N \subseteq S
    <2> HIDE DEF S
    <2>1. QED BY <1>1, <1>2, BoundedInduction
<1>4. QED BY <1>3

\* execute_block: what a block defines are versions it was given, each once.
LEMMA BlockDefines ==
    ASSUME method \in Methods, NEW b \in Blocks, NEW s, WellFormed(s), s.stmts = <<>>
    PROVE  Grown(s.versions, ExecuteBlock(s, b))
<1> DEFINE code == method.code[b]
           N == Len(code)
           f == CHOOSE g : ListsStates(s, b, N, g)
<1>1. code \in Seq(Instruction)
    BY CodeAssumption DEF Blocks
<1>2. N \in Nat /\ \A k \in 1..N : code[k] \in Instruction
    BY <1>1
<1>3. ListsStates(s, b, N, f)
    <2>1. \E g : ListsStates(s, b, N, g)
        BY <1>2, StatesExist
    <2>2. QED BY <2>1
<1>4. ExecuteBlock(s, b) = f[N]
    BY DEF ExecuteBlock, ExecuteUpTo, ListsStates
<1> HIDE DEF f, N
<1>5. f[0] = s /\ \A k \in 0..(N - 1) : f[k + 1] = ApplyInstruction(f[k], code[k + 1])
    BY <1>2, <1>3 DEF ListsStates
<1> HIDE DEF code
<1> DEFINE S == {k \in 0..N : Grown(s.versions, f[k])}
<1>6. s.versions \in [Bases -> Nat]
    BY DEF WellFormed
<1>7. 0 \in S
    <2>1. \A x \in Bases : s.versions[x] <= s.versions[x]
        BY <1>6
    <2>2. QED BY <1>2, <1>5, <2>1 DEF Grown
<1>8. ASSUME NEW k \in 0..(N - 1), k \in S PROVE k + 1 \in S
    <2>1. k + 1 \in 1..N /\ k + 1 \in 0..N
        BY <1>2
    <2>2. Continues(f[k], f[k + 1])
        BY <1>2, <1>5, <1>8, <2>1, InstructionContinues DEF Grown
    <2>3. QED BY <1>6, <1>8, <2>1, <2>2, GrownContinues
<1>9. 0..N \subseteq S
    <2> HIDE DEF S
    <2>1. QED BY <1>2, <1>7, <1>8, BoundedInduction
<1>10. QED
    BY <1>2, <1>4, <1>9

-----------------------------------------------------------------------------
(***************************************************************************)
(* A join                                                                  *)
(***************************************************************************)

\* What the recorded exits of blocks bind are slots.
SlotsBound == \A p \in DOMAIN exit : DOMAIN exit[p].slots \subseteq Slots

LEMMA ReserveGrows ==
    ASSUME NEW vs \in [Bases -> Nat], NEW S
    PROVE  /\ Reserve(vs, S) \in [Bases -> Nat]
           /\ \A x \in Bases : vs[x] <= Reserve(vs, S)[x]
           /\ \A x \in Bases \cap S : 1 <= Reserve(vs, S)[x]
    BY DEF Reserve

LEMMA ReservedFacts ==
    ASSUME method \in Methods
    PROVE  /\ Reserved \in [Bases -> Nat]
           /\ \A i \in 0..(method.args - 1) : Arg(i) \in Bases /\ 1 <= Reserved[Arg(i)]
<1> DEFINE zero == [x \in Bases |-> 0]
           S == {Arg(i) : i \in 0..(method.args - 1)}
<1>1. zero \in [Bases -> Nat]
    OBVIOUS
<1>2. \A i \in 0..(method.args - 1) : Arg(i) \in Bases /\ Arg(i) \in S
    BY MethodsAssumption DEF Bases, Arg
<1>3. Reserved = Reserve(zero, S)
    BY DEF Reserved
<1> HIDE DEF zero, S
<1>4. QED
    BY <1>1, <1>2, <1>3, ReserveGrows

\* compute_join_slots: its phis take the next version of their slots.
LEMMA JoinSlotsFacts ==
    ASSUME method \in Methods, SlotsBound, NEW b, NEW vs \in [Bases -> Nat]
    PROVE  LET J == JoinSlots(b, vs)
           IN  /\ DOMAIN J.slots \subseteq Slots
               /\ J.versions \in [Bases -> Nat]
               /\ \A x \in Bases : vs[x] <= J.versions[x]
               /\ \A p \in J.phis : Owned(p.target, vs, J.versions)
               /\ \A p, q \in J.phis : p.target = q.target => p = q
<1> DEFINE params == IF b = Entry /\ ~method.onStack
                     THEN {Arg(i) : i \in 0..(method.args - 1)} ELSE {}
           known == [p \in JoinPredecessors(b) \cap DOMAIN exit |-> exit[p].slots]
           states == IF b = Entry
                     THEN With(known, VirtualSource, [x \in params |-> Initial(x)])
                     ELSE known
           names == UNION {DOMAIN states[s] : s \in DOMAIN states}
           reserved == Reserve(vs, params \cup {x \in names : IsStatic(x)})
           operands == [x \in names |-> SlotOperands(x, states)]
           merged == {x \in names : ~Agree(operands[x])}
           bound == [x \in names |-> IF x \in merged THEN Var(x, reserved[x])
                                     ELSE CHOOSE v \in Range(operands[x]) : TRUE]
           phis == {[target |-> Var(x, reserved[x]), operands |-> operands[x]] : x \in merged}
           advanced == [x \in Bases |-> IF x \in merged THEN reserved[x] + 1 ELSE reserved[x]]
<1>1. JoinSlots(b, vs) = [slots |-> bound, phis |-> phis, versions |-> advanced]
    BY DEF JoinSlots
<1>2. params \subseteq Slots
    BY MethodsAssumption DEF Arg
<1>3. names \subseteq Slots
    <2>1. \A p \in DOMAIN known : DOMAIN known[p] \subseteq Slots
        BY DEF SlotsBound
    <2> HIDE DEF known, params
    <2>2. \A s \in DOMAIN states : DOMAIN states[s] \subseteq Slots
        <3>1. CASE b = Entry
            <4>1. \A s \in DOMAIN states : states[s] = IF s = VirtualSource
                                           THEN [x \in params |-> Initial(x)] ELSE known[s]
                BY <3>1 DEF With
            <4>2. \A s \in DOMAIN states : s = VirtualSource \/ s \in DOMAIN known
                BY <3>1 DEF With
            <4> HIDE DEF states
            <4>3. DOMAIN [x \in params |-> Initial(x)] \subseteq Slots
                BY <1>2
            <4>4. QED BY <2>1, <4>1, <4>2, <4>3
        <3>2. CASE b # Entry
            BY <2>1, <3>2
        <3>3. QED BY <3>1, <3>2
    <2> HIDE DEF states
    <2>3. QED BY <2>2
<1>4. reserved \in [Bases -> Nat] /\ \A x \in Bases : vs[x] <= reserved[x]
    <2> HIDE DEF names, params
    <2>1. QED BY ReserveGrows
<1>5. merged \subseteq Slots /\ merged \subseteq Bases
    BY <1>3 DEF Bases
<1> HIDE DEF params, known, states, names, reserved, operands, merged
<1>6. advanced \in [Bases -> Nat]
    BY <1>4
<1>7. \A x \in Bases : vs[x] <= advanced[x]
    <2>1. \A x \in Bases : vs[x] \in Nat /\ reserved[x] \in Nat
        BY <1>4
    <2>2. QED BY <1>4, <2>1
<1>8. DOMAIN bound \subseteq Slots
    BY <1>3
<1>9. ASSUME NEW p \in phis PROVE Owned(p.target, vs, advanced)
    <2>1. PICK x \in merged : p.target = Var(x, reserved[x])
        OBVIOUS
    <2>2. x \in Bases /\ reserved[x] \in Nat /\ vs[x] <= reserved[x] /\ reserved[x] < advanced[x]
        BY <1>4, <1>5
    <2> HIDE DEF advanced, phis
    <2>3. QED BY <2>1, <2>2 DEF Owned
<1>10. ASSUME NEW p \in phis, NEW q \in phis, p.target = q.target PROVE p = q
    <2>1. PICK x \in merged : p = [target |-> Var(x, reserved[x]), operands |-> operands[x]]
        OBVIOUS
    <2>2. PICK y \in merged : q = [target |-> Var(y, reserved[y]), operands |-> operands[y]]
        OBVIOUS
    <2>3. Var(x, reserved[x]) = Var(y, reserved[y])
        BY <1>10, <2>1, <2>2
    <2>4. x = y
        BY <1>5, <2>3, VarInjective
    <2>5. QED BY <2>1, <2>2, <2>4
<1> HIDE DEF bound, phis, advanced
<1>11. QED
    BY <1>1, <1>6, <1>7, <1>8, <1>9, <1>10

\* compute_join_entry: its phis are named by the block and the position.
LEMMA JoinEntryFacts ==
    ASSUME NEW b
    PROVE  LET J == JoinEntry(b)
           IN  /\ \A p \in J.phis : \E d : p.target = PhiVar(b, d)
               /\ \A p, q \in J.phis : p.target = q.target => p = q
<1> DEFINE stacks == IncomingStacks(b)
           initial == InitialEntryStack(b)
           sources == IF initial = <<>> THEN stacks ELSE With(stacks, VirtualSource, initial)
           maxDepth == Min({MaxDepth, Max({0} \cup {Len(sources[s]) : s \in DOMAIN sources})})
           recovered == RecoveredDup(b, stacks)
           Operand(s, depth) ==
               IF s \in recovered /\ depth \in DOMAIN stacks[s] THEN stacks[s][depth]
               ELSE IF s \in recovered /\ depth = Len(stacks[s]) + 1 THEN Last(stacks[s])
               ELSE Aligned(sources[s], depth, maxDepth)
           operands == [depth \in 1..maxDepth |-> [s \in DOMAIN sources |-> Operand(s, depth)]]
           merged == {depth \in 1..maxDepth : ~Agree(operands[depth])}
           phis == {[target |-> PhiVar(b, depth), operands |-> operands[depth]] : depth \in merged}
<1>1. JoinEntry(b).phis = {} \/ JoinEntry(b).phis = phis
    BY DEF JoinEntry
<1> HIDE DEF operands, merged
<1>2. \A p \in phis : \E d : p.target = PhiVar(b, d)
    OBVIOUS
<1>3. ASSUME NEW p \in phis, NEW q \in phis, p.target = q.target PROVE p = q
    <2>1. PICK d \in merged : p = [target |-> PhiVar(b, d), operands |-> operands[d]]
        OBVIOUS
    <2>2. PICK e \in merged : q = [target |-> PhiVar(b, e), operands |-> operands[e]]
        OBVIOUS
    <2>3. PhiVar(b, d) = PhiVar(b, e)
        BY <1>3, <2>1, <2>2
    <2>4. d = e
        BY <2>3, PhiVarApart
    <2>5. QED BY <2>1, <2>2, <2>4
<1> HIDE DEF phis
<1>4. QED
    BY <1>1, <1>2, <1>3

-----------------------------------------------------------------------------
(***************************************************************************)
(* One block of the form                                                   *)
(***************************************************************************)

\* What an assembled block a adds to the form as its block b.
NewDefinitions(a, b) ==
    LET stmts == ExecuteBlock(a.start, b).stmts
    IN  {<<p.target, b, 0>> : p \in a.phis} \cup {<<stmts[i].target, b, i>> : i \in DOMAIN stmts}

PhisApart(a) == \A p, q \in a.phis : p.target = q.target => p = q

\* They are phis of b's stack, or versions between vs and the ones b ends with.
LEMMA AssembleDefines ==
    ASSUME method \in Methods, SlotsBound, NEW b \in Blocks,
           DOMAIN entry[b].slots \subseteq Slots, NEW vs \in [Bases -> Nat]
    PROVE  LET a == Assemble(b, vs)
               end == ExecuteBlock(a.start, b).versions
           IN  /\ end \in [Bases -> Nat]
               /\ \A x \in Bases : vs[x] <= end[x]
               /\ \A d \in NewDefinitions(a, b) :
                      (\E e : d[1] = PhiVar(b, e)) \/ Owned(d[1], vs, end)
               /\ \A d1, d2 \in NewDefinitions(a, b) : d1[1] = d2[1] => d1 = d2
               /\ PhisApart(a)
<1> DEFINE J == JoinSlots(b, vs)
           E == JoinEntry(b)
           a == Assemble(b, vs)
           s == ExecuteBlock(a.start, b)
           mid == J.versions
           end == s.versions
<1>1. /\ a.phis = E.phis \cup J.phis
      /\ a.start = Symbolic(entry[b].stack, entry[b].slots, mid)
    BY DEF Assemble
<1>2. /\ mid \in [Bases -> Nat]
      /\ \A x \in Bases : vs[x] <= mid[x]
      /\ \A p \in J.phis : Owned(p.target, vs, mid)
      /\ PhisApart(J)
    BY JoinSlotsFacts DEF PhisApart
<1>3. /\ \A p \in E.phis : \E d : p.target = PhiVar(b, d)
      /\ PhisApart(E)
    BY JoinEntryFacts DEF PhisApart
<1> HIDE DEF J, E, a, mid
<1>4. WellFormed(a.start) /\ a.start.stmts = <<>> /\ a.start.versions = mid
    <2>1. <<>> \in Seq({})
        OBVIOUS
    <2>2. QED BY <1>1, <1>2, <2>1 DEF Symbolic, WellFormed, Fields
<1>5. Grown(mid, s)
    BY <1>4, BlockDefines
<1> HIDE DEF s
<1>6. /\ end \in [Bases -> Nat]
      /\ \A x \in Bases : mid[x] <= end[x]
      /\ \A i \in DOMAIN s.stmts : Owned(s.stmts[i].target, mid, end)
      /\ \A i, j \in DOMAIN s.stmts : s.stmts[i].target = s.stmts[j].target => i = j
    BY <1>5 DEF Grown, WellFormed
<1> HIDE DEF end
<1>7. \A x \in Bases : vs[x] <= end[x] /\ vs[x] <= vs[x] /\ end[x] <= end[x]
    <2>1. \A x \in Bases : vs[x] \in Nat /\ mid[x] \in Nat /\ end[x] \in Nat
        BY <1>2, <1>6
    <2>2. QED BY <1>2, <1>6, <2>1
<1>8. NewDefinitions(a, b) = {<<p.target, b, 0>> : p \in a.phis}
                             \cup {<<s.stmts[i].target, b, i>> : i \in DOMAIN s.stmts}
    BY DEF NewDefinitions, s
<1>9. \A p \in a.phis : (\E e : p.target = PhiVar(b, e)) \/ Owned(p.target, vs, mid)
    BY <1>1, <1>2, <1>3
<1>10. \A p \in a.phis : \A i \in DOMAIN s.stmts : p.target # s.stmts[i].target
    <2> SUFFICES ASSUME NEW p \in a.phis, NEW i \in DOMAIN s.stmts, p.target = s.stmts[i].target
                 PROVE  FALSE
        OBVIOUS
    <2>1. Owned(p.target, mid, end)
        BY <1>6
    <2>2. CASE Owned(p.target, vs, mid)
        BY <1>2, <2>1, <2>2, OwnedApart
    <2>3. ASSUME NEW e, p.target = PhiVar(b, e) PROVE FALSE
        BY <2>1, <2>3, PhiVarApart DEF Owned
    <2>4. QED BY <1>9, <2>2, <2>3
<1>11. PhisApart(a)
    <2> SUFFICES ASSUME NEW p \in a.phis, NEW q \in a.phis, p.target = q.target PROVE p = q
        BY DEF PhisApart
    <2>1. CASE (p \in E.phis /\ q \in E.phis) \/ (p \in J.phis /\ q \in J.phis)
        BY <1>2, <1>3, <2>1 DEF PhisApart
    <2>2. ASSUME NEW r \in E.phis, NEW t \in J.phis PROVE r.target # t.target
        BY <1>2, <1>3, PhiVarApart DEF Owned
    <2>3. QED BY <1>1, <2>1, <2>2
<1>12. \A d \in NewDefinitions(a, b) : (\E e : d[1] = PhiVar(b, e)) \/ Owned(d[1], vs, end)
    <2>1. \A p \in a.phis : (\E e : p.target = PhiVar(b, e)) \/ Owned(p.target, vs, end)
        BY <1>2, <1>6, <1>7, <1>9, OwnedWidens
    <2>2. \A i \in DOMAIN s.stmts : Owned(s.stmts[i].target, vs, end)
        BY <1>2, <1>6, <1>7, OwnedWidens
    <2>3. QED BY <1>8, <2>1, <2>2
<1>13. \A d1, d2 \in NewDefinitions(a, b) : d1[1] = d2[1] => d1 = d2
    BY <1>6, <1>8, <1>10
<1>14. QED
    BY <1>6, <1>7, <1>11, <1>12, <1>13 DEF a, end, s

-----------------------------------------------------------------------------
(***************************************************************************)
(* The invariant                                                           *)
(***************************************************************************)

\* What the builder has recorded of the blocks, and when it has all of it.
RecordInv ==
    /\ pc \in {"loop", "pass", "assemble", "built", "run"}
    /\ method \in Methods
    /\ block \in Blocks
    /\ iterations \in Nat
    /\ SlotsBound
    /\ \A b \in DOMAIN entry : DOMAIN entry[b].slots \subseteq Slots
    /\ pc = "loop" => block = Entry
    /\ pc = "loop" => (changed /\ iterations = 0) \/ Blocks \subseteq DOMAIN entry
    /\ pc = "pass" => 1..(block - 1) \subseteq DOMAIN entry
    /\ pc = "assemble" => Blocks \subseteq DOMAIN entry

\* What the assembled blocks define are phis of their stacks, or versions
\* between the ones reserved and the ones not given out yet.
FormInv ==
    /\ \E T : ssa \in Seq(T)
    /\ pc \in {"loop", "pass"} => ssa = <<>>
    /\ pc = "assemble" => Len(ssa) = block - 1
    /\ versions \in [Bases -> Nat]
    /\ pc = "assemble" => \A x \in Bases : Reserved[x] <= versions[x]
    /\ \A d \in Definitions : \/ \E b \in DOMAIN ssa : \E e : d[1] = PhiVar(b, e)
                              \/ Owned(d[1], Reserved, versions)
    /\ OneDefinition

LEMMA RecordInit == BuilderInit => RecordInv
<1> SUFFICES ASSUME BuilderInit PROVE RecordInv
    OBVIOUS
<1>1. method \in Methods /\ Len(method.code) \in Nat /\ Len(method.code) > 0
    BY MethodsAssumption, CodeAssumption DEF BuilderInit
<1>2. QED
    BY <1>1 DEF BuilderInit, RecordInv, Blocks, Entry, SlotsBound

LEMMA LengthIsNat ==
    ASSUME method \in Methods
    PROVE  Len(method.code) \in Nat /\ Len(method.code) > 0
    BY MethodsAssumption, CodeAssumption

\* NextBlock goes on with a block, or is through with all of them.
LEMMA NextBlockFacts ==
    ASSUME method \in Methods, block \in Blocks, UNCHANGED method, NEW phase, NEW next,
           NextBlock(phase, next)
    PROVE  /\ block' \in Blocks'
           /\ \/ pc' = phase /\ block' = block + 1
              \/ pc' = next /\ block = Len(method.code) /\ block' = Entry
    BY LengthIsNat DEF NextBlock, Blocks, Entry

LEMMA RecordPassBlock == RecordInv /\ versions \in [Bases -> Nat] /\ PassBlock => RecordInv'
<1> SUFFICES ASSUME RecordInv, versions \in [Bases -> Nat], PassBlock PROVE RecordInv'
    OBVIOUS
<1> DEFINE join == JoinEntry(block)
           slot == JoinSlots(block, versions)
           in == [stack |-> join.stack, slots |-> slot.slots]
           start == Symbolic(in.stack, in.slots, slot.versions)
           end == ExecuteBlock(start, block)
           out == [stack |-> end.stack, slots |-> end.slots]
<1>1. /\ pc = "pass" /\ method \in Methods /\ block \in Blocks /\ SlotsBound
      /\ UNCHANGED <<method, iterations>> /\ NextBlock("pass", "loop")
    BY DEF PassBlock, RecordInv
<1>2. entry' = With(entry, block, in) /\ exit' = With(exit, block, out)
    BY DEF PassBlock
<1>3. /\ DOMAIN slot.slots \subseteq Slots
      /\ slot.versions \in [Bases -> Nat]
    BY <1>1, JoinSlotsFacts
<1> HIDE DEF join, slot
<1>4. WellFormed(start) /\ start.stmts = <<>>
    <2>1. <<>> \in Seq({})
        OBVIOUS
    <2>2. QED BY <1>3, <2>1 DEF Symbolic, WellFormed, Fields
<1>5. DOMAIN in.slots \subseteq Slots
    BY <1>3
<1> HIDE DEF in, start
<1>6. DOMAIN end.slots \subseteq Slots
    BY <1>1, <1>4, BlockDefines DEF Grown, WellFormed
<1> HIDE DEF end
<1>7. DOMAIN out.slots \subseteq Slots
    BY <1>6
<1> HIDE DEF out
<1>8. SlotsBound'
    BY <1>1, <1>2, <1>7 DEF SlotsBound, With
<1>9. \A b \in DOMAIN entry' : DOMAIN entry'[b].slots \subseteq Slots
    BY <1>2, <1>5 DEF RecordInv, With
<1>10. DOMAIN entry' = DOMAIN entry \cup {block}
    BY <1>2 DEF With
<1>11. /\ block' \in Blocks'
       /\ \/ pc' = "pass" /\ block' = block + 1
          \/ pc' = "loop" /\ block = Len(method.code) /\ block' = Entry
    BY <1>1, NextBlockFacts
<1>12. 1..block \subseteq DOMAIN entry'
    <2>1. 1..(block - 1) \subseteq DOMAIN entry /\ block \in Nat
        BY <1>1, LengthIsNat DEF RecordInv, Blocks
    <2>2. QED BY <1>10, <2>1
<1>13. pc' = "loop" => Blocks' \subseteq DOMAIN entry'
    BY <1>1, <1>11, <1>12 DEF Blocks
<1>14. pc' = "pass" => 1..(block' - 1) \subseteq DOMAIN entry'
    <2>1. block \in Nat
        BY <1>1, LengthIsNat DEF Blocks
    <2>2. QED BY <1>11, <1>12, <2>1
<1>15. iterations' \in Nat /\ method' \in Methods
    BY <1>1 DEF RecordInv
<1>16. pc' \in {"loop", "pass"}
    BY <1>11
<1>17. pc' = "loop" => block' = Entry
    BY <1>11
<1>18. QED
    BY <1>8, <1>9, <1>11, <1>13, <1>14, <1>15, <1>16, <1>17 DEF RecordInv, Entry

LEMMA RecordNext == RecordInv /\ versions \in [Bases -> Nat] /\ [Next]_vars => RecordInv'
<1> SUFFICES ASSUME RecordInv, versions \in [Bases -> Nat], [Next]_vars PROVE RecordInv'
    OBVIOUS
<1> USE DEF RecordInv
<1>1. CASE StartPass
    BY <1>1, LengthIsNat DEF StartPass, SlotsBound, Blocks, Entry
<1>2. CASE PassBlock
    BY <1>2, RecordPassBlock
<1>3. CASE TaintPhis
    BY <1>3 DEF TaintPhis, AnotherPass, SlotsBound, Blocks
<1>4. CASE AssembleBlock
    <2>1. /\ pc = "assemble" /\ NextBlock("assemble", "built")
          /\ UNCHANGED <<method, iterations, entry, exit>>
        BY <1>4 DEF AssembleBlock
    <2>2. block' \in Blocks' /\ pc' \in {"assemble", "built"}
        BY <2>1, NextBlockFacts
    <2>3. QED BY <2>1, <2>2 DEF SlotsBound, Blocks
<1>5. CASE Enter
    BY <1>5 DEF Enter, SlotsBound, Blocks
<1>6. CASE UNCHANGED builderVars
    BY <1>6 DEF builderVars, SlotsBound, Blocks
<1>7. QED
    BY <1>1, <1>2, <1>3, <1>4, <1>5, <1>6
       DEF Next, BuilderNext, Step, Transfer, Throw, Finished, vars

-----------------------------------------------------------------------------
(***************************************************************************)
(* Adding a block to the form                                              *)
(***************************************************************************)

\* Executing a block looks at the method and at what is tainted only.
LEMMA ExecutionUnchanged ==
    ASSUME UNCHANGED <<method, tainted>>
    PROVE  \A s, b : ExecuteBlock(s, b)' = ExecuteBlock(s, b)
    BY DEF ExecuteBlock, ExecuteUpTo, ApplyInstruction, ApplyReorder, ApplyDepth, ApplyCompute,
           ApplyLoad, ApplyStore, ApplyInitslot, ApplyRet, IsUnknownOrTainted

LEMMA ReservedUnchanged == UNCHANGED method => Reserved' = Reserved
    BY DEF Reserved

LEMMA DefinitionsUnchanged ==
    ASSUME UNCHANGED <<method, tainted, ssa>>
    PROVE  Definitions' = Definitions /\ OneDefinition' = OneDefinition
<1>1. \A s, b : ExecuteBlock(s, b)' = ExecuteBlock(s, b)
    BY ExecutionUnchanged
<1>2. Definitions' = Definitions
    BY <1>1 DEF Definitions, DefinitionsIn
<1>3. QED
    BY <1>2 DEF OneDefinition

LEMMA DefinitionsGrow ==
    ASSUME NEW T, ssa \in Seq(T), NEW a, ssa' = Append(ssa, a), UNCHANGED <<method, tainted>>
    PROVE  /\ DOMAIN ssa' = DOMAIN ssa \cup {Len(ssa) + 1}
           /\ Len(ssa) + 1 \notin DOMAIN ssa
           /\ \A b \in DOMAIN ssa : ssa'[b] = ssa[b]
           /\ ssa'[Len(ssa) + 1] = a
           /\ Definitions' = Definitions \cup NewDefinitions(a, Len(ssa) + 1)
           /\ \E S : ssa' \in Seq(S)
           /\ Len(ssa') = Len(ssa) + 1
<1>0. PICK n : n = Len(ssa) + 1
    OBVIOUS
<1>1. /\ DOMAIN ssa' = DOMAIN ssa \cup {n}
      /\ n \notin DOMAIN ssa
      /\ \A b \in DOMAIN ssa : ssa'[b] = ssa[b]
      /\ ssa'[n] = a
      /\ Len(ssa') = n
    BY <1>0, Appended
<1>2. \E S : ssa' \in Seq(S)
    <2>1. \E S : Append(ssa, a) \in Seq(S)
        BY Appended
    <2>2. QED BY <2>1
<1>3. \A s, b : ExecuteBlock(s, b)' = ExecuteBlock(s, b)
    BY ExecutionUnchanged
<1>4. \A b \in DOMAIN ssa : DefinitionsIn(b)' = DefinitionsIn(b)
    BY <1>1, <1>3 DEF DefinitionsIn
<1>5. DefinitionsIn(n)' = NewDefinitions(a, n)
    BY <1>1, <1>3 DEF DefinitionsIn, NewDefinitions
<1>6. Definitions' = Definitions \cup NewDefinitions(a, n)
    <2>1. \A d : d \in Definitions' <=> \E b \in DOMAIN ssa' : d \in DefinitionsIn(b)'
        BY DEF Definitions
    <2>2. \A d : d \in Definitions <=> \E b \in DOMAIN ssa : d \in DefinitionsIn(b)
        BY DEF Definitions
    <2>3. \A d : d \in Definitions' <=> d \in Definitions \cup NewDefinitions(a, n)
        BY <1>1, <1>4, <1>5, <2>1, <2>2
    <2>4. QED BY <2>3
<1>7. QED
    BY <1>0, <1>1, <1>2, <1>6

\* Whose definitions carry which block.
LEMMA PlaceOfDefinitions ==
    /\ \A d \in Definitions : d[2] \in DOMAIN ssa
    /\ \A a, b : \A d \in NewDefinitions(a, b) : d[2] = b
    BY DEF Definitions, DefinitionsIn, NewDefinitions

LEMMA FormAssemble == RecordInv /\ FormInv /\ AssembleBlock => FormInv'
<1> SUFFICES ASSUME RecordInv, FormInv, AssembleBlock PROVE FormInv'
    OBVIOUS
<1> DEFINE a == Assemble(block, versions)
           end == ExecuteBlock(a.start, block).versions
<1>1. /\ pc = "assemble" /\ NextBlock("assemble", "built")
      /\ ssa' = Append(ssa, a) /\ versions' = end
      /\ UNCHANGED <<method, tainted>>
    BY DEF AssembleBlock
<1>2. /\ method \in Methods /\ SlotsBound /\ block \in Blocks
      /\ DOMAIN entry[block].slots \subseteq Slots
    BY <1>1 DEF RecordInv
<1>3. versions \in [Bases -> Nat] /\ \A x \in Bases : Reserved[x] <= versions[x]
    BY <1>1 DEF FormInv
<1>4. /\ end \in [Bases -> Nat]
      /\ \A x \in Bases : versions[x] <= end[x]
      /\ \A d \in NewDefinitions(a, block) :
             (\E e : d[1] = PhiVar(block, e)) \/ Owned(d[1], versions, end)
      /\ \A d1, d2 \in NewDefinitions(a, block) : d1[1] = d2[1] => d1 = d2
      /\ PhisApart(a)
    BY <1>2, <1>3, AssembleDefines
<1> HIDE DEF end, a
<1>5. Len(ssa) + 1 = block
    <2>1. Len(ssa) = block - 1
        BY <1>1 DEF FormInv
    <2>2. block \in Nat
        BY <1>2, LengthIsNat DEF Blocks
    <2>3. QED BY <2>1, <2>2
<1>6. /\ DOMAIN ssa' = DOMAIN ssa \cup {block}
      /\ block \notin DOMAIN ssa
      /\ \A b \in DOMAIN ssa : ssa'[b] = ssa[b]
      /\ ssa'[block] = a
      /\ Definitions' = Definitions \cup NewDefinitions(a, block)
      /\ \E S : ssa' \in Seq(S)
      /\ Len(ssa') = block
    <2>1. PICK T : ssa \in Seq(T)
        BY DEF FormInv
    <2>2. QED BY <1>1, <1>5, <2>1, DefinitionsGrow
<1>7. Reserved' = Reserved /\ Reserved \in [Bases -> Nat]
    BY <1>1, <1>2, ReservedUnchanged, ReservedFacts
<1>8. \A x \in Bases : Reserved[x] <= end[x]
    <2>1. \A x \in Bases : Reserved[x] \in Nat /\ versions[x] \in Nat /\ end[x] \in Nat
        BY <1>3, <1>4, <1>7
    <2>2. QED BY <1>3, <1>4, <2>1
<1>9. \A x \in Bases : Reserved[x] <= Reserved[x] /\ end[x] <= end[x]
    <2>1. \A x \in Bases : Reserved[x] \in Nat /\ end[x] \in Nat
        BY <1>4, <1>7
    <2>2. QED BY <2>1
<1>10. \A d \in Definitions : \/ \E b \in DOMAIN ssa : \E e : d[1] = PhiVar(b, e)
                              \/ Owned(d[1], Reserved, versions)
    BY DEF FormInv
<1>11. \A d \in Definitions' : \/ \E b \in DOMAIN ssa' : \E e : d[1] = PhiVar(b, e)
                               \/ Owned(d[1], Reserved, end)
    <2>1. ASSUME NEW d \in Definitions
          PROVE  (\E b \in DOMAIN ssa' : \E e : d[1] = PhiVar(b, e)) \/ Owned(d[1], Reserved, end)
        BY <1>3, <1>4, <1>6, <1>7, <1>9, <1>10, OwnedWidens
    <2>2. ASSUME NEW d \in NewDefinitions(a, block)
          PROVE  (\E b \in DOMAIN ssa' : \E e : d[1] = PhiVar(b, e)) \/ Owned(d[1], Reserved, end)
        <3>1. CASE Owned(d[1], versions, end)
            <4>1. \A x \in Bases : Reserved[x] <= versions[x] /\ end[x] <= end[x]
                BY <1>3, <1>9
            <4>2. Owned(d[1], Reserved, end)
                BY <1>3, <1>4, <1>7, <3>1, <4>1, OwnedWidens
            <4>3. QED BY <4>2
        <3>2. ASSUME NEW e, d[1] = PhiVar(block, e)
              PROVE  \E b \in DOMAIN ssa' : \E c : d[1] = PhiVar(b, c)
            BY <1>6, <3>2
        <3>3. QED BY <1>4, <3>1, <3>2
    <2>3. QED BY <1>6, <2>1, <2>2
<1>12. ASSUME NEW d \in Definitions, NEW n \in NewDefinitions(a, block) PROVE d[1] # n[1]
    <2> SUFFICES ASSUME d[1] = n[1] PROVE FALSE
        OBVIOUS
    <2>1. CASE Owned(d[1], Reserved, versions)
        <3>1. CASE Owned(n[1], versions, end)
            BY <1>3, <1>7, <2>1, <3>1, OwnedApart
        <3>2. ASSUME NEW e, n[1] = PhiVar(block, e) PROVE FALSE
            BY <2>1, <3>2, PhiVarApart DEF Owned
        <3>3. QED BY <1>4, <3>1, <3>2
    <2>2. ASSUME NEW b \in DOMAIN ssa, NEW c, d[1] = PhiVar(b, c) PROVE FALSE
        <3>1. CASE Owned(n[1], versions, end)
            BY <2>2, <3>1, PhiVarApart DEF Owned
        <3>2. ASSUME NEW e, n[1] = PhiVar(block, e) PROVE FALSE
            <4>1. PhiVar(b, c) = PhiVar(block, e)
                BY <2>2, <3>2
            <4>2. b = block
                BY <4>1, PhiVarApart
            <4>3. QED BY <1>6, <4>2
        <3>3. QED BY <1>4, <3>1, <3>2
    <2>3. QED BY <1>10, <2>1, <2>2
<1>13. \A d1, d2 \in Definitions' : d1[1] = d2[1] => d1 = d2
    BY <1>4, <1>6, <1>12 DEF FormInv, OneDefinition
<1>14. \A b \in DOMAIN ssa' : \A p, q \in ssa'[b].phis : p.target = q.target => p = q
    BY <1>4, <1>6 DEF FormInv, OneDefinition, PhisApart
<1>15. OneDefinition'
    BY <1>13, <1>14 DEF OneDefinition
<1>16. pc' = "assemble" => Len(ssa') = block' - 1
    <2>1. \/ pc' = "assemble" /\ block' = block + 1
          \/ pc' = "built"
        BY <1>1, <1>2, NextBlockFacts
    <2>2. block \in Nat
        BY <1>2, LengthIsNat DEF Blocks
    <2>3. QED BY <1>6, <2>1, <2>2
<1>17. pc' \in {"assemble", "built"}
    BY <1>1 DEF NextBlock
<1>18. QED
    BY <1>1, <1>4, <1>6, <1>7, <1>8, <1>11, <1>15, <1>16, <1>17 DEF FormInv

-----------------------------------------------------------------------------
(***************************************************************************)
(* The theorems                                                            *)
(***************************************************************************)
SsaInv == RecordInv /\ FormInv

\* A form without blocks defines nothing.
LEMMA EmptyForm ==
    ASSUME ssa = <<>>
    PROVE  /\ Definitions = {} /\ OneDefinition
           /\ \E T : ssa \in Seq(T)
<1>1. DOMAIN ssa = {} /\ ssa \in Seq({})
    OBVIOUS
<1>2. Definitions = {}
    BY <1>1 DEF Definitions
<1>3. QED
    BY <1>1, <1>2 DEF OneDefinition

LEMMA FormInit == Init => FormInv
<1> SUFFICES ASSUME Init PROVE FormInv
    OBVIOUS
<1>1. ssa = <<>> /\ pc = "loop" /\ versions \in [Bases -> Nat]
    BY DEF Init, BuilderInit
<1>2. QED
    BY <1>1, EmptyForm DEF FormInv

\* While there is no form, any version counter will do.
LEMMA FormOfNothing ==
    ASSUME ssa' = <<>>, versions' \in [Bases -> Nat], Reserved' \in [Bases -> Nat],
           \/ pc' \in {"loop", "pass"}
           \/ pc' = "assemble" /\ block' = 1 /\ versions' = Reserved'
    PROVE  FormInv'
<1>1. /\ Definitions' = {} /\ OneDefinition'
      /\ \E T : ssa' \in Seq(T)
    <2>1. DOMAIN ssa' = {} /\ ssa' \in Seq({})
        OBVIOUS
    <2>2. Definitions' = {}
        BY <2>1 DEF Definitions
    <2>3. QED BY <2>1, <2>2 DEF OneDefinition
<1>2. Len(ssa') = 0
    OBVIOUS
<1>3. pc' = "assemble" => \A x \in Bases : Reserved'[x] <= versions'[x]
    <2>1. \A x \in Bases : versions'[x] \in Nat
        OBVIOUS
    <2>2. QED BY <2>1
<1>4. pc' = "assemble" => Len(ssa') = block' - 1
    BY <1>2
<1>5. QED
    BY <1>1, <1>3, <1>4 DEF FormInv

LEMMA FormNext == SsaInv /\ [Next]_vars => FormInv'
<1> SUFFICES ASSUME RecordInv, FormInv, [Next]_vars PROVE FormInv'
    BY DEF SsaInv
<1>1. /\ method \in Methods /\ block \in Blocks /\ SlotsBound
      /\ Reserved \in [Bases -> Nat]
    BY ReservedFacts DEF RecordInv
<1>2. CASE StartPass
    <2>1. ssa' = <<>> /\ method' = method /\ pc' = "pass" /\ versions' = Reserved
        BY <1>2 DEF StartPass, FormInv
    <2>2. Reserved' = Reserved
        BY <2>1, ReservedUnchanged
    <2>3. QED
        BY <1>1, <2>1, <2>2, FormOfNothing
<1>3. CASE PassBlock
    <2> DEFINE slot == JoinSlots(block, versions)
               start == Symbolic(JoinEntry(block).stack, slot.slots, slot.versions)
    <2>1. /\ ssa' = <<>> /\ method' = method /\ pc' \in {"loop", "pass"}
          /\ versions' = ExecuteBlock(start, block).versions
        BY <1>3 DEF PassBlock, FormInv, NextBlock
    <2>2. versions \in [Bases -> Nat]
        BY DEF FormInv
    <2>3. DOMAIN slot.slots \subseteq Slots /\ slot.versions \in [Bases -> Nat]
        BY <1>1, <2>2, JoinSlotsFacts
    <2> HIDE DEF slot
    <2>4. WellFormed(start) /\ start.stmts = <<>>
        <3>1. <<>> \in Seq({})
            OBVIOUS
        <3>2. QED BY <2>3, <3>1 DEF Symbolic, WellFormed, Fields
    <2> HIDE DEF start
    <2>5. versions' \in [Bases -> Nat]
        BY <1>1, <2>1, <2>4, BlockDefines DEF Grown, WellFormed
    <2>6. Reserved' = Reserved
        BY <2>1, ReservedUnchanged
    <2>7. QED
        BY <1>1, <2>1, <2>5, <2>6, FormOfNothing
<1>4. CASE TaintPhis
    <2>1. /\ ssa' = <<>> /\ method' = method /\ pc' = "assemble"
          /\ versions' = Reserved /\ block' = 1
        BY <1>4 DEF TaintPhis, FormInv, RecordInv, Entry
    <2>2. Reserved' = Reserved
        BY <2>1, ReservedUnchanged
    <2>3. QED
        BY <1>1, <2>1, <2>2, FormOfNothing
<1>5. CASE AssembleBlock
    BY <1>5, FormAssemble
<1>6. CASE Enter \/ UNCHANGED builderVars
    <2>1. /\ UNCHANGED <<method, block, versions, tainted, ssa>>
          /\ pc' = "run" \/ pc' = pc
        BY <1>6 DEF Enter, builderVars
    <2>2. /\ Definitions' = Definitions /\ OneDefinition' = OneDefinition
          /\ Reserved' = Reserved
        BY <2>1, DefinitionsUnchanged, ReservedUnchanged
    <2>3. QED
        BY <2>1, <2>2 DEF FormInv
<1>7. QED
    BY <1>2, <1>3, <1>4, <1>5, <1>6
       DEF Next, BuilderNext, Step, Transfer, Throw, Finished, vars

\* The invariant of the builder.
THEOREM SsaInvariant == Spec => []SsaInv
<1>1. Init => SsaInv
    BY RecordInit, FormInit DEF Init, SsaInv
<1>2. SsaInv /\ [Next]_vars => SsaInv'
    BY RecordNext, FormNext DEF SsaInv, FormInv
<1>3. QED
    BY <1>1, <1>2, PTL DEF Spec

\* Each variable of the form has one definition: the versions fresh_var and
\* compute_join_slots hand out in the last pass never repeat, whatever the
\* method, and no two phis of a block share a target.
THEOREM FormDefinesOnce == Spec => []OneDefinition
<1>1. SsaInv => OneDefinition
    BY DEF SsaInv, FormInv
<1>2. QED
    BY <1>1, SsaInvariant, PTL

\* What is defined is no argument: reserve_argument_versions took version 0.
LEMMA DefinedIsNoArgument == SsaInv => ArgumentsKept
<1> SUFFICES ASSUME SsaInv, NEW d \in Definitions, NEW i \in 0..(method.args - 1),
                    d[1] = Initial(Arg(i))
             PROVE  FALSE
    BY DEF ArgumentsKept, ArgumentInputs
<1>1. /\ Reserved \in [Bases -> Nat]
      /\ Arg(i) \in Bases /\ 1 <= Reserved[Arg(i)]
    BY ReservedFacts DEF SsaInv, RecordInv
<1>2. \/ \E b \in DOMAIN ssa : \E e : d[1] = PhiVar(b, e)
      \/ Owned(d[1], Reserved, versions)
    BY DEF SsaInv, FormInv
<1>3. ASSUME NEW b, NEW e, d[1] = PhiVar(b, e) PROVE FALSE
    BY <1>1, <1>3, PhiVarApart DEF Initial
<1>4. CASE Owned(d[1], Reserved, versions)
    <2>1. PICK x \in Bases, n \in Nat : d[1] = Var(x, n) /\ Reserved[x] <= n
        BY <1>4 DEF Owned
    <2>2. Var(x, n) = Var(Arg(i), 0)
        BY <2>1 DEF Initial
    <2>3. x = Arg(i) /\ n = 0
        BY <1>1, <2>2, VarInjective
    <2>4. QED BY <1>1, <2>1, <2>3
<1>5. QED
    BY <1>2, <1>3, <1>4

\* The form never redefines an argument the method is entered with.
THEOREM FormKeepsArguments == Spec => []ArgumentsKept
    BY DefinedIsNoArgument, SsaInvariant, PTL

\* SSA form, of every method whose joins find each static they merge written
\* on every edge.  Where a join takes the value on entry of a static instead,
\* it is version 0, which fresh_var may have given to a store.
THEOREM StaticSingleAssignment == Spec => [](AbsentStatics = {} => SingleAssignment)
<1>1. ASSUME SsaInv, AbsentStatics = {} PROVE SingleAssignment
    <2>1. MethodInputs = ArgumentInputs
        BY <1>1 DEF MethodInputs
    <2>2. OneDefinition /\ ArgumentsKept
        BY <1>1, DefinedIsNoArgument DEF SsaInv, FormInv
    <2>3. QED
        BY <2>1, <2>2 DEF SingleAssignment, ArgumentsKept
<1>2. QED
    BY <1>1, SsaInvariant, PTL
=============================================================================
